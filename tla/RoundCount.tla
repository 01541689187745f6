----------------------------- MODULE RoundCount -----------------------------
(***************************************************************************)
(* One round as a matter of numbers: the roll call, the certified quorum   *)
(* when the round opens, the votes as they come in, the result suggested   *)
(* to the presidency and the one that is proclaimed.  Who votes is in      *)
(* VotingRounds; here a chamber is how many legislators are where, because *)
(* the counts of a round are read at different times: the snapshot at the  *)
(* opening, the votes at the close, the roll at every look at the tally    *)
(* and again at the proclamation.                                          *)
(***************************************************************************)
EXTENDS QuorumRules

CONSTANTS
    MaxMembers,   \* bound: legislators on the roll, those removed included
    Rules         \* the voting types and presidencies the instance looks at

Rule == [base: CalculationBase, threshold: Thresholds,
         presType: PresidentType, votesOrdinarily: BOOLEAN]

ASSUME RoundCountAssumption == MaxMembers \in Nat /\ Rules \subseteq Rule

VARIABLES
    rule,        \* the voting type, session presidency and round of the count
    seated,      \* the presiding officer has a row among the legislators
    officerHere, \* and is marked PRESENT when the round opens
    waiting,     \* active legislators marked PRESENT who have not voted,
    away,        \* those not marked PRESENT,
    done,        \* and those who have voted
    gone,        \* legislators removed since: their PRESENT row and vote stay
    phase,       \* DRAFT, VOTING_OPEN, VOTING_CLOSED or proclaimed
    snapshot,    \* certified_quorum_count
    aff, neg, abst,
    suggested,   \* history: what the tally endpoint last answered, of which roll
    result

counts == <<aff, neg, abst>>
officer == <<rule, seated, officerHere>>
chamber == <<waiting, away, done, gone>>
vars == <<officer, chamber, phase, snapshot, counts, suggested, result>>

NoSuggestion == [result |-> "NONE", total |-> 0]

\* What the code counts: active legislators, and PRESENT rows of the session.
Members == waiting + away + done
Present == waiting + gone

Cast == aff + neg + abst
TotalMembers == EffectiveCount(rule.presType, rule.votesOrdinarily, Members)

\* The officer's own seat is settled until the opening has looked at it.
OfficerAt(here) == IF phase = "DRAFT" /\ seated /\ officerHere = here THEN 1 ELSE 0

Init ==
    /\ rule \in Rules
    /\ seated \in BOOLEAN
    /\ officerHere \in BOOLEAN
    /\ officerHere => seated
    /\ phase = "DRAFT"
    /\ waiting \in OfficerAt(TRUE) .. MaxMembers
    /\ away \in OfficerAt(FALSE) .. MaxMembers - waiting
    /\ done = 0 /\ gone = 0
    /\ snapshot = 0
    /\ aff = 0 /\ neg = 0 /\ abst = 0
    /\ suggested = NoSuggestion
    /\ result = "NONE"

\* Nobody reads the attendance once the voting is closed.
AttendanceCounts == phase \in {"DRAFT", "VOTING_OPEN"}

\* bulk_update_attendance marks one more legislator PRESENT, also while the
\* round is open ...
Arrive ==
    /\ AttendanceCounts
    /\ away > OfficerAt(FALSE)
    /\ away' = away - 1 /\ waiting' = waiting + 1
    /\ UNCHANGED <<officer, done, gone, phase, snapshot, counts, suggested, result>>

\* ... or ABSENT.  Who has voted may leave as well, and nothing counts it.
Depart ==
    /\ AttendanceCounts
    /\ waiting > OfficerAt(TRUE)
    /\ waiting' = waiting - 1 /\ away' = away + 1
    /\ UNCHANGED <<officer, done, gone, phase, snapshot, counts, suggested, result>>

\* create_legislator: without a row in the session's attendance.
RegisterLegislator ==
    /\ phase # "PROCLAIMED"
    /\ Members + gone < MaxMembers
    /\ away' = away + 1
    /\ UNCHANGED <<officer, waiting, done, gone, phase, snapshot, counts, suggested, result>>

\* soft_delete_legislator: the attendance row and the votes stay.
RemoveLegislator ==
    /\ phase # "PROCLAIMED"
    /\ \/ /\ away > OfficerAt(FALSE)
          /\ away' = away - 1 /\ UNCHANGED <<waiting, done, gone>>
       \/ /\ waiting > OfficerAt(TRUE)
          /\ waiting' = waiting - 1 /\ gone' = gone + 1 /\ UNCHANGED <<away, done>>
       \/ /\ done > 0
          /\ done' = done - 1 /\ gone' = gone + 1 /\ UNCHANGED <<away, waiting>>
    /\ UNCHANGED <<officer, phase, snapshot, counts, suggested, result>>

\* open_voting_round: the snapshot is the effective number of the present.
OpenRound ==
    /\ phase = "DRAFT"
    /\ HasCertifiedQuorum(rule.presType, rule.votesOrdinarily, Present, Members)
    /\ phase' = "VOTING_OPEN"
    /\ snapshot' = EffectiveCount(rule.presType, rule.votesOrdinarily, Present)
    /\ UNCHANGED <<officer, chamber, counts, suggested, result>>

\* A legislator marked PRESENT, the presiding officer included, votes once.
CastVote ==
    /\ phase = "VOTING_OPEN"
    /\ waiting > 0
    /\ waiting' = waiting - 1 /\ done' = done + 1
    /\ \/ aff' = aff + 1 /\ UNCHANGED <<neg, abst>>
       \/ neg' = neg + 1 /\ UNCHANGED <<aff, abst>>
       \/ abst' = abst + 1 /\ UNCHANGED <<aff, neg>>
    /\ UNCHANGED <<officer, away, gone, phase, snapshot, suggested, result>>

CloseRound ==
    /\ phase = "VOTING_OPEN"
    /\ phase' = "VOTING_CLOSED"
    /\ UNCHANGED <<officer, chamber, snapshot, counts, suggested, result>>

\* The tally endpoint counts the roll for what it suggests ...
Suggest ==
    /\ phase = "VOTING_CLOSED"
    /\ suggested' = [result |-> SuggestedResult(aff, neg, rule.base, rule.threshold,
                                                snapshot, TotalMembers),
                     total |-> TotalMembers]
    /\ UNCHANGED <<officer, chamber, phase, snapshot, counts, result>>

\* ... and proclaim_voting_round counts it again; the snapshot is the old one.
Proclaim ==
    /\ phase = "VOTING_CLOSED"
    /\ phase' = "PROCLAIMED"
    /\ result' = RoundResult(aff, neg, abst, rule.base, rule.threshold,
                             snapshot, TotalMembers)
    /\ UNCHANGED <<officer, chamber, snapshot, counts, suggested>>

Next ==
    \/ Arrive \/ Depart \/ RegisterLegislator \/ RemoveLegislator
    \/ OpenRound \/ CastVote \/ CloseRound \/ Suggest \/ Proclaim

Spec == Init /\ [][Next]_vars

-----------------------------------------------------------------------------
(* Properties.                                                             *)

\* Every count stays a number of legislators and every result one of three.
TypeOK ==
    /\ rule \in Rules
    /\ seated \in BOOLEAN /\ officerHere \in BOOLEAN
    /\ waiting \in Nat /\ away \in Nat /\ done \in Nat /\ gone \in Nat
    /\ snapshot \in Nat
    /\ phase \in {"DRAFT", "VOTING_OPEN", "VOTING_CLOSED", "PROCLAIMED"}
    /\ aff \in Nat /\ neg \in Nat /\ abst \in Nat
    /\ suggested \in {NoSuggestion} \cup [result: Results, total: Nat]
    /\ result \in Results \cup {"NONE"}

\* The legislators a majority is a majority of: all of them, less a seated
\* presiding officer who does not vote in the round.
Excluded == seated /\ PresidentExcluded(rule.presType, rule.votesOrdinarily)
VotingSeats == Members - (IF Excluded THEN 1 ELSE 0)
VotingPresent == waiting - (IF Excluded /\ officerHere THEN 1 ELSE 0)

\* A round opens only with more than half of the voting seats present, although
\* open_voting_round takes one seat out of both counts whether or not the
\* presiding officer is present, or on the roll at all.  (A legislator removed
\* while PRESENT still counts, so it is claimed where there is none.)
QuorumIsAMajority ==
    [][OpenRound /\ gone = 0 => 2 * VotingPresent > VotingSeats]_vars

\* The integer arithmetic of calculate_round_result decides as the exact rule
\* does: no truncation and no rounding of the percentage changes a result.
ExactResult(a, n, denominator, threshold) ==
    IF denominator = 0 THEN "FAILED"
    ELSE IF a = n THEN "TIED"
    ELSE IF \/ threshold = 0 /\ a > n
            \/ threshold = 5000 /\ 2 * a > denominator
            \/ threshold \notin {0, 5000} /\ 10000 * a >= threshold * denominator
         THEN "PASSED" ELSE "FAILED"

ResultIsExact ==
    result # "NONE" =>
        result = ExactResult(aff, neg,
                             Denominator(rule.base, aff, neg, abst, snapshot, TotalMembers),
                             rule.threshold)

\* Under a rule that asks for half or more, no motion passes against a majority
\* of the votes, although members arrive after the snapshot was taken.  Against
\* the roll this needs that no more votes were cast than the roll now counts.
MajorityRule == rule.threshold = 0 \/ rule.threshold >= 5000

PassedOutvotes ==
    (/\ result = "PASSED"
     /\ MajorityRule
     /\ rule.base = "TOTAL_MEMBERS" => Cast <= TotalMembers)
    => aff > neg

\* A proclamation departs from what the tally endpoint last suggested in two cases
\* only.  Against the roll, if the roll changed in between, and then in the direction
\* of the change: a motion passes only by a smaller roll.  Against the members
\* present, if abstentions, which the endpoint does not count, exceed the snapshot,
\* and then never in favour of the motion.
SuggestionStands ==
    suggested # NoSuggestion /\ result \notin {"NONE", suggested.result} =>
        \/ /\ rule.base = "TOTAL_MEMBERS"
           /\ IF result = "PASSED"
              THEN TotalMembers < suggested.total \/ suggested.total = 0
              ELSE TotalMembers > suggested.total \/ TotalMembers = 0
        \/ /\ rule.base = "MEMBERS_PRESENT"
           /\ result # "PASSED"
           /\ abst > 0 /\ Cast > snapshot

\* models/voting_type.py documents the denominators: the quorum snapshot for
\* MEMBERS_PRESENT, the enrolled active legislators for TOTAL_MEMBERS.
DocumentedDenominator ==
    CASE rule.base = "VOTES_CAST"      -> aff + neg
      [] rule.base = "MEMBERS_PRESENT" -> snapshot
      [] rule.base = "TOTAL_MEMBERS"   -> Members

ResultAsDocumented ==
    result # "NONE" =>
        result = Decide(aff, neg, DocumentedDenominator, rule.threshold)
=============================================================================
