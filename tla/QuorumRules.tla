---------------------------- MODULE QuorumRules ----------------------------
(***************************************************************************)
(* The arithmetic of the chamber: the quorum that lets a round open and    *)
(* the rule that turns a count of votes into a result                      *)
(* (orchestrator: quorum_service.py, calculate_round_result of             *)
(* voting_round_service.py, the suggested result of vote_router.py).       *)
(*                                                                         *)
(* approval_threshold is a percentage with two decimals, Numeric(5, 2); it *)
(* is an integer number of hundredths here, 5000 for 50 %, so that the     *)
(* Decimal arithmetic of the code is exact integer arithmetic.             *)
(***************************************************************************)
EXTENDS Integers

CalculationBase == {"VOTES_CAST", "MEMBERS_PRESENT", "TOTAL_MEMBERS"}
PresidentType   == {"EX_OFFICIO", "LEGISLATOR"}
Thresholds      == 0 .. 10000
Results         == {"PASSED", "FAILED", "TIED"}

MaxOf(a, b) == IF a >= b THEN a ELSE b

\* Mutation of ComputeQuorumMinimum: half of the members is enough.
HalfIsAQuorum(totalMembers) == (totalMembers + 1) \div 2

\* The only attendance count that lets a round open or a session start.
ComputeQuorumMinimum(totalMembers) == totalMembers \div 2 + 1

\* Whether the presiding officer's seat is taken out of the counts.
PresidentExcluded(presType, votesOrdinarily) ==
    presType = "EX_OFFICIO" \/ ~votesOrdinarily

Seat(presType, votesOrdinarily) ==
    IF PresidentExcluded(presType, votesOrdinarily) THEN 1 ELSE 0

\* calculate_effective_denominator for MEMBERS_PRESENT or TOTAL_MEMBERS:
\* both only take the presiding officer's seat out of the raw count.
EffectiveCount(presType, votesOrdinarily, raw) ==
    MaxOf(raw - Seat(presType, votesOrdinarily), 0)

\* The two counts of get_certified_quorum, compared as open_voting_round does.
HasCertifiedQuorum(presType, votesOrdinarily, rawPresent, rawTotal) ==
    EffectiveCount(presType, votesOrdinarily, rawPresent)
        >= ComputeQuorumMinimum(EffectiveCount(presType, votesOrdinarily, rawTotal))

-----------------------------------------------------------------------------
(* calculate_round_result.                                                 *)

\* Mutation of Denominator: MEMBERS_PRESENT is the snapshot and nothing else.
DenominatorOfSnapshot(base, aff, neg, abst, quorumPresent, totalMembers) ==
    CASE base = "VOTES_CAST"      -> aff + neg
      [] base = "MEMBERS_PRESENT" -> quorumPresent
      [] base = "TOTAL_MEMBERS"   -> totalMembers

\* Mutation of Denominator: MEMBERS_PRESENT is the number of votes.
DenominatorOfVotes(base, aff, neg, abst, quorumPresent, totalMembers) ==
    CASE base = "VOTES_CAST"      -> aff + neg
      [] base = "MEMBERS_PRESENT" -> aff + neg + abst
      [] base = "TOTAL_MEMBERS"   -> totalMembers

\* MEMBERS_PRESENT never divides by fewer members than have voted.
Denominator(base, aff, neg, abst, quorumPresent, totalMembers) ==
    CASE base = "VOTES_CAST"      -> aff + neg
      [] base = "MEMBERS_PRESENT" -> MaxOf(quorumPresent, aff + neg + abst)
      [] base = "TOTAL_MEMBERS"   -> totalMembers

\* Mutation of RequiredVotes: the percentage is rounded down.
RequiredVotesFloored(denominator, threshold) ==
    IF threshold = 5000
    THEN denominator \div 2 + 1
    ELSE (denominator * threshold) \div 10000

\* ROUND_CEILING of denominator * threshold / 100, except that exactly half
\* means more than half.
RequiredVotes(denominator, threshold) ==
    IF threshold = 5000
    THEN denominator \div 2 + 1
    ELSE (denominator * threshold + 9999) \div 10000

Carries(aff, neg, denominator, threshold) ==
    IF threshold = 0
    THEN aff > neg
    ELSE aff >= RequiredVotes(denominator, threshold)

\* The tests of calculate_round_result, in their order.
Decide(aff, neg, denominator, threshold) ==
    IF denominator = 0 THEN "FAILED"
    ELSE IF aff = neg THEN "TIED"
    ELSE IF Carries(aff, neg, denominator, threshold) THEN "PASSED" ELSE "FAILED"

RoundResult(aff, neg, abst, base, threshold, quorumPresent, totalMembers) ==
    Decide(aff, neg,
           Denominator(base, aff, neg, abst, quorumPresent, totalMembers),
           threshold)

\* The tally endpoint leaves the abstentions at their default of 0.
SuggestedResult(aff, neg, base, threshold, quorumPresent, totalMembers) ==
    RoundResult(aff, neg, 0, base, threshold, quorumPresent, totalMembers)
=============================================================================
