-------------------------- MODULE RoundCount_proofs --------------------------
(***************************************************************************)
(* The count of a round, for a chamber of any size and every rule.         *)
(***************************************************************************)
EXTENDS RoundCount, QuorumRules_proofs

USE RoundCountAssumption

\* A result is the one of the counts as they are, which the proclamation froze,
\* and a suggestion the one of the same votes and the roll it was made from.
ResultOfCounts ==
    result # "NONE" =>
        /\ phase = "PROCLAIMED"
        /\ result = RoundResult(aff, neg, abst, rule.base, rule.threshold,
                                snapshot, TotalMembers)

SuggestionOfVotes ==
    suggested # NoSuggestion =>
        /\ phase \in {"VOTING_CLOSED", "PROCLAIMED"}
        /\ suggested.result = SuggestedResult(aff, neg, rule.base, rule.threshold,
                                              snapshot, suggested.total)

IInv == TypeOK /\ ResultOfCounts /\ SuggestionOfVotes

LEMMA RuleType ==
    ASSUME TypeOK
    PROVE  /\ rule.base \in CalculationBase /\ rule.threshold \in Thresholds
           /\ rule.presType \in PresidentType /\ rule.votesOrdinarily \in BOOLEAN
BY DEF TypeOK, Rule

LEMMA ResultIsOneOfThree ==
    ASSUME NEW a, NEW n, NEW b, NEW base, NEW threshold, NEW q, NEW t
    PROVE  RoundResult(a, n, b, base, threshold, q, t) \in Results
BY DEF RoundResult, Decide, Results

LEMMA TotalMembersIsNatural == ASSUME TypeOK PROVE TotalMembers \in Nat
BY EffectiveCountBounds DEF TypeOK, TotalMembers, Members

\* Who comes, goes, is registered or removed changes neither votes nor answers.
ChamberMoves == Arrive \/ Depart \/ RegisterLegislator \/ RemoveLegislator

LEMMA ChamberCounts ==
    ASSUME TypeOK, ChamberMoves
    PROVE  /\ waiting' \in Nat /\ away' \in Nat /\ done' \in Nat /\ gone' \in Nat
           /\ UNCHANGED <<officer, phase, snapshot, counts, suggested, result>>
           /\ phase # "PROCLAIMED"
<1>1. waiting \in Nat /\ away \in Nat /\ done \in Nat /\ gone \in Nat
  BY DEF TypeOK
<1>2. CASE Arrive
  BY <1>1, <1>2 DEF Arrive, AttendanceCounts, OfficerAt
<1>3. CASE Depart
  BY <1>1, <1>3 DEF Depart, AttendanceCounts, OfficerAt
<1>4. CASE RegisterLegislator
  BY <1>1, <1>4 DEF RegisterLegislator
<1>5. CASE RemoveLegislator
  <2>1. UNCHANGED <<officer, phase, snapshot, counts, suggested, result>> /\ phase # "PROCLAIMED"
    BY <1>5 DEF RemoveLegislator
  <2>2. CASE away > OfficerAt(FALSE) /\ away' = away - 1 /\ UNCHANGED <<waiting, done, gone>>
    BY <1>1, <2>1, <2>2 DEF OfficerAt
  <2>3. CASE /\ waiting > OfficerAt(TRUE)
             /\ waiting' = waiting - 1 /\ gone' = gone + 1 /\ UNCHANGED <<away, done>>
    BY <1>1, <2>1, <2>3 DEF OfficerAt
  <2>4. CASE done > 0 /\ done' = done - 1 /\ gone' = gone + 1 /\ UNCHANGED <<away, waiting>>
    BY <1>1, <2>1, <2>4
  <2>5. QED
    BY <1>5, <2>2, <2>3, <2>4 DEF RemoveLegislator
<1>6. QED
  BY <1>2, <1>3, <1>4, <1>5 DEF ChamberMoves

\* Each step leaves every count a number.
LEMMA StepTypes ==
    ASSUME TypeOK, [Next]_vars
    PROVE  TypeOK'
<1>1. CASE ChamberMoves
  BY <1>1, ChamberCounts DEF TypeOK, officer, counts
<1>2. CASE OpenRound
  <2>1. snapshot' \in Nat
    BY <1>2, EffectiveCountBounds DEF OpenRound, TypeOK, Present
  <2>2. QED
    BY <1>2, <2>1 DEF OpenRound, TypeOK, officer, chamber, counts
<1>3. CASE CastVote
  BY <1>3 DEF CastVote, TypeOK, officer
<1>4. CASE CloseRound
  BY <1>4 DEF CloseRound, TypeOK, officer, chamber, counts
<1>5. CASE Suggest
  <2>1. suggested' \in [result: Results, total: Nat]
    BY <1>5, TotalMembersIsNatural, ResultIsOneOfThree DEF Suggest, SuggestedResult
  <2>2. QED
    BY <1>5, <2>1 DEF Suggest, TypeOK, officer, chamber, counts
<1>6. CASE Proclaim
  BY <1>6, ResultIsOneOfThree DEF Proclaim, TypeOK, officer, chamber, counts
<1>7. CASE UNCHANGED vars
  BY <1>7 DEF vars, TypeOK, officer, chamber, counts
<1>8. QED
  BY <1>1, <1>2, <1>3, <1>4, <1>5, <1>6, <1>7 DEF Next, ChamberMoves

THEOREM CountInductive == Spec => []IInv
<1>1. Init => IInv
  <2> SUFFICES ASSUME Init PROVE IInv
    OBVIOUS
  <2>1. waiting \in Nat
    BY DEF Init, OfficerAt
  <2>2. away \in Nat
    BY <2>1 DEF Init, OfficerAt
  <2>3. QED
    BY <2>1, <2>2 DEF Init, IInv, TypeOK, ResultOfCounts, SuggestionOfVotes
<1>2. ASSUME IInv, [Next]_vars
      PROVE  IInv'
  <2>1. TypeOK'
    BY <1>2, StepTypes DEF IInv
  <2>2. CASE ChamberMoves
    <3>1. UNCHANGED <<rule, phase, snapshot, aff, neg, abst, suggested, result>>
          /\ phase # "PROCLAIMED"
      BY <1>2, <2>2, ChamberCounts DEF IInv, officer, counts
    <3>2. result' = "NONE"
      BY <1>2, <3>1 DEF IInv, ResultOfCounts
    <3>3. QED
      BY <1>2, <2>1, <3>1, <3>2 DEF IInv, ResultOfCounts, SuggestionOfVotes
  <2>3. CASE OpenRound \/ CastVote \/ CloseRound
    <3>1. result' = "NONE"
      BY <1>2, <2>3 DEF IInv, ResultOfCounts, OpenRound, CastVote, CloseRound
    <3>2. suggested' = NoSuggestion
      BY <1>2, <2>3 DEF IInv, SuggestionOfVotes, OpenRound, CastVote, CloseRound
    <3>3. QED
      BY <2>1, <3>1, <3>2 DEF IInv, ResultOfCounts, SuggestionOfVotes
  <2>4. CASE Suggest
    <3>1. result' = "NONE"
      BY <1>2, <2>4 DEF IInv, ResultOfCounts, Suggest
    <3>2. SuggestionOfVotes'
      BY <2>4 DEF Suggest, SuggestionOfVotes, officer, counts
    <3>3. QED
      BY <2>1, <3>1, <3>2 DEF IInv, ResultOfCounts
  <2>5. CASE Proclaim
    <3>1. TotalMembers' = TotalMembers
      BY <2>5 DEF Proclaim, TotalMembers, Members, officer, chamber
    <3>2. ResultOfCounts'
      BY <2>5, <3>1 DEF Proclaim, ResultOfCounts, officer, counts
    <3>3. SuggestionOfVotes'
      BY <1>2, <2>5 DEF Proclaim, IInv, SuggestionOfVotes, officer, counts
    <3>4. QED
      BY <2>1, <3>2, <3>3 DEF IInv
  <2>6. CASE UNCHANGED vars
    <3>1. TotalMembers' = TotalMembers
      BY <2>6 DEF vars, TotalMembers, Members, officer, chamber
    <3>2. UNCHANGED <<rule, phase, snapshot, aff, neg, abst, suggested, result>>
      BY <2>6 DEF vars, officer, counts
    <3>3. QED
      BY <1>2, <2>1, <3>1, <3>2 DEF IInv, ResultOfCounts, SuggestionOfVotes
  <2>7. QED
    BY <1>2, <2>2, <2>3, <2>4, <2>5, <2>6 DEF Next, ChamberMoves
<1>3. QED
  BY <1>1, <1>2, PTL DEF Spec

\* Every count stays a number of legislators.
THEOREM CountTypeCorrect == Spec => []TypeOK
<1>1. IInv => TypeOK
  BY DEF IInv
<1>2. QED
  BY <1>1, CountInductive, PTL

\* The integer arithmetic of calculate_round_result is exact for every chamber,
\* every count and every percentage with two decimals.
THEOREM CountIsExact == Spec => []ResultIsExact
<1>1. ASSUME IInv
      PROVE  ResultIsExact
  <2> DEFINE d == Denominator(rule.base, aff, neg, abst, snapshot, TotalMembers)
  <2>1. d \in Nat /\ aff \in Nat /\ neg \in Nat /\ rule.threshold \in Thresholds
    BY <1>1, RuleType, DenominatorIsNatural, TotalMembersIsNatural DEF IInv, TypeOK
  <2>2. Decide(aff, neg, d, rule.threshold) = ExactResult(aff, neg, d, rule.threshold)
    <3> HIDE DEF d
    <3>1. QED
      BY <2>1, CarriesIsExact DEF Decide, ExactResult
  <2>3. QED
    BY <1>1, <2>2 DEF IInv, ResultOfCounts, ResultIsExact, RoundResult
<1>2. QED
  BY <1>1, CountInductive, PTL

\* No motion passes against a majority of the votes, in a chamber of any size,
\* under every rule of half or more, whoever arrives after the snapshot.
THEOREM CountOutvotes == Spec => []PassedOutvotes
<1>1. ASSUME IInv
      PROVE  PassedOutvotes
  <2> SUFFICES ASSUME result = "PASSED", MajorityRule,
                      rule.base = "TOTAL_MEMBERS" => Cast <= TotalMembers
               PROVE  aff > neg
    BY DEF PassedOutvotes
  <2> DEFINE d == Denominator(rule.base, aff, neg, abst, snapshot, TotalMembers)
  <2>1. /\ d \in Nat /\ aff \in Nat /\ neg \in Nat /\ abst \in Nat /\ snapshot \in Nat
        /\ TotalMembers \in Nat /\ rule.threshold \in Thresholds
        /\ rule.base \in CalculationBase
    BY <1>1, RuleType, DenominatorIsNatural, TotalMembersIsNatural DEF IInv, TypeOK
  <2>2. d >= aff + neg
    BY <2>1, DenominatorCountsVotes DEF Denominator, CalculationBase, Cast
  <2>3. Decide(aff, neg, d, rule.threshold) = "PASSED"
    BY <1>1 DEF IInv, ResultOfCounts, RoundResult
  <2> HIDE DEF d
  <2>4. QED
    BY <2>1, <2>2, <2>3, PassedHasAMajority DEF MajorityRule
<1>2. QED
  BY <1>1, CountInductive, PTL

\* A round opens only with a majority of the voting seats present.
THEOREM OpensWithAMajority == Spec => QuorumIsAMajority
<1>1. ASSUME IInv, OpenRound, gone = 0
      PROVE  2 * VotingPresent > VotingSeats
  <2> DEFINE seat == IF Excluded THEN 1 ELSE 0
             here == IF Excluded /\ officerHere THEN 1 ELSE 0
  <2>1. Present \in Nat /\ Members \in Nat /\ Present = waiting
    BY <1>1 DEF IInv, TypeOK, Present, Members
  <2>2. here <= seat /\ seat <= Seat(rule.presType, rule.votesOrdinarily)
    BY DEF Excluded, Seat
  <2>3. 2 * (Present - here) > Members - seat
    BY <1>1, <2>1, <2>2, CertifiedQuorumIsAMajority DEF OpenRound
  <2>4. QED
    BY <2>1, <2>3 DEF VotingPresent, VotingSeats
<1>2. QED
  BY <1>1, CountInductive, PTL DEF Spec, QuorumIsAMajority

\* A larger denominator asks for no fewer votes.
LEMMA LargerAsksForMore ==
    ASSUME NEW a \in Nat, NEW n \in Nat, NEW d \in Nat, NEW e \in Nat, d <= e,
           NEW threshold \in Thresholds, Carries(a, n, e, threshold)
    PROVE  Carries(a, n, d, threshold)
<1>1. threshold \in Nat
  BY DEF Thresholds
<1>2. CASE threshold \in {0, 5000}
  BY <1>2, CarriesIsExact
<1>3. CASE threshold \notin {0, 5000}
  <2>1. 10000 * a >= threshold * e
    BY <1>3, CarriesIsExact
  <2>2. threshold * e >= threshold * d
    <3>1. e - d \in Nat /\ threshold * (e - d) \in Nat
      BY <1>1
    <3>2. threshold * e = threshold * d + threshold * (e - d)
      BY <1>1
    <3>3. QED
      BY <1>1, <3>1, <3>2
  <2>3. threshold * e \in Nat /\ threshold * d \in Nat
    BY <1>1
  <2>4. 10000 * a >= threshold * d
    BY <2>1, <2>2, <2>3
  <2>5. QED
    BY <1>3, <2>4, CarriesIsExact
<1>4. QED
  BY <1>2, <1>3

\* So with two denominators, two decisions about the same votes differ only in the
\* direction of the denominator, or because one of them is 0.
LEMMA DecisionsDiffer ==
    ASSUME NEW a \in Nat, NEW n \in Nat, NEW d \in Nat, NEW e \in Nat,
           NEW threshold \in Thresholds,
           Decide(a, n, d, threshold) # Decide(a, n, e, threshold)
    PROVE  IF Decide(a, n, e, threshold) = "PASSED" THEN e < d \/ d = 0
           ELSE e > d \/ e = 0
<1>1. CASE d = 0 \/ e = 0
  BY <1>1 DEF Decide
<1>2. CASE d # 0 /\ e # 0
  <2>1. a # n /\ ~(Carries(a, n, d, threshold) <=> Carries(a, n, e, threshold))
    BY <1>2 DEF Decide
  <2>2. CASE Carries(a, n, e, threshold) /\ ~Carries(a, n, d, threshold)
    <3>1. e < d
      BY <2>2, LargerAsksForMore
    <3>2. Decide(a, n, e, threshold) = "PASSED"
      BY <1>2, <2>1, <2>2 DEF Decide
    <3>3. QED
      BY <3>1, <3>2
  <2>3. CASE Carries(a, n, d, threshold) /\ ~Carries(a, n, e, threshold)
    <3>1. d < e
      BY <2>3, LargerAsksForMore
    <3>2. Decide(a, n, e, threshold) = "FAILED"
      BY <1>2, <2>1, <2>3 DEF Decide
    <3>3. QED
      BY <3>1, <3>2
  <2>4. QED
    BY <2>1, <2>2, <2>3
<1>3. QED
  BY <1>1, <1>2

\* A proclamation departs from the last suggestion only with the roll, in the
\* direction in which that changed, or against a motion whose abstentions exceed
\* the snapshot: for any chamber, any percentage and any counts.
THEOREM SuggestionHolds == Spec => []SuggestionStands
<1>1. ASSUME IInv
      PROVE  SuggestionStands
  <2> SUFFICES ASSUME suggested # NoSuggestion, result # "NONE", result # suggested.result
               PROVE  \/ /\ rule.base = "TOTAL_MEMBERS"
                         /\ IF result = "PASSED"
                            THEN TotalMembers < suggested.total \/ suggested.total = 0
                            ELSE TotalMembers > suggested.total \/ TotalMembers = 0
                      \/ /\ rule.base = "MEMBERS_PRESENT"
                         /\ result # "PASSED"
                         /\ abst > 0 /\ Cast > snapshot
    BY DEF SuggestionStands
  <2>1. /\ aff \in Nat /\ neg \in Nat /\ abst \in Nat /\ snapshot \in Nat
        /\ TotalMembers \in Nat /\ suggested.total \in Nat
        /\ rule.base \in CalculationBase /\ rule.threshold \in Thresholds
    BY <1>1, RuleType, TotalMembersIsNatural DEF IInv, TypeOK
  <2> DEFINE d == Denominator(rule.base, aff, neg, 0, snapshot, suggested.total)
             e == Denominator(rule.base, aff, neg, abst, snapshot, TotalMembers)
  <2>2. /\ suggested.result = Decide(aff, neg, d, rule.threshold)
        /\ result = Decide(aff, neg, e, rule.threshold)
    BY <1>1 DEF IInv, ResultOfCounts, SuggestionOfVotes, RoundResult, SuggestedResult
  <2>3. d \in Nat /\ e \in Nat
    BY <2>1, DenominatorIsNatural
  <2>4. /\ rule.base = "TOTAL_MEMBERS" => d = suggested.total /\ e = TotalMembers
        /\ rule.base = "VOTES_CAST" => d = e
        /\ rule.base = "MEMBERS_PRESENT" =>
               d = MaxOf(snapshot, aff + neg + 0) /\ e = MaxOf(snapshot, Cast)
    BY DEF Denominator, Cast
  <2> HIDE DEF d, e
  <2>5. IF result = "PASSED" THEN e < d \/ d = 0 ELSE e > d \/ e = 0
    BY <2>1, <2>2, <2>3, DecisionsDiffer
  <2>6. CASE rule.base = "TOTAL_MEMBERS"
    BY <2>4, <2>5, <2>6
  <2>7. CASE rule.base = "VOTES_CAST"
    BY <2>2, <2>4, <2>7
  <2>8. CASE rule.base = "MEMBERS_PRESENT"
    <3>1. Cast \in Nat /\ Cast = aff + neg + abst
      BY <2>1 DEF Cast
    <3>2. d # e
      BY <2>2
    <3>3. abst > 0 /\ Cast > snapshot /\ e > d
      BY <2>1, <2>4, <2>8, <3>1, <3>2 DEF MaxOf
    <3>4. result # "PASSED"
      <4>1. d = 0 => result # "PASSED"
        <5> SUFFICES ASSUME d = 0 PROVE result # "PASSED"
          OBVIOUS
        <5>1. aff = 0 /\ neg = 0
          BY <2>1, <2>4, <2>8 DEF MaxOf
        <5>2. QED
          BY <2>2, <5>1 DEF Decide
      <4>2. QED
        BY <2>3, <2>5, <3>3, <4>1
    <3>5. QED
      BY <2>8, <3>3, <3>4
  <2>9. QED
    BY <2>1, <2>6, <2>7, <2>8 DEF CalculationBase
<1>2. QED
  BY <1>1, CountInductive, PTL
==============================================================================
