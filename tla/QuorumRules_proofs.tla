------------------------- MODULE QuorumRules_proofs -------------------------
(* What the arithmetic of the chamber guarantees for any number of members, *)
(* votes and hundredths of a percent.                                       *)
EXTENDS QuorumRules, TLAPS

\* compute_quorum_minimum is the least number that is more than half.
THEOREM QuorumMinimumIsLeastMajority ==
    ASSUME NEW n \in Nat
    PROVE  /\ ComputeQuorumMinimum(n) \in Nat
           /\ 2 * ComputeQuorumMinimum(n) > n
           /\ \A k \in Nat : 2 * k > n => k >= ComputeQuorumMinimum(n)
BY DEF ComputeQuorumMinimum

\* calculate_effective_denominator: a natural number, at most one below the count.
LEMMA EffectiveCountBounds ==
    ASSUME NEW presType, NEW votesOrdinarily, NEW raw \in Nat
    PROVE  /\ EffectiveCount(presType, votesOrdinarily, raw) \in Nat
           /\ raw - 1 <= EffectiveCount(presType, votesOrdinarily, raw)
           /\ EffectiveCount(presType, votesOrdinarily, raw) <= raw
BY DEF EffectiveCount, MaxOf, Seat

\* A certified quorum is a majority of the voting seats, whether the presiding
\* officer who is taken out of both counts is on the roll and present, or not.
\* (seat is 1 where a non-voting officer is on the roll, here is 1 if present.)
THEOREM CertifiedQuorumIsAMajority ==
    ASSUME NEW presType, NEW votesOrdinarily,
           NEW present \in Nat, NEW total \in Nat,
           NEW seat \in {0, 1}, NEW here \in {0, 1},
           here <= seat, seat <= Seat(presType, votesOrdinarily),
           HasCertifiedQuorum(presType, votesOrdinarily, present, total)
    PROVE  2 * (present - here) > total - seat
<1> DEFINE p == EffectiveCount(presType, votesOrdinarily, present)
           t == EffectiveCount(presType, votesOrdinarily, total)
<1>1. p \in Nat /\ t \in Nat
  BY EffectiveCountBounds
<1>2. 2 * p > t
  BY <1>1, QuorumMinimumIsLeastMajority DEF HasCertifiedQuorum, ComputeQuorumMinimum
<1>3. p > 0
  BY <1>1, <1>2
<1>4. p = present - Seat(presType, votesOrdinarily)
  BY <1>3 DEF EffectiveCount, MaxOf, Seat
<1>5. t >= total - Seat(presType, votesOrdinarily)
  BY DEF EffectiveCount, MaxOf, Seat
<1> HIDE DEF p, t
<1>6. QED
  BY <1>1, <1>2, <1>4, <1>5 DEF Seat

-----------------------------------------------------------------------------
(* The result.                                                             *)

\* Rounding a fraction up and comparing is comparing the fraction.
LEMMA CeilingIsExact ==
    ASSUME NEW a \in Nat, NEW p \in Nat
    PROVE  a >= (p + 9999) \div 10000 <=> 10000 * a >= p
OBVIOUS

LEMMA DenominatorIsNatural ==
    ASSUME NEW base \in CalculationBase, NEW aff \in Nat, NEW neg \in Nat, NEW abst \in Nat,
           NEW quorumPresent \in Nat, NEW totalMembers \in Nat
    PROVE  Denominator(base, aff, neg, abst, quorumPresent, totalMembers) \in Nat
BY DEF Denominator, CalculationBase, MaxOf

\* calculate_round_result carries a motion exactly when it reaches the
\* percentage, and at 50 % exactly when it has more than half.
THEOREM CarriesIsExact ==
    ASSUME NEW aff \in Nat, NEW neg \in Nat, NEW denominator \in Nat,
           NEW threshold \in Thresholds
    PROVE  Carries(aff, neg, denominator, threshold) <=>
               \/ threshold = 0 /\ aff > neg
               \/ threshold = 5000 /\ 2 * aff > denominator
               \/ threshold \notin {0, 5000} /\ 10000 * aff >= threshold * denominator
<1>1. threshold \in Nat
  BY DEF Thresholds
<1>2. CASE threshold = 0
  BY <1>2 DEF Carries
<1>3. CASE threshold = 5000
  BY <1>3 DEF Carries, RequiredVotes
<1>4. CASE threshold \notin {0, 5000}
  <2>1. denominator * threshold \in Nat /\ denominator * threshold = threshold * denominator
    BY <1>1
  <2>2. aff >= (denominator * threshold + 9999) \div 10000
            <=> 10000 * aff >= denominator * threshold
    BY <2>1, CeilingIsExact
  <2>3. QED
    BY <1>4, <2>1, <2>2 DEF Carries, RequiredVotes
<1>5. QED
  BY <1>2, <1>3, <1>4

\* Under a rule that asks for half or more, what passes has outvoted: with any
\* denominator that counts everybody who voted for or against.
THEOREM PassedHasAMajority ==
    ASSUME NEW aff \in Nat, NEW neg \in Nat, NEW denominator \in Nat,
           NEW threshold \in Thresholds,
           threshold = 0 \/ threshold >= 5000,
           denominator >= aff + neg,
           Decide(aff, neg, denominator, threshold) = "PASSED"
    PROVE  aff > neg
<1>1. threshold \in Nat /\ aff # neg /\ Carries(aff, neg, denominator, threshold)
  BY DEF Decide, Thresholds
<1>2. CASE threshold \in {0, 5000}
  BY <1>1, <1>2, CarriesIsExact
<1>3. CASE threshold \notin {0, 5000}
  <2>1. 10000 * aff >= threshold * denominator
    BY <1>1, <1>3, CarriesIsExact
  <2>2. threshold * denominator >= 5000 * denominator
    BY <1>1, <1>3
  <2>3. 2 * aff >= denominator
    BY <2>1, <2>2, <1>1
  <2>4. QED
    BY <1>1, <2>3
<1>4. QED
  BY <1>2, <1>3

\* MEMBERS_PRESENT counts everybody who voted, whoever arrived late.
LEMMA DenominatorCountsVotes ==
    ASSUME NEW base \in {"VOTES_CAST", "MEMBERS_PRESENT"}, NEW aff \in Nat, NEW neg \in Nat,
           NEW abst \in Nat, NEW quorumPresent \in Nat, NEW totalMembers \in Nat
    PROVE  Denominator(base, aff, neg, abst, quorumPresent, totalMembers) >= aff + neg
BY DEF Denominator, MaxOf
=============================================================================
