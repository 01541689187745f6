---------------------------- MODULE MCRoundCount ----------------------------
(* Instance of RoundCount for TLC.                                          *)
EXTENDS RoundCount

\* A plurality, a third, a simple majority, two thirds and unanimity, over every
\* base and every kind of presidency.
MCRules == [base: CalculationBase, threshold: {0, 3333, 5000, 6667, 10000},
            presType: PresidentType, votesOrdinarily: BOOLEAN]

\* Members present, decided by a simple majority: the base whose denominator is
\* documented as the snapshot, in a chamber whose president votes.
MCMembersPresent == {[base |-> "MEMBERS_PRESENT", threshold |-> 5000,
                      presType |-> "LEGISLATOR", votesOrdinarily |-> TRUE]}
=============================================================================
