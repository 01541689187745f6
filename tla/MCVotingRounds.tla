--------------------------- MODULE MCVotingRounds ---------------------------
(* Instances of VotingRounds for TLC.                                       *)
EXTENDS VotingRounds, TLC

CONSTANTS ana, beto, carla, r1, r2, r3, h1, h2, t1, t2, s1, i1

Simple == [base |-> "MEMBERS_PRESENT", threshold |-> 5000]
MCTypes == {Simple}

\* Carla presides over the session, or nobody on the roll does.
MCPresType == [s \in {s1} |-> "LEGISLATOR"]
CarlaPresides == [s \in {s1} |-> carla]
NobodyPresides == [s \in {s1} |-> None]

NominalParams == [nominal |-> TRUE, presVotes |-> TRUE, type |-> Simple]
SecretParams == [NominalParams EXCEPT !.nominal = FALSE]

Body(stage, p) == [session |-> s1, item |-> i1, stage |-> stage, params |-> p]

NominalDrafts == {Body("SINGLE", NominalParams)}
SecretDrafts == {Body("SINGLE", SecretParams)}
StagedDrafts == {Body("GENERAL", NominalParams), Body("SPECIFIC", NominalParams)}
TurnSecret == {SecretParams}

HandlersAndRounds == Permutations({h1, h2}) \cup Permutations({r1, r2})
HandlersRoundsTokens == HandlersAndRounds \cup Permutations({t1, t2})
HandlersAndThreeRounds == Permutations({h1, h2}) \cup Permutations({r1, r2, r3})
HandlersOnly == Permutations({h1, h2})
=============================================================================
