----------------------------- MODULE MCAnchoring ----------------------------
(* An instance of Anchoring for TLC: a nominal round of one voter, and a    *)
(* secret one that ends in a tie and whose roll may grow to an odd number.  *)
EXTENDS Anchoring, TLC

CONSTANTS nominal, secret, h1, h2, ana, beto, carla

MCBallots == (nominal :> {} @@ secret :> {21, 22})
MCVoters == (nominal :> {ana} @@ secret :> {beto, carla})

\* Every legislator has a leaf of each name in each round.
MCNamedLeaf ==
    [t \in Rounds \X Legislators \X Names |->
        LET l == (beto :> 1 @@ carla :> 3 @@ ana :> 5)[t[2]]
        IN  (IF t[1] \in Nominal THEN 10 ELSE 0) + l + t[3]]

MCInitialName == [l \in Legislators |-> 0]
=============================================================================
