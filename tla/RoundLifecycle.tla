--------------------------- MODULE RoundLifecycle ---------------------------
(***************************************************************************)
(* What a voting round promises, whatever requests are in flight: it goes  *)
(* from draft to open to closed and from there to its result, directly or  *)
(* through a tie; it takes ballots only while it is open, one per ballot   *)
(* mark; it is voided only before it has a final result; and what is       *)
(* decided stays decided.  VotingRounds implements this (its Lifecycle).   *)
(***************************************************************************)
CONSTANTS
    Rounds,     \* identifiers of rounds
    Marks,      \* what a ballot is unique by: a legislator or an ephemeral key
    Values      \* what a ballot says

VARIABLES
    phase,      \* the status of each round, NONE before it exists
    outcome,    \* its result, NONE before the proclamation
    box         \* its ballots

vars == <<phase, outcome, box>>

Ballot == [mark: Marks, value: Values]

Init ==
    /\ phase = [r \in Rounds |-> "NONE"]
    /\ outcome = [r \in Rounds |-> "NONE"]
    /\ box = [r \in Rounds |-> {}]

Move(r, from, to) ==
    /\ phase[r] = from
    /\ phase' = [phase EXCEPT ![r] = to]

Create(r) ==
    /\ Move(r, "NONE", "DRAFT")
    /\ UNCHANGED <<outcome, box>>

Open(r) ==
    /\ Move(r, "DRAFT", "VOTING_OPEN")
    /\ UNCHANGED <<outcome, box>>

Cast(r, b) ==
    /\ phase[r] = "VOTING_OPEN"
    /\ b.mark \notin {c.mark : c \in box[r]}
    /\ box' = [box EXCEPT ![r] = @ \cup {b}]
    /\ UNCHANGED <<phase, outcome>>

Close(r) ==
    /\ Move(r, "VOTING_OPEN", "VOTING_CLOSED")
    /\ UNCHANGED <<outcome, box>>

Tie(r) ==
    /\ Move(r, "VOTING_CLOSED", "TIED")
    /\ outcome' = [outcome EXCEPT ![r] = "TIED"]
    /\ UNCHANGED box

Resolve(r, from, res) ==
    /\ Move(r, from, "RESOLVED")
    /\ outcome' = [outcome EXCEPT ![r] = res]
    /\ UNCHANGED box

\* A round without a final result is voided and a fresh draft takes its place.
Rectify(r, n) ==
    /\ phase[r] \notin {"NONE", "RESOLVED"}
    /\ phase[n] = "NONE"
    /\ phase' = [phase EXCEPT ![r] = "ABORTED", ![n] = "DRAFT"]
    /\ UNCHANGED <<outcome, box>>

Next ==
    \/ \E r \in Rounds : Create(r) \/ Open(r) \/ Close(r) \/ Tie(r)
    \/ \E r \in Rounds, b \in Ballot : Cast(r, b)
    \/ \E r \in Rounds, from \in {"VOTING_CLOSED", "TIED"}, res \in {"PASSED", "FAILED"} :
          Resolve(r, from, res)
    \/ \E r, n \in Rounds : Rectify(r, n)

Spec == Init /\ [][Next]_vars
=============================================================================
