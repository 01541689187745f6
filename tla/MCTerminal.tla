----------------------------- MODULE MCTerminal -----------------------------
(* An instance of Terminal for TLC: the presiding officer's terminal, a      *)
(* secret round and a nominal one.                                          *)
EXTENDS Terminal

CONSTANTS secret, nominal, j1, j2

Symmetric == Permutations(Jobs)

(* Bounds: one event is on its way at most, or two while nothing is being    *)
(* submitted; two submissions overlap before the first fault and while no    *)
(* answer to GET /current is on its way; and nothing is explored after a     *)
(* wipe but what was already under way on the main thread.                  *)
Bounds ==
    /\ Len(broadcasting) <= IF \A j \in Jobs : jobs[j] = Quiet THEN 2 ELSE 1
    /\ (\A j \in Jobs : jobs[j] # Quiet) => counts.faults = 0 /\ current = NoWrite
    /\ screen.at = "revoked" => writing # NoWrite \/ current # NoWrite
=============================================================================
