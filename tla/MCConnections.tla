---------------------------- MODULE MCConnections ---------------------------
(* An instance of Connections for TLC.                                      *)
EXTENDS Connections, TLC

CONSTANTS ana, d1, d2, t1, t2, s1, s2, s3, h1, h2

Interchangeable ==
    Permutations(Devices) \cup Permutations(Tokens)
        \cup Permutations(Sockets) \cup Permutations(Handlers)

(* Bound: a third socket is opened only by a terminal, while one device was  *)
(* enrolled, no token is out and no administrative request runs.             *)
Calm ==
    \/ \E s \in Sockets : endpoint[s].at = "new"
    \/ /\ \A h \in Handlers : txn[h] = Idle
       /\ \E d \in Devices : device[d] = NoDevice
       /\ \A l \in Legislators : provisioning[l] = None
       /\ \A s \in Sockets : endpoint[s].device # None
=============================================================================
