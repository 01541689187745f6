------------------------- MODULE Connections_proofs --------------------------
(***************************************************************************)
(* Theorems about Connections, for any number of sockets, devices, tokens, *)
(* requests and places in a queue.  The invariant has two halves that meet *)
(* only in what is revoked: the rows with the requests that write them,    *)
(* and the manager's maps with the tasks of each socket.                   *)
(***************************************************************************)
EXTENDS Connections, SequenceTheorems, TLAPS

EnrolTxn == [op: {"identifying", "enrolling"}, legislator: Legislators, token: Tokens,
             device: Devices, old: Devices \cup {None}]
WipeTxn == [op: {"wiping"}, device: Devices]
RemoveTxn == [op: {"removing"}, legislator: Legislators, device: Devices \cup {None}]
GenerateTxn == [op: {"generating"}, legislator: Legislators]

Enrolling(h) == txn[h].op \in {"identifying", "enrolling"}

-----------------------------------------------------------------------------
(* The rows.                                                               *)

\* Enrolments hold the row of their legislator, with its token, for a device of
\* their own.
Enrolments ==
    \A h \in Handlers :
        Enrolling(h) =>
            /\ provisioning[txn[h].legislator] = txn[h].token
            /\ txn[h].legislator \notin removed
            /\ device[txn[h].device] = NoDevice
            /\ \A g \in Handlers \ {h} :
                Enrolling(g) => /\ txn[g].legislator # txn[h].legislator
                                /\ txn[g].device # txn[h].device

\* A token is with one legislator, and has not enrolled a device yet.
TokensAreFresh ==
    \A l \in Legislators :
        provisioning[l] # None =>
            /\ \A k \in Legislators \ {l} : provisioning[k] # provisioning[l]
            /\ \A d \in Devices : device[d].enrolledWith # provisioning[l]

RowsInv == Enrolments /\ TokensAreFresh /\ TokenEnrolsOnce /\ RemovedHasNoDevice

-----------------------------------------------------------------------------
(* The manager and the sockets.                                            *)

\* A socket is registered between its join and its end.
RegisteredPhase ==
    \A s \in Sockets :
        Registered(s) => endpoint[s].at \in {"joined", "receiving", "failed"}

\* Before that it has no queue and no worker.
NotYetServed ==
    \A s \in Sockets :
        endpoint[s].at \in {"new", "checked"} => queue[s] = None /\ worker[s] = "none"

\* A socket is registered for the device it was opened with, or as a dashboard.
OwnPlace ==
    /\ \A d \in Devices : edge[d] # None => endpoint[edge[d]].device = d
    /\ \A s \in dashboards : endpoint[s].device = None

\* A running worker has a queue, and what a worker closes is broken.
WorkerHasQueue ==
    \A s \in Sockets :
        /\ worker[s] = "running" => queue[s] # None
        /\ worker[s] = "closing" => s \notin alive

\* A socket that takes over a token is served and not registered; nor is the
\* older one, ever again.
TakingOver ==
    \A s \in Sockets :
        endpoint[s].at = "takingOver" =>
            /\ queue[s] = <<>> /\ worker[s] = "running"
            /\ endpoint[s].device \in Devices
            /\ endpoint[s].old \in Sockets
            /\ ~Registered(endpoint[s].old)
            /\ endpoint[endpoint[s].old].at \notin {"new", "checked", "takingOver"}

JoinedIsRegistered ==
    \A s \in Sockets :
        endpoint[s].at \in {"joined", "receiving"} /\ s \in alive =>
            \/ Registered(s)
            \/ s \in ghost.overwritten
            \/ worker[s] = "cancelled"

LateIfRevoked ==
    \A d \in Devices : BeingRevoked(d) /\ edge[d] # None => edge[d] \in ghost.late

ManagerInv ==
    /\ RegisteredPhase
    /\ NotYetServed
    /\ OwnPlace
    /\ WorkerHasQueue
    /\ TakingOver
    /\ RegisteredIsServed
    /\ JoinedIsRegistered
    /\ DepartureIsCounted

IInv == TypeOK /\ RowsInv /\ ManagerInv /\ LateIfRevoked

-----------------------------------------------------------------------------
(* Types.                                                                  *)

LEMMA TxnByOp ==
    ASSUME TypeOK, NEW h \in Handlers
    PROVE  /\ Enrolling(h) => txn[h] \in EnrolTxn
           /\ txn[h].op = "wiping" => txn[h] \in WipeTxn
           /\ txn[h].op = "removing" => txn[h] \in RemoveTxn
           /\ txn[h].op = "generating" => txn[h] \in GenerateTxn
           /\ txn[h] = Idle <=> txn[h].op = "idle"
BY DEF TypeOK, Txn, Enrolling, EnrolTxn, WipeTxn, RemoveTxn, GenerateTxn, Idle

LEMMA FinishType == ASSUME TypeOK, NEW h \in Handlers, Finish(h) PROVE txn' \in [Handlers -> Txn]
BY DEF TypeOK, Finish, Txn

LEMMA RevokeType ==
    ASSUME TypeOK, NEW d \in Devices \cup {None}
    PROVE  /\ Revoke(d, device) \in [Devices -> DeviceRow]
           /\ \A e \in Devices :
                /\ Revoke(d, device)[e].owner = device[e].owner
                /\ Revoke(d, device)[e].enrolledWith = device[e].enrolledWith
                /\ Revoke(d, device)[e] = NoDevice <=> device[e] = NoDevice
                /\ Revoke(d, device)[e].status = "active" =>
                        device[e].status = "active" /\ e # d
                /\ Revoke(d, device)[e].status = "revoked" =>
                        device[e].status = "revoked" \/ e = d
<1>1. CASE d = None \/ device[d] = NoDevice
    BY <1>1, ConnectionsAssumption DEF TypeOK, Revoke, DeviceRow, NoDevice
<1>2. CASE ~(d = None \/ device[d] = NoDevice)
    <2> DEFINE row == [device[d] EXCEPT !.status = "revoked"]
    <2>1. d \in Devices /\ device[d] \in DeviceRow /\ device[d] # NoDevice
        BY <1>2 DEF TypeOK
    <2>2. /\ row \in DeviceRow /\ row # NoDevice /\ row.status = "revoked"
          /\ row.owner = device[d].owner /\ row.enrolledWith = device[d].enrolledWith
        BY <2>1 DEF DeviceRow, NoDevice
    <2>3. Revoke(d, device) = [device EXCEPT ![d] = row]
        BY <1>2, <2>1 DEF Revoke, TypeOK
    <2> HIDE DEF row
    <2> QED
        BY <2>1, <2>2, <2>3 DEF TypeOK
<1> QED
    BY <1>1, <1>2

LEMMA TheDeviceType ==
    ASSUME TypeOK, NEW l
    PROVE  TheDevice(l) \in Devices \cup {None}
BY DEF TheDevice, ActiveOf, RowsOf

LEMMA LeftType == Left \subseteq Sockets
BY DEF Left

LEMMA ReceiversType == ASSUME TypeOK PROVE Receivers \subseteq Sockets /\ \A s \in Receivers : Registered(s)
BY DEF TypeOK, Receivers, Registered

-----------------------------------------------------------------------------
(* An event is queued.                                                     *)

\* What putting an event into the queues of registered sockets may do: a socket
\* stays as it is, with one more event, or it leaves the maps and its worker is
\* cancelled, or already closes it.
Queued ==
    /\ edge' \in [Devices -> Sockets \cup {None}]
    /\ dashboards' \subseteq dashboards
    /\ DOMAIN queue' = Sockets
    /\ worker' \in [Sockets -> {"none", "running", "cancelled", "closing", "done"}]
    /\ \A d \in Devices : edge'[d] = edge[d] \/ edge'[d] = None
    /\ \A s \in Sockets :
        /\ queue'[s] # None => queue'[s] \in Seq(Event) /\ Len(queue'[s]) <= MaxQueue
        /\ Registered(s)' => Registered(s)
        /\ \/ queue'[s] = queue[s] /\ worker'[s] = worker[s] /\ (Registered(s) => Registered(s)')
           \/ /\ Registered(s) /\ Registered(s)'
              /\ queue'[s] # None /\ worker'[s] = worker[s]
              /\ \E event \in Event : queue'[s] = Append(queue[s], event)
           \/ /\ Registered(s) /\ ~Registered(s)'
              /\ \/ worker'[s] = "cancelled"
                 \/ worker[s] = "closing" /\ worker'[s] = "closing"

LEMMA SameManager == ASSUME TypeOK, UNCHANGED manager PROVE Queued
BY DEF TypeOK, Queued, manager, Registered

LEMMA PutQueues ==
    ASSUME TypeOK, RegisteredIsServed, NEW S \in SUBSET Sockets, NEW event \in Event,
           \A s \in S : Registered(s),
           Put(S, event)
    PROVE  Queued
<1> DEFINE full == {s \in S : queue[s] # None /\ Len(queue[s]) = MaxQueue}
<1>1. \A s \in S : queue[s] # None /\ queue[s] \in Seq(Event) /\ Len(queue[s]) <= MaxQueue
                    /\ worker[s] \in {"running", "closing"}
    BY DEF TypeOK, RegisteredIsServed
<1>2. /\ worker' = [s \in Sockets |->
            IF s \in full /\ worker[s] = "running" THEN "cancelled" ELSE worker[s]]
      /\ queue' = [s \in Sockets |->
            IF s \in full THEN None
            ELSE IF s \in S \ full /\ queue[s] # None THEN Append(queue[s], event)
            ELSE queue[s]]
      /\ dashboards' = dashboards \ full
      /\ edge' = WithoutSockets(full)
    BY DEF Put
<1>3. full \subseteq S
    OBVIOUS
<1>4. \A s \in S \ full : Append(queue[s], event) \in Seq(Event) /\ Len(Append(queue[s], event)) <= MaxQueue
    <2> SUFFICES ASSUME NEW s \in S \ full
                 PROVE  /\ Append(queue[s], event) \in Seq(Event)
                        /\ Len(Append(queue[s], event)) <= MaxQueue
        OBVIOUS
    <2>1. queue[s] \in Seq(Event) /\ Len(queue[s]) <= MaxQueue /\ Len(queue[s]) # MaxQueue
        BY <1>1
    <2>2. Len(Append(queue[s], event)) = Len(queue[s]) + 1 /\ Append(queue[s], event) \in Seq(Event)
        BY <2>1, AppendProperties
    <2>3. Len(queue[s]) \in Nat
        BY <2>1, LenProperties
    <2> QED
        BY <2>1, <2>2, <2>3, ConnectionsAssumption
<1> HIDE DEF full
<1>5. /\ edge' \in [Devices -> Sockets \cup {None}]
      /\ \A d \in Devices : edge'[d] = IF edge[d] \in full THEN None ELSE edge[d]
    BY <1>2 DEF WithoutSockets, TypeOK
<1>6. \A s \in Sockets : Registered(s)' <=> Registered(s) /\ s \notin full
    BY <1>2, <1>5, ConnectionsAssumption DEF Registered
<1>7. dashboards' \subseteq dashboards /\ DOMAIN queue' = Sockets
      /\ worker' \in [Sockets -> {"none", "running", "cancelled", "closing", "done"}]
    BY <1>2 DEF TypeOK
<1>8. ASSUME NEW s \in Sockets
      PROVE  /\ queue'[s] # None => queue'[s] \in Seq(Event) /\ Len(queue'[s]) <= MaxQueue
             /\ \/ queue'[s] = queue[s] /\ worker'[s] = worker[s] /\ (Registered(s) => Registered(s)')
                \/ /\ Registered(s) /\ Registered(s)'
                   /\ queue'[s] # None /\ worker'[s] = worker[s]
                   /\ \E e \in Event : queue'[s] = Append(queue[s], e)
                \/ /\ Registered(s) /\ ~Registered(s)'
                   /\ \/ worker'[s] = "cancelled"
                      \/ worker[s] = "closing" /\ worker'[s] = "closing"
    <2>1. CASE s \in full
        BY <1>1, <1>2, <1>3, <1>6, <2>1
    <2>2. CASE s \in S \ full
        <3>1. queue'[s] = Append(queue[s], event) /\ worker'[s] = worker[s]
            BY <1>1, <1>2, <2>2
        <3>2. queue'[s] # None
            BY <1>4, <2>2, <3>1, ConnectionsAssumption
        <3> QED
            BY <1>4, <1>6, <2>2, <3>1, <3>2
    <2>3. CASE s \notin S
        <3>1. queue'[s] = queue[s] /\ worker'[s] = worker[s]
            BY <1>2, <1>3, <2>3
        <3> QED
            BY <1>3, <1>6, <2>3, <3>1 DEF TypeOK
    <2> QED
        BY <2>1, <2>2, <2>3
<1> QED
    BY <1>5, <1>6, <1>7, <1>8 DEF Queued

\* The three requests that disconnect a device queue the command or change nothing.
LEMMA ForceDisconnectQueues ==
    ASSUME TypeOK, RegisteredIsServed, NEW h \in Handlers, NEW d \in Devices \cup {None}, NEW t,
           ForceDisconnect(h, d, t)
    PROVE  /\ Queued
           /\ \/ Finish(h)
              \/ txn' = [txn EXCEPT ![h] = t] /\ (d # None => edge[d] = None) /\ UNCHANGED manager
<1>1. CASE d = None \/ edge[d] = None
    BY <1>1, SameManager DEF ForceDisconnect
<1>2. CASE ~(d = None \/ edge[d] = None)
    <2>1. Finish(h) /\ Put({edge[d]}, "DEVICE_WIPE_COMMAND")
        BY <1>2 DEF ForceDisconnect
    <2>2. edge[d] \in Sockets /\ Registered(edge[d])
        BY <1>2 DEF TypeOK, Registered
    <2> QED
        BY <2>1, <2>2, PutQueues DEF Event
<1> QED
    BY <1>1, <1>2
\* The history of a step: sets of sockets are added, or what is uncounted starts
\* anew.
LEMMA GhostType ==
    ASSUME TypeOK, NEW s \in Sockets, NEW S \in SUBSET Sockets, NEW L \in SUBSET Legislators
    PROVE  /\ [ghost EXCEPT !.uncounted = @ \cup S] \in Ghosts
           /\ [ghost EXCEPT !.uncounted = S] \in Ghosts
           /\ [ghost EXCEPT !.raced = @ \cup L] \in Ghosts
           /\ RegisteredNow(s) \in Ghosts
           /\ \A T \in SUBSET Sockets :
                [RegisteredNow(s) EXCEPT !.overwritten = @ \cup S, !.uncounted = @ \cup T] \in Ghosts
BY DEF TypeOK, Ghosts, RegisteredNow

LEMMA ArriveType ==
    ASSUME TypeOK, NEW s \in Sockets,
           NEW at \in {"new", "checked", "takingOver", "joined", "receiving", "leaving",
                       "ended", "failed"},
           NEW d \in Devices \cup {None}, NEW old \in Sockets \cup {None}
    PROVE  /\ Arrive(s, at) => endpoint' \in [Sockets -> Endpoint]
           /\ endpoint' = [endpoint EXCEPT ![s].at = at, ![s].device = d] =>
                    endpoint' \in [Sockets -> Endpoint]
           /\ endpoint' = [endpoint EXCEPT ![s].at = at, ![s].old = old] =>
                    endpoint' \in [Sockets -> Endpoint]
<1> DEFINE e == [endpoint[s] EXCEPT !.at = at]
           f == [endpoint[s] EXCEPT !.at = at, !.device = d]
           g == [endpoint[s] EXCEPT !.at = at, !.old = old]
<1>1. endpoint[s] \in Endpoint /\ endpoint \in [Sockets -> Endpoint]
    BY DEF TypeOK
<1>2. e \in Endpoint /\ f \in Endpoint /\ g \in Endpoint
    BY <1>1 DEF Endpoint
<1>3. /\ Arrive(s, at) => endpoint' = [endpoint EXCEPT ![s] = e]
      /\ endpoint' = [endpoint EXCEPT ![s].at = at, ![s].device = d] =>
                endpoint' = [endpoint EXCEPT ![s] = f]
      /\ endpoint' = [endpoint EXCEPT ![s].at = at, ![s].old = old] =>
                endpoint' = [endpoint EXCEPT ![s] = g]
    BY <1>1 DEF Arrive
<1> QED
    BY <1>1, <1>2, <1>3

LEMMA SocketTypeOK ==
    ASSUME IInv, NEW s \in Sockets, Socket(s)
    PROVE  TypeOK'
<1> USE DEF IInv
<1>1. CASE \E d \in Devices : CheckToken(s, d)
    BY <1>1, ArriveType DEF CheckToken, rows, manager, TypeOK
<1>2. CASE CheckSession(s)
    BY <1>2, ArriveType DEF CheckSession, rows, manager, TypeOK
<1>3. CASE JoinDashboard(s)
    <2>1. <<>> \in Seq(Event) /\ Len(<<>>) <= MaxQueue
        BY ConnectionsAssumption
    <2> QED
        BY <1>3, <2>1, ArriveType DEF JoinDashboard, Serve, rows, TypeOK
<1>4. CASE JoinDevice(s)
    <2>1. <<>> \in Seq(Event) /\ Len(<<>>) <= MaxQueue
        BY ConnectionsAssumption
    <2>2. ghost' \in Ghosts
        BY <1>4, GhostType DEF JoinDevice
    <2> QED
        BY <1>4, <2>1, <2>2, ArriveType DEF JoinDevice, Serve, rows, TypeOK
<1>5. CASE TakeOver(s)
    <2>1. <<>> \in Seq(Event) /\ Len(<<>>) <= MaxQueue
        BY ConnectionsAssumption
    <2>2. endpoint[s].device \in Devices /\ edge[endpoint[s].device] \in Sockets
        BY <1>5 DEF TakeOver, TypeOK, Endpoint
    <2>3. ghost' \in Ghosts
        BY <1>5, <2>2, GhostType DEF TakeOver
    <2>4. endpoint' \in [Sockets -> Endpoint]
        BY <1>5, <2>2, ArriveType DEF TakeOver
    <2> QED
        BY <1>5, <2>1, <2>2, <2>3, <2>4 DEF TakeOver, Serve, rows, TypeOK
<1>6. CASE CompleteTakeOver(s)
    <2>1. endpoint[s].device \in Devices /\ endpoint[s].old \in Sockets
        BY <1>6 DEF CompleteTakeOver, ManagerInv, TakingOver
    <2>2. {edge[endpoint[s].device]} \ {None} \in SUBSET Sockets
        BY <2>1 DEF TypeOK
    <2>3. ghost' \in Ghosts
        BY <1>6, <2>2, GhostType, LeftType DEF CompleteTakeOver
    <2>4. endpoint' \in [Sockets -> Endpoint]
        BY <1>6, ArriveType DEF CompleteTakeOver
    <2>5. worker' \in [Sockets -> {"none", "running", "cancelled", "closing", "done"}]
        BY <1>6, <2>1 DEF CompleteTakeOver, TypeOK
    <2> QED
        BY <1>6, <2>1, <2>3, <2>4, <2>5 DEF CompleteTakeOver, rows, TypeOK
<1>7. CASE CheckQuorum(s)
    <2>1. Queued
        BY <1>7, ReceiversType, PutQueues, SameManager DEF CheckQuorum, Event, ManagerInv
    <2>2. ghost' \in Ghosts
        BY <1>7, GhostType, LeftType DEF CheckQuorum
    <2>3. endpoint' \in [Sockets -> Endpoint]
        BY <1>7, ArriveType DEF CheckQuorum
    <2> QED
        BY <1>7, <2>1, <2>2, <2>3 DEF CheckQuorum, Queued, rows, TypeOK
<1>8. CASE CheckFails(s)
    BY <1>8, ArriveType DEF CheckFails, rows, manager, TypeOK
<1>9. CASE ReceiveEnds(s)
    <2>1. ghost' \in Ghosts
        BY <1>9, GhostType, LeftType DEF ReceiveEnds
    <2>2. edge' \in [Devices -> Sockets \cup {None}]
        BY <1>9 DEF ReceiveEnds, Disconnect, WithoutSockets, TypeOK
    <2>3. endpoint' \in [Sockets -> Endpoint]
        BY <1>9, ArriveType DEF ReceiveEnds
    <2>4. worker' \in [Sockets -> {"none", "running", "cancelled", "closing", "done"}]
        BY <1>9 DEF ReceiveEnds, Disconnect, TypeOK
    <2> QED
        BY <1>9, <2>1, <2>2, <2>3, <2>4 DEF ReceiveEnds, Disconnect, rows, TypeOK
<1>10. CASE Drop(s)
    BY <1>10 DEF Drop, rows, manager, TypeOK
<1>11. CASE WorkerSend(s)
    <2>1. queue[s] # None /\ queue[s] \in Seq(Event) /\ queue[s] # <<>> /\ Len(queue[s]) <= MaxQueue
        BY <1>11 DEF WorkerSend, ManagerInv, WorkerHasQueue, TypeOK
    <2>2. Tail(queue[s]) \in Seq(Event) /\ Len(Tail(queue[s])) = Len(queue[s]) - 1
        BY <2>1, HeadTailProperties
    <2>3. Len(Tail(queue[s])) <= MaxQueue
        BY <2>1, <2>2, LenProperties, ConnectionsAssumption
    <2> QED
        BY <1>11, <2>2, <2>3 DEF WorkerSend, rows, TypeOK
<1>12. CASE WorkerStops(s)
    BY <1>12 DEF WorkerStops, rows, TypeOK
<1>13. CASE WorkerEnds(s)
    <2>1. ghost' \in Ghosts
        BY <1>13, GhostType, LeftType DEF WorkerEnds
    <2>2. edge' \in [Devices -> Sockets \cup {None}]
        BY <1>13 DEF WorkerEnds, WithoutSockets, TypeOK
    <2> QED
        BY <1>13, <2>1, <2>2 DEF WorkerEnds, rows, TypeOK
<1> QED
    BY <1>1, <1>2, <1>3, <1>4, <1>5, <1>6, <1>7, <1>8, <1>9, <1>10, <1>11, <1>12, <1>13 DEF Socket

\* What an administrative request does to the manager.
LEMMA AdministrationQueues ==
    ASSUME IInv, Administration
    PROVE  /\ Queued
           /\ UNCHANGED <<endpoint, alive>>
           /\ \/ UNCHANGED manager /\ (ghost' = ghost
                    \/ \E L \in SUBSET Legislators : ghost' = [ghost EXCEPT !.raced = @ \cup L])
              \/ ghost' = [ghost EXCEPT !.uncounted = @ \cup Left]
<1> USE DEF IInv
<1>1. ASSUME NEW h \in Handlers, ReplaceDevice(h) PROVE Queued
    BY <1>1, TheDeviceType, ForceDisconnectQueues DEF ReplaceDevice, ManagerInv
<1>2. ASSUME NEW h \in Handlers, NEW d \in Devices, BeginWipe(h, d) PROVE Queued
    BY <1>2, ForceDisconnectQueues DEF BeginWipe, ManagerInv
<1>3. ASSUME NEW h \in Handlers, NEW l \in Legislators, BeginRemove(h, l) PROVE Queued
    BY <1>3, TheDeviceType, ForceDisconnectQueues DEF BeginRemove, ManagerInv
<1>4. ASSUME NEW h \in Handlers, CommitRemove(h)
      PROVE  \E L \in SUBSET Legislators : ghost' = [ghost EXCEPT !.raced = @ \cup L]
    <2>1. txn[h].legislator \in Legislators
        BY <1>4, TxnByOp DEF CommitRemove, RemoveTxn
    <2>2. {l \in {txn[h].legislator} : ~(ActiveOf(l) \subseteq {txn[h].device})} \in SUBSET Legislators
        BY <2>1
    <2> QED
        BY <1>4, <2>2 DEF CommitRemove
<1> QED
    BY <1>1, <1>2, <1>3, <1>4, SameManager DEF Administration, BeginGenerate, GenerateToken,
        BeginEnroll, RefuseIdentity, ReplaceDevice, CommitEnroll, BeginWipe, CommitWipe, BeginRemove,
        CommitRemove, Rollback
-----------------------------------------------------------------------------
(* The rows.                                                               *)

LEMMA AdministrationTypeOK ==
    ASSUME IInv, Administration
    PROVE  TypeOK'
<1> USE DEF IInv
<1>1. endpoint' \in [Sockets -> Endpoint] /\ alive' \subseteq Sockets /\ ghost' \in Ghosts
    <2>1. \A L \in SUBSET Legislators : [ghost EXCEPT !.raced = @ \cup L] \in Ghosts
        BY DEF TypeOK, Ghosts
    <2>2. [ghost EXCEPT !.uncounted = @ \cup Left] \in Ghosts
        BY LeftType DEF TypeOK, Ghosts
    <2> QED
        BY <2>1, <2>2, AdministrationQueues DEF TypeOK
<1>2. Queued
    BY AdministrationQueues
<1>3. txn' \in [Handlers -> Txn]
    <2>1. ASSUME NEW h \in Handlers, NEW l \in Legislators, NEW d \in Devices, BeginEnroll(h, l, d)
          PROVE  txn' \in [Handlers -> Txn]
        <3>1. provisioning[l] \in Tokens
            BY <2>1 DEF BeginEnroll, TypeOK
        <3> QED
            BY <2>1, <3>1 DEF BeginEnroll, Begin, TypeOK, Txn
    <2>2. ASSUME NEW h \in Handlers, ReplaceDevice(h) PROVE txn' \in [Handlers -> Txn]
        <3> DEFINE old == TheDevice(txn[h].legislator)
                   t == [txn[h] EXCEPT !.op = "enrolling", !.old = old]
        <3>1. txn[h] \in EnrolTxn /\ old \in Devices \cup {None}
            BY <2>2, TxnByOp, TheDeviceType DEF ReplaceDevice, Enrolling
        <3>2. t \in Txn
            BY <3>1 DEF EnrolTxn, Txn
        <3>3. Finish(h) \/ txn' = [txn EXCEPT ![h] = t]
            BY <2>2 DEF ReplaceDevice, ForceDisconnect
        <3> QED
            BY <3>2, <3>3, FinishType DEF TypeOK
    <2>3. ASSUME NEW h \in Handlers, NEW d \in Devices, BeginWipe(h, d) PROVE txn' \in [Handlers -> Txn]
        BY <2>3, FinishType DEF BeginWipe, ForceDisconnect, TypeOK, Txn
    <2>4. ASSUME NEW h \in Handlers, NEW l \in Legislators, BeginRemove(h, l)
          PROVE  txn' \in [Handlers -> Txn]
        BY <2>4, FinishType, TheDeviceType DEF BeginRemove, ForceDisconnect, TypeOK, Txn
    <2>5. ASSUME NEW h \in Handlers, RefuseIdentity(h) \/ CommitEnroll(h) \/ CommitWipe(h)
                                     \/ CommitRemove(h) \/ Rollback(h)
          PROVE  txn' \in [Handlers -> Txn]
        BY <2>5, FinishType DEF RefuseIdentity, CommitEnroll, CommitWipe, CommitRemove, Rollback
    <2>6. ASSUME NEW h \in Handlers, NEW t \in Tokens, GenerateToken(h, t)
          PROVE  txn' \in [Handlers -> Txn]
        BY <2>6, FinishType DEF GenerateToken
    <2>7. ASSUME NEW h \in Handlers, NEW l \in Legislators, BeginGenerate(h, l)
          PROVE  txn' \in [Handlers -> Txn]
        BY <2>7 DEF BeginGenerate, Begin, TypeOK, Txn
    <2> QED
        BY <2>1, <2>2, <2>3, <2>4, <2>5, <2>6, <2>7 DEF Administration
<1>4. device' \in [Devices -> DeviceRow]
    <2>1. ASSUME NEW h \in Handlers, CommitEnroll(h) PROVE device' \in [Devices -> DeviceRow]
        <3> DEFINE row == [status |-> "active", owner |-> txn[h].legislator,
                           enrolledWith |-> txn[h].token]
        <3>1. txn[h] \in EnrolTxn
            BY <2>1, TxnByOp DEF CommitEnroll, Enrolling
        <3>2. row \in DeviceRow /\ txn[h].device \in Devices /\ txn[h].old \in Devices \cup {None}
            BY <3>1 DEF EnrolTxn, DeviceRow
        <3>3. device' = [Revoke(txn[h].old, device) EXCEPT ![txn[h].device] = row]
            BY <2>1 DEF CommitEnroll
        <3> QED
            BY <3>2, <3>3, RevokeType
    <2>2. ASSUME NEW h \in Handlers, CommitWipe(h) \/ CommitRemove(h)
          PROVE  device' \in [Devices -> DeviceRow]
        <3>1. txn[h].device \in Devices \cup {None} /\ device' = Revoke(txn[h].device, device)
            BY <2>2, TxnByOp DEF CommitWipe, CommitRemove, WipeTxn, RemoveTxn
        <3> QED
            BY <3>1, RevokeType
    <2> QED
        BY <2>1, <2>2 DEF Administration, BeginGenerate, GenerateToken, BeginEnroll, RefuseIdentity,
            ReplaceDevice, BeginWipe, BeginRemove, Rollback, rows, TypeOK
<1>5. provisioning' \in [Legislators -> Tokens \cup {None}] /\ removed' \subseteq Legislators
    <2>1. ASSUME NEW h \in Handlers, CommitRemove(h)
          PROVE  provisioning' \in [Legislators -> Tokens \cup {None}] /\ removed' \subseteq Legislators
        <3>1. txn[h].legislator \in Legislators
            BY <2>1, TxnByOp DEF CommitRemove, RemoveTxn
        <3> QED
            BY <2>1, <3>1 DEF CommitRemove, TypeOK
    <2>2. ASSUME NEW h \in Handlers, NEW t \in Tokens, GenerateToken(h, t)
          PROVE  provisioning' \in [Legislators -> Tokens \cup {None}] /\ UNCHANGED removed
        BY <2>2 DEF GenerateToken, TypeOK
    <2>3. ASSUME NEW h \in Handlers, CommitEnroll(h) \/ RefuseIdentity(h)
          PROVE  provisioning' \in [Legislators -> Tokens \cup {None}] /\ UNCHANGED removed
        BY <2>3 DEF CommitEnroll, RefuseIdentity, TypeOK
    <2>4. ASSUME NEW h \in Handlers,
                 \/ \E l \in Legislators, d \in Devices : BeginEnroll(h, l, d)
                 \/ \E l \in Legislators : BeginGenerate(h, l) \/ BeginRemove(h, l)
                 \/ \E d \in Devices : BeginWipe(h, d)
                 \/ ReplaceDevice(h) \/ CommitWipe(h) \/ Rollback(h)
          PROVE  UNCHANGED <<provisioning, removed>>
        BY <2>4 DEF BeginGenerate, BeginEnroll, ReplaceDevice, BeginWipe, CommitWipe, BeginRemove, Rollback,
            rows
    <2>5. removed \subseteq Legislators /\ provisioning \in [Legislators -> Tokens \cup {None}]
        BY DEF TypeOK
    <2> QED
        BY <2>1, <2>2, <2>3, <2>4, <2>5 DEF Administration
<1> QED
    BY <1>1, <1>2, <1>3, <1>4, <1>5 DEF Queued, TypeOK

\* Of the rows nothing changes but what an action says; a finished request is idle.
LEMMA Finished ==
    ASSUME TypeOK, NEW h \in Handlers, Finish(h)
    PROVE  /\ ~Enrolling(h)'
           /\ \A g \in Handlers \ {h} : txn'[g] = txn[g]
BY DEF TypeOK, Finish, Enrolling, Idle

LEMMA SameRows == ASSUME RowsInv, UNCHANGED <<rows, txn>>, ghost'.raced = ghost.raced PROVE RowsInv'
BY DEF RowsInv, Enrolments, TokensAreFresh, TokenEnrolsOnce, RemovedHasNoDevice, Enrolling,
    ActiveOf, RowsOf, rows

\* A request that enrols nobody begins, goes on or ends.
LEMMA OtherRequestKeepsRows ==
    ASSUME RowsInv, NEW h \in Handlers, UNCHANGED rows, ghost'.raced = ghost.raced,
           ~Enrolling(h)', \A g \in Handlers \ {h} : txn'[g] = txn[g]
    PROVE  RowsInv'
<1>1. \A g \in Handlers : Enrolling(g)' => g # h /\ Enrolling(g) /\ txn'[g] = txn[g]
    BY DEF Enrolling
<1> QED
    BY <1>1 DEF RowsInv, Enrolments, TokensAreFresh, TokenEnrolsOnce, RemovedHasNoDevice,
        ActiveOf, RowsOf, rows

\* Devices are revoked, and legislators removed, which may have been raced.
LEMMA RevocationKeepsRows ==
    ASSUME TypeOK, RowsInv, NEW h \in Handlers, Finish(h), NEW d \in Devices \cup {None},
           device' = Revoke(d, device), UNCHANGED provisioning,
           ghost.raced \subseteq ghost'.raced,
           \A l \in removed' \ removed :
                Unlocked(l) /\ (ActiveOf(l) \subseteq {d} \/ l \in ghost'.raced)
    PROVE  RowsInv'
<1>1. /\ \A g \in Handlers : Enrolling(g)' => g # h /\ Enrolling(g) /\ txn'[g] = txn[g]
    BY Finished DEF Enrolling
<1>2. \A e \in Devices :
        /\ device'[e].owner = device[e].owner
        /\ device'[e].enrolledWith = device[e].enrolledWith
        /\ device'[e] = NoDevice <=> device[e] = NoDevice
        /\ device'[e].status = "active" => device[e].status = "active" /\ e # d
    BY RevokeType
<1>3. Enrolments'
    <2>1. \A g \in Handlers : Enrolling(g)' => txn[g].legislator \notin removed'
        BY <1>1 DEF RowsInv, Enrolments, Unlocked, Enrolling
    <2>2. \A g \in Handlers : Enrolling(g) => txn[g].device \in Devices
        BY TxnByOp DEF EnrolTxn
    <2> QED
        BY <1>1, <1>2, <2>1, <2>2 DEF RowsInv, Enrolments
<1>4. TokensAreFresh' /\ TokenEnrolsOnce'
    BY <1>2 DEF RowsInv, TokensAreFresh, TokenEnrolsOnce
<1>5. RemovedHasNoDevice'
    <2>1. \A l : ActiveOf(l)' \subseteq ActiveOf(l) \ {d}
        BY <1>2 DEF ActiveOf, RowsOf
    <2> QED
        BY <2>1 DEF RowsInv, RemovedHasNoDevice
<1> QED
    BY <1>3, <1>4, <1>5 DEF RowsInv

LEMMA EnrolmentKeepsRows ==
    ASSUME TypeOK, RowsInv, NEW h \in Handlers, CommitEnroll(h)
    PROVE  RowsInv'
<1> DEFINE t == txn[h]
           row == [status |-> "active", owner |-> t.legislator, enrolledWith |-> t.token]
<1>1. /\ t.legislator \in Legislators /\ t.token \in Tokens /\ t.device \in Devices
      /\ t.old \in Devices \cup {None} /\ Enrolling(h)
    BY TxnByOp DEF CommitEnroll, Enrolling, EnrolTxn
<1>2. \A g \in Handlers : Enrolling(g)' => g # h /\ Enrolling(g) /\ txn'[g] = txn[g]
    BY Finished DEF CommitEnroll, Enrolling
<1>3. /\ provisioning[t.legislator] = t.token /\ t.legislator \notin removed
      /\ device[t.device] = NoDevice /\ t.token # None
    BY <1>1, ConnectionsAssumption DEF RowsInv, Enrolments
<1>4. /\ provisioning' = [provisioning EXCEPT ![t.legislator] = None]
      /\ device' = [Revoke(t.old, device) EXCEPT ![t.device] = row]
      /\ ActiveOf(t.legislator) \subseteq {t.old}
      /\ UNCHANGED <<removed, ghost>>
    BY DEF CommitEnroll
<1>5. device'[t.device] = row
    BY <1>1, <1>4, RevokeType
<1>6. \A e \in Devices \ {t.device} :
        /\ device'[e].owner = device[e].owner
        /\ device'[e].enrolledWith = device[e].enrolledWith
        /\ device'[e] = NoDevice <=> device[e] = NoDevice
        /\ device'[e].status = "active" => device[e].status = "active" /\ e # t.old
    BY <1>1, <1>4, RevokeType
<1>7. /\ provisioning'[t.legislator] = None
      /\ \A l \in Legislators \ {t.legislator} : provisioning'[l] = provisioning[l]
    BY <1>1, <1>4 DEF TypeOK
<1> HIDE DEF t
<1>8. Enrolments'
    <2>1. \A g \in Handlers \ {h} : Enrolling(g) =>
            /\ txn[g].device \in Devices \ {t.device}
            /\ txn[g].legislator \in Legislators \ {t.legislator}
        BY <1>1, TxnByOp DEF RowsInv, Enrolments, EnrolTxn, t
    <2> QED
        BY <1>2, <1>4, <1>6, <1>7, <2>1 DEF RowsInv, Enrolments
<1>9. TokensAreFresh'
    BY <1>1, <1>3, <1>5, <1>6, <1>7 DEF RowsInv, TokensAreFresh
<1>10. TokenEnrolsOnce'
    <2>1. \A e \in Devices \ {t.device} : device[e].enrolledWith # t.token
        BY <1>1, <1>3 DEF RowsInv, TokensAreFresh
    <2>2. \A e \in Devices \ {t.device} :
            device'[e].owner = t.legislator => device'[e].status # "active"
        BY <1>4, <1>6 DEF ActiveOf, RowsOf
    <2>3. \A d, e \in Devices \ {t.device} :
            d # e /\ device'[d] # NoDevice /\ device'[e] # NoDevice =>
                /\ device'[d].enrolledWith # device'[e].enrolledWith
                /\ device'[d].owner = device'[e].owner =>
                    ~(device'[d].status = "active" /\ device'[e].status = "active")
        BY <1>6 DEF RowsInv, TokenEnrolsOnce
    <2> QED
        BY <1>5, <1>6, <2>1, <2>2, <2>3 DEF TokenEnrolsOnce
<1>11. RemovedHasNoDevice'
    <2>1. \A l \in removed : ActiveOf(l)' \subseteq ActiveOf(l)
        BY <1>1, <1>3, <1>5, <1>6 DEF ActiveOf, RowsOf
    <2> QED
        BY <1>4, <2>1 DEF RowsInv, RemovedHasNoDevice
<1> QED
    BY <1>8, <1>9, <1>10, <1>11 DEF RowsInv

LEMMA HistoryOfRaces ==
    ASSUME TypeOK, NEW S
    PROVE  /\ [ghost EXCEPT !.uncounted = S].raced = ghost.raced
           /\ [ghost EXCEPT !.uncounted = S].late = ghost.late
           /\ [ghost EXCEPT !.uncounted = S].overwritten = ghost.overwritten
           /\ [ghost EXCEPT !.uncounted = S].uncounted = S
           /\ [ghost EXCEPT !.raced = S].raced = S
           /\ [ghost EXCEPT !.raced = S].late = ghost.late
           /\ [ghost EXCEPT !.raced = S].overwritten = ghost.overwritten
           /\ [ghost EXCEPT !.raced = S].uncounted = ghost.uncounted
BY DEF TypeOK, Ghosts

LEMMA AdministrationKeepsRows ==
    ASSUME IInv, Administration
    PROVE  RowsInv'
<1> USE DEF IInv
<1>1. ASSUME NEW h \in Handlers, NEW t \in Tokens, GenerateToken(h, t) PROVE RowsInv'
    <2>0. PICK l \in Legislators : l = txn[h].legislator
        BY <1>1, TxnByOp DEF GenerateToken, GenerateTxn
    <2>1. /\ provisioning'[l] = t /\ t # None
          /\ \A k \in Legislators \ {l} : provisioning'[k] = provisioning[k]
          /\ UNCHANGED <<removed, device, ghost>>
        BY <1>1, <2>0, ConnectionsAssumption DEF GenerateToken, TypeOK
    <2>2. Enrolments'
        <3>1. \A g \in Handlers : Enrolling(g)' => Enrolling(g) /\ txn'[g] = txn[g]
            BY <1>1, Finished DEF GenerateToken, Enrolling
        <3>2. \A g \in Handlers : Enrolling(g) => txn[g].legislator \in Legislators \ {l}
            BY <1>1, <2>0, TxnByOp DEF GenerateToken, Unlocked, EnrolTxn, Enrolling
        <3> QED
            BY <2>1, <3>1, <3>2 DEF RowsInv, Enrolments
    <2>3. TokensAreFresh'
        BY <1>1, <2>1 DEF RowsInv, TokensAreFresh, GenerateToken
    <2> QED
        BY <2>1, <2>2, <2>3 DEF RowsInv, TokenEnrolsOnce, RemovedHasNoDevice, ActiveOf, RowsOf
<1>2. ASSUME NEW h \in Handlers, NEW l \in Legislators, NEW d \in Devices, BeginEnroll(h, l, d)
      PROVE  RowsInv'
    <2> DEFINE t == [op |-> "identifying", legislator |-> l, token |-> provisioning[l],
                     device |-> d, old |-> None]
    <2>1. /\ txn'[h] = t /\ \A g \in Handlers \ {h} : txn'[g] = txn[g]
          /\ UNCHANGED <<rows, ghost>>
        BY <1>2 DEF BeginEnroll, Begin, TypeOK
    <2>2. Enrolments'
        <3>1. \A g \in Handlers \ {h} : Enrolling(g)' <=> Enrolling(g)
            BY <2>1 DEF Enrolling
        <3>2. \A g \in Handlers \ {h} : Enrolling(g) => txn[g].legislator # l /\ txn[g].device # d
            BY <1>2 DEF BeginEnroll, Unlocked, Unused, Enrolling
        <3>3. l \notin removed /\ device[d] = NoDevice
            BY <1>2 DEF BeginEnroll, Unused
        <3> QED
            BY <2>1, <3>1, <3>2, <3>3 DEF RowsInv, Enrolments, rows
    <2> QED
        BY <2>1, <2>2 DEF RowsInv, TokensAreFresh, TokenEnrolsOnce, RemovedHasNoDevice, ActiveOf,
            RowsOf, rows
<1>3. ASSUME NEW h \in Handlers, RefuseIdentity(h) PROVE RowsInv'
    <2>1. \A g \in Handlers : Enrolling(g)' => g # h /\ Enrolling(g) /\ txn'[g] = txn[g]
        BY <1>3, Finished DEF RefuseIdentity, Enrolling
    <2>2. /\ \A l \in Legislators : provisioning'[l] = provisioning[l] \/ provisioning'[l] = None
          /\ \A l \in Legislators \ {txn[h].legislator} : provisioning'[l] = provisioning[l]
          /\ UNCHANGED <<removed, device, ghost>>
        BY <1>3 DEF RefuseIdentity, TypeOK
    <2>3. Enrolling(h)
        BY <1>3 DEF RefuseIdentity, Enrolling
    <2>4. Enrolments'
        <3>1. \A g \in Handlers \ {h} : Enrolling(g) =>
                txn[g].legislator \in Legislators \ {txn[h].legislator}
            BY <2>3, TxnByOp DEF RowsInv, Enrolments, EnrolTxn
        <3> QED
            BY <2>1, <2>2, <3>1 DEF RowsInv, Enrolments
    <2> QED
        BY <2>2, <2>4 DEF RowsInv, TokensAreFresh, TokenEnrolsOnce, RemovedHasNoDevice, ActiveOf, RowsOf
<1>4. ASSUME NEW h \in Handlers, ReplaceDevice(h) PROVE RowsInv'
    <2> DEFINE old == TheDevice(txn[h].legislator)
               t == [txn[h] EXCEPT !.op = "enrolling", !.old = old]
    <2>1. UNCHANGED rows /\ ghost'.raced = ghost.raced
        BY <1>4, HistoryOfRaces DEF ReplaceDevice
    <2>2. Finish(h) \/ txn' = [txn EXCEPT ![h] = t]
        BY <1>4 DEF ReplaceDevice, ForceDisconnect
    <2>3. CASE Finish(h)
        BY <2>1, <2>3, Finished, OtherRequestKeepsRows
    <2>4. CASE txn' = [txn EXCEPT ![h] = t]
        <3>1. Enrolling(h) /\ txn[h] \in EnrolTxn
            BY <1>4, TxnByOp DEF ReplaceDevice, Enrolling
        <3>2. /\ t.op = "enrolling" /\ t.legislator = txn[h].legislator
              /\ t.token = txn[h].token /\ t.device = txn[h].device
            BY <3>1 DEF EnrolTxn
        <3>3. txn'[h] = t /\ \A g \in Handlers \ {h} : txn'[g] = txn[g]
            BY <2>4 DEF TypeOK
        <3> HIDE DEF t
        <3>4. \A g \in Handlers :
                /\ Enrolling(g)' <=> Enrolling(g)
                /\ Enrolling(g) => /\ txn'[g].legislator = txn[g].legislator
                                   /\ txn'[g].token = txn[g].token
                                   /\ txn'[g].device = txn[g].device
            BY <3>1, <3>2, <3>3 DEF Enrolling
        <3>5. Enrolments'
            BY <2>1, <3>4 DEF RowsInv, Enrolments, rows
        <3> QED
            BY <2>1, <3>5 DEF RowsInv, TokensAreFresh, TokenEnrolsOnce, RemovedHasNoDevice,
                ActiveOf, RowsOf, rows
    <2> QED
        BY <2>2, <2>3, <2>4
<1>5. ASSUME NEW h \in Handlers, NEW t, NEW S, t.op \in {"wiping", "removing"}, UNCHANGED rows,
             ghost' = [ghost EXCEPT !.uncounted = S],
             Finish(h) \/ txn' = [txn EXCEPT ![h] = t]
      PROVE  RowsInv'
    <2>1. ~Enrolling(h)' /\ \A g \in Handlers \ {h} : txn'[g] = txn[g]
        BY <1>5, Finished DEF Enrolling, TypeOK
    <2> QED
        BY <1>5, <2>1, HistoryOfRaces, OtherRequestKeepsRows
<1>6. ASSUME NEW h \in Handlers, NEW d \in Devices, BeginWipe(h, d) PROVE RowsInv'
    <2>1. [op |-> "wiping", device |-> d].op \in {"wiping", "removing"}
        OBVIOUS
    <2>2. Finish(h) \/ txn' = [txn EXCEPT ![h] = [op |-> "wiping", device |-> d]]
        BY <1>6 DEF BeginWipe, ForceDisconnect
    <2> QED
        BY <1>5, <1>6, <2>1, <2>2 DEF BeginWipe
<1>7. ASSUME NEW h \in Handlers, NEW l \in Legislators, BeginRemove(h, l) PROVE RowsInv'
    <2> DEFINE t == [op |-> "removing", legislator |-> l, device |-> TheDevice(l)]
    <2>1. t.op \in {"wiping", "removing"}
        OBVIOUS
    <2>2. Finish(h) \/ txn' = [txn EXCEPT ![h] = t]
        BY <1>7 DEF BeginRemove, ForceDisconnect
    <2>3. UNCHANGED rows /\ ghost' = [ghost EXCEPT !.uncounted = ghost.uncounted \cup Left]
        BY <1>7 DEF BeginRemove
    <2> HIDE DEF t
    <2> QED
        BY <1>5, <2>1, <2>2, <2>3
<1>8. ASSUME NEW h \in Handlers, CommitWipe(h) PROVE RowsInv'
    <2>1. txn[h].device \in Devices
        BY <1>8, TxnByOp DEF CommitWipe, WipeTxn
    <2> QED
        BY <1>8, <2>1, RevocationKeepsRows DEF CommitWipe
<1>9. ASSUME NEW h \in Handlers, CommitRemove(h) PROVE RowsInv'
    <2>1. txn[h].device \in Devices \cup {None}
        BY <1>9, TxnByOp DEF CommitRemove, RemoveTxn
    <2>2. ghost'.raced = ghost.raced \cup
            {l \in {txn[h].legislator} : ~(ActiveOf(l) \subseteq {txn[h].device})}
        BY <1>9, HistoryOfRaces DEF CommitRemove
    <2> QED
        BY <1>9, <2>1, <2>2, RevocationKeepsRows DEF CommitRemove
<1>10. ASSUME NEW h \in Handlers, CommitEnroll(h) PROVE RowsInv'
    BY <1>10, EnrolmentKeepsRows
<1>11. ASSUME NEW h \in Handlers, Rollback(h) PROVE RowsInv'
    BY <1>11, Finished, OtherRequestKeepsRows DEF Rollback
<1>12. ASSUME NEW h \in Handlers, NEW l \in Legislators, BeginGenerate(h, l) PROVE RowsInv'
    <2>1. ~Enrolling(h)' /\ \A g \in Handlers \ {h} : txn'[g] = txn[g]
        BY <1>12 DEF BeginGenerate, Begin, Enrolling, TypeOK
    <2> QED
        BY <1>12, <2>1, OtherRequestKeepsRows DEF BeginGenerate
<1> QED
    BY <1>1, <1>2, <1>3, <1>4, <1>6, <1>7, <1>8, <1>9, <1>10, <1>11, <1>12 DEF Administration

LEMMA OtherStepsKeepRows ==
    ASSUME IInv, Broadcast \/ \E s \in Sockets : Socket(s)
    PROVE  RowsInv'
<1> USE DEF IInv
<1>1. UNCHANGED <<rows, txn>>
    BY DEF Broadcast, Socket, CheckToken, CheckSession, JoinDashboard, JoinDevice, TakeOver,
        CompleteTakeOver, CheckQuorum, CheckFails, Drop, ReceiveEnds, WorkerSend,
        WorkerStops, WorkerEnds
<1>2. \A s \in Sockets :
        /\ RegisteredNow(s).raced = ghost.raced
        /\ \A S, T : [RegisteredNow(s) EXCEPT !.overwritten = S, !.uncounted = T].raced = ghost.raced
    BY DEF RegisteredNow, TypeOK, Ghosts
<1>3. ghost'.raced = ghost.raced
    <2>1. CASE Broadcast
        BY <2>1, HistoryOfRaces DEF Broadcast
    <2>2. ASSUME NEW s \in Sockets, Socket(s) PROVE ghost'.raced = ghost.raced
        <3>1. CASE JoinDevice(s)
            BY <1>2, <3>1 DEF JoinDevice
        <3>2. CASE CompleteTakeOver(s)
            <4>1. PICK S, T : ghost' = [RegisteredNow(s) EXCEPT !.overwritten = S, !.uncounted = T]
                BY <3>2 DEF CompleteTakeOver
            <4> QED
                BY <1>2, <4>1
        <3>3. CASE TakeOver(s) \/ CheckQuorum(s) \/ ReceiveEnds(s) \/ WorkerEnds(s)
            <4>1. PICK S : ghost' = [ghost EXCEPT !.uncounted = S]
                BY <3>3 DEF TakeOver, CheckQuorum, ReceiveEnds, WorkerEnds
            <4> QED
                BY <4>1, HistoryOfRaces
        <3> QED
            BY <2>2, <3>1, <3>2, <3>3 DEF Socket, CheckToken, CheckSession, JoinDashboard,
                CheckFails, Drop, WorkerSend, WorkerStops
    <2> QED
        BY <2>1, <2>2
<1> QED
    BY <1>1, <1>3, SameRows

-----------------------------------------------------------------------------
(* The manager and the sockets.                                            *)

\* An event may be queued while an endpoint goes on, and a socket may break.
LEMMA QueuedKeepsManager ==
    ASSUME TypeOK, ManagerInv, Queued, alive' \subseteq alive,
           ghost'.overwritten = ghost.overwritten,
           \A s \in Sockets :
                /\ endpoint'[s].device = endpoint[s].device
                /\ endpoint'[s].old = endpoint[s].old
                /\ \/ endpoint'[s].at = endpoint[s].at
                   \/ endpoint[s].at = "joined" /\ endpoint'[s].at = "receiving"
                   \/ endpoint[s].at = "leaving" /\ endpoint'[s].at = "ended"
                   \/ endpoint[s].at \in {"joined", "leaving"} /\ endpoint'[s].at = "failed",
           ghost'.uncounted = Left
            \/ /\ ghost'.uncounted \subseteq ghost.uncounted \cup Left
               /\ \A s \in Sockets : endpoint'[s].at = "ended" => endpoint[s].at = "ended",
           ghost.uncounted \subseteq Sockets
    PROVE  ManagerInv'
<1> USE DEF ManagerInv
<1>1. RegisteredPhase'
    BY DEF RegisteredPhase, Queued
<1>2. NotYetServed'
    BY DEF NotYetServed, RegisteredPhase, Queued
<1>3. OwnPlace'
    BY DEF OwnPlace, Queued, TypeOK
<1>4. WorkerHasQueue'
    BY DEF WorkerHasQueue, Queued
<1>5. TakingOver'
    BY DEF TakingOver, RegisteredPhase, Queued
<1>6. RegisteredIsServed'
    BY DEF RegisteredIsServed, Queued
<1>7. JoinedIsRegistered'
    BY DEF JoinedIsRegistered, RegisteredIsServed, Queued
<1>8. DepartureIsCounted'
    BY DEF DepartureIsCounted, RegisteredPhase, Left
<1> QED
    BY <1>1, <1>2, <1>3, <1>4, <1>5, <1>6, <1>7, <1>8


\* An endpoint that is not registered moves before it joins.
LEMMA CheckKeepsManager ==
    ASSUME TypeOK, ManagerInv, NEW s \in Sockets, NEW d \in Devices \cup {None},
           UNCHANGED <<manager, alive, ghost>>, endpoint[s].at = "new",
           \/ endpoint' = [endpoint EXCEPT ![s].at = "checked", ![s].device = d]
           \/ Arrive(s, "checked")
    PROVE  ManagerInv'
<1> USE DEF ManagerInv
<1>1. /\ endpoint'[s].at = "checked"
      /\ \A u \in Sockets \ {s} : endpoint'[u] = endpoint[u]
    BY DEF TypeOK, Endpoint, Arrive
<1>2. \A u \in Sockets : Registered(u)' <=> Registered(u)
    BY DEF Registered, manager
<1>3. ~Registered(s)
    BY DEF RegisteredPhase
<1>4. RegisteredPhase' /\ NotYetServed' /\ JoinedIsRegistered'
    BY <1>1, <1>2, <1>3 DEF RegisteredPhase, NotYetServed, JoinedIsRegistered, manager
<1>5. OwnPlace'
    <2>1. s \notin dashboards /\ \A e \in Devices : edge[e] # s
        BY <1>3 DEF Registered
    <2> QED
        BY <1>1, <2>1 DEF OwnPlace, manager, TypeOK
<1>6. WorkerHasQueue' /\ RegisteredIsServed'
    BY <1>2 DEF WorkerHasQueue, RegisteredIsServed, manager
<1>7. TakingOver'
    BY <1>1, <1>2 DEF TakingOver, manager
<1>8. DepartureIsCounted'
    BY <1>1 DEF DepartureIsCounted, TypeOK, Ghosts
<1> QED
    BY <1>4, <1>5, <1>6, <1>7, <1>8

LEMMA EmptyQueue == <<>> # None
<1>1. <<>> \in Seq(Event)
    OBVIOUS
<1> QED
    BY <1>1, ConnectionsAssumption

LEMMA JoinKeepsManager ==
    ASSUME TypeOK, ManagerInv, NEW s \in Sockets, JoinDashboard(s) \/ JoinDevice(s)
    PROVE  ManagerInv'
<1> USE DEF ManagerInv
<1> DEFINE d == endpoint[s].device
<1>1. /\ endpoint[s].at = "checked" /\ ~Registered(s)
      /\ endpoint'[s].at = "joined" /\ endpoint'[s].device = d
      /\ \A u \in Sockets \ {s} : endpoint'[u] = endpoint[u]
      /\ UNCHANGED alive
    BY DEF JoinDashboard, JoinDevice, Arrive, TypeOK, Endpoint, RegisteredPhase
<1>2. /\ queue'[s] = <<>> /\ worker'[s] = "running"
      /\ \A u \in Sockets \ {s} : queue'[u] = queue[u] /\ worker'[u] = worker[u]
    BY DEF JoinDashboard, JoinDevice, Serve, TypeOK
<1>3. \/ d = None /\ dashboards' = dashboards \cup {s} /\ UNCHANGED edge
      \/ d \in Devices /\ edge[d] = None /\ edge' = [edge EXCEPT ![d] = s] /\ UNCHANGED dashboards
    BY DEF JoinDashboard, JoinDevice, TypeOK, Endpoint
<1>4. Registered(s)' /\ \A u \in Sockets \ {s} : Registered(u)' <=> Registered(u)
    BY <1>3, ConnectionsAssumption DEF Registered, TypeOK
<1>5. /\ ghost'.overwritten = ghost.overwritten /\ ghost'.uncounted = ghost.uncounted
      /\ ghost.uncounted \subseteq Sockets
    BY DEF JoinDashboard, JoinDevice, RegisteredNow, TypeOK, Ghosts
<1>6. <<>> # None
    BY EmptyQueue
<1> HIDE DEF d
<1>7. RegisteredPhase' /\ NotYetServed' /\ JoinedIsRegistered'
    BY <1>1, <1>2, <1>4, <1>5 DEF RegisteredPhase, NotYetServed, JoinedIsRegistered
<1>8. OwnPlace'
    <2>1. CASE d = None
        BY <1>1, <1>3, <2>1, ConnectionsAssumption DEF OwnPlace, TypeOK, Registered
    <2>2. CASE d \in Devices
        <3>1. edge' = [edge EXCEPT ![d] = s] /\ s \notin dashboards /\ UNCHANGED dashboards
            BY <1>1, <1>3, <2>2, ConnectionsAssumption DEF Registered
        <3>2. \A e \in Devices : e # d => edge'[e] = edge[e] /\ edge[e] # s
            BY <1>1, <3>1 DEF Registered, TypeOK
        <3>3. edge'[d] = s /\ endpoint'[s].device = d
            BY <1>1, <2>2, <3>1 DEF TypeOK
        <3>4. \A e \in Devices : edge[e] # None => edge[e] \in Sockets
            BY DEF TypeOK
        <3>5. dashboards \subseteq Sockets
            BY DEF TypeOK
        <3> QED
            BY <1>1, <3>1, <3>2, <3>3, <3>4, <3>5 DEF OwnPlace
    <2> QED
        BY <1>3, <2>1, <2>2
<1>9. WorkerHasQueue' /\ RegisteredIsServed'
    BY <1>1, <1>2, <1>4, <1>6 DEF WorkerHasQueue, RegisteredIsServed
<1>10. TakingOver'
    BY <1>1, <1>2, <1>4 DEF TakingOver
<1>11. DepartureIsCounted'
    BY <1>1, <1>5 DEF DepartureIsCounted
<1> QED
    BY <1>7, <1>8, <1>9, <1>10, <1>11

LEMMA TakeOverKeepsManager ==
    ASSUME TypeOK, ManagerInv, NEW s \in Sockets, TakeOver(s)
    PROVE  ManagerInv'
<1> USE DEF ManagerInv
<1>0. PICK d, o : d = endpoint[s].device /\ o = edge[d]
    OBVIOUS
<1>1. /\ d \in Devices /\ o \in Sockets /\ Registered(o) /\ endpoint[s].at = "checked"
      /\ ~Registered(s) /\ o # s /\ endpoint[o].at \in {"joined", "receiving", "failed"}
    BY <1>0 DEF TakeOver, TypeOK, Endpoint, Registered, RegisteredPhase
<1>2. /\ endpoint'[s].at = "takingOver" /\ endpoint'[s].old = o /\ endpoint'[s].device = d
      /\ \A u \in Sockets \ {s} : endpoint'[u] = endpoint[u]
      /\ alive' = alive \ {o}
    BY <1>0 DEF TakeOver, TypeOK, Endpoint
<1>3. /\ queue'[s] = <<>> /\ worker'[s] = "running"
      /\ \A u \in Sockets \ {s} : queue'[u] = queue[u] /\ worker'[u] = worker[u]
    BY DEF TakeOver, Serve, TypeOK
<1>4. edge' = [edge EXCEPT ![d] = None] /\ dashboards' = dashboards
    BY <1>0 DEF TakeOver
<1>5. /\ ~Registered(o)'
      /\ \A u \in Sockets : Registered(u)' => Registered(u)
      /\ \A u \in Sockets \ {o} : Registered(u) => Registered(u)'
    <2>1. o \notin dashboards /\ \A e \in Devices : edge[e] = o => e = d
        BY <1>0, <1>1, ConnectionsAssumption DEF OwnPlace
    <2> QED
        BY <1>0, <1>1, <1>4, <2>1, ConnectionsAssumption DEF Registered, TypeOK
<1>6. /\ ghost'.overwritten = ghost.overwritten /\ ghost'.uncounted = ghost.uncounted \cup {o}
      /\ ghost.uncounted \subseteq Sockets
    BY <1>0, HistoryOfRaces DEF TakeOver, TypeOK, Ghosts
<1>7. <<>> # None
    BY EmptyQueue
<1>8. RegisteredPhase' /\ NotYetServed'
    BY <1>1, <1>2, <1>3, <1>5 DEF RegisteredPhase, NotYetServed
<1>9. JoinedIsRegistered'
    BY <1>1, <1>2, <1>3, <1>5, <1>6 DEF JoinedIsRegistered
<1>10. OwnPlace'
    <2>1. s \notin dashboards /\ \A e \in Devices : edge[e] # s
        BY <1>1 DEF Registered
    <2> QED
        BY <1>2, <1>4, <2>1 DEF OwnPlace, TypeOK
<1>11. WorkerHasQueue' /\ RegisteredIsServed'
    BY <1>1, <1>2, <1>3, <1>5, <1>7 DEF WorkerHasQueue, RegisteredIsServed
<1>12. TakingOver'
    BY <1>1, <1>2, <1>3, <1>5 DEF TakingOver
<1>13. DepartureIsCounted'
    BY <1>1, <1>2, <1>6 DEF DepartureIsCounted
<1> QED
    BY <1>8, <1>9, <1>10, <1>11, <1>12, <1>13

LEMMA CompleteTakeOverKeepsManager ==
    ASSUME TypeOK, ManagerInv, NEW s \in Sockets, CompleteTakeOver(s)
    PROVE  ManagerInv'
<1> USE DEF ManagerInv
<1>0. PICK d, o : d = endpoint[s].device /\ o = endpoint[s].old
    OBVIOUS
<1>1. /\ d \in Devices /\ o \in Sockets /\ ~Registered(o) /\ ~Registered(s)
      /\ endpoint[s].at = "takingOver" /\ o # s
      /\ endpoint[o].at \notin {"new", "checked", "takingOver"}
      /\ queue[s] = <<>> /\ worker[s] = "running"
    BY <1>0 DEF CompleteTakeOver, TakingOver, RegisteredPhase
<1>2. /\ endpoint'[s].at = "joined" /\ endpoint'[s].device = d
      /\ \A u \in Sockets \ {s} : endpoint'[u] = endpoint[u]
      /\ UNCHANGED alive
    BY <1>0 DEF CompleteTakeOver, TypeOK, Endpoint
<1>3. /\ queue'[o] = None /\ worker'[o] # "running"
      /\ \A u \in Sockets \ {o} : queue'[u] = queue[u] /\ worker'[u] = worker[u]
      /\ worker[o] = "cancelled" => worker'[o] = "cancelled"
      /\ worker[o] = "running" => worker'[o] = "cancelled"
      /\ worker'[o] = "closing" => worker[o] = "closing"
    BY <1>0, <1>1 DEF CompleteTakeOver, TypeOK
<1>4. edge' = [edge EXCEPT ![d] = s] /\ dashboards' = dashboards
    BY <1>0 DEF CompleteTakeOver
<1>5. /\ Registered(s)'
      /\ \A u \in Sockets \ {s} : Registered(u)' => Registered(u)
      /\ \A u \in Sockets : Registered(u) => Registered(u)' \/ u = edge[d]
    BY <1>1, <1>4 DEF Registered, TypeOK
<1>6. /\ ghost'.overwritten = ghost.overwritten \cup ({edge[d]} \ {None})
      /\ ghost'.uncounted = ghost.uncounted \cup Left
      /\ ghost.uncounted \subseteq Sockets
    BY <1>0 DEF CompleteTakeOver, RegisteredNow, TypeOK, Ghosts
<1>7. <<>> # None
    BY EmptyQueue
<1>8. RegisteredPhase' /\ NotYetServed'
    BY <1>1, <1>2, <1>3, <1>5 DEF RegisteredPhase, NotYetServed
<1>9. JoinedIsRegistered'
    <2> SUFFICES ASSUME NEW u \in Sockets, endpoint'[u].at \in {"joined", "receiving"}, u \in alive'
                 PROVE  Registered(u)' \/ u \in ghost'.overwritten \/ worker'[u] = "cancelled"
        BY DEF JoinedIsRegistered
    <2>1. CASE u = s
        BY <1>5, <2>1
    <2>2. CASE u # s
        <3>1. Registered(u) \/ u \in ghost.overwritten \/ worker[u] = "cancelled"
            BY <1>2, <2>2 DEF JoinedIsRegistered
        <3>2. worker[u] = "cancelled" => worker'[u] = "cancelled"
            BY <1>3
        <3>3. Registered(u) => Registered(u)' \/ u \in ghost'.overwritten
            BY <1>5, <1>6, ConnectionsAssumption
        <3> QED
            BY <1>6, <3>1, <3>2, <3>3
    <2> QED
        BY <2>1, <2>2
<1>10. OwnPlace'
    <2>1. s \notin dashboards
        BY <1>1 DEF Registered
    <2> QED
        BY <1>1, <1>2, <1>4, <2>1 DEF OwnPlace, TypeOK, Registered
<1>11. WorkerHasQueue' /\ RegisteredIsServed'
    BY <1>1, <1>2, <1>3, <1>5, <1>7 DEF WorkerHasQueue, RegisteredIsServed
<1>12. TakingOver'
    BY <1>1, <1>2, <1>3, <1>5 DEF TakingOver
<1>13. DepartureIsCounted'
    BY <1>1, <1>2, <1>6 DEF DepartureIsCounted, RegisteredPhase, Left
<1> QED
    BY <1>8, <1>9, <1>10, <1>11, <1>12, <1>13

LEMMA ReceiveEndsKeepsManager ==
    ASSUME TypeOK, ManagerInv, NEW s \in Sockets, ReceiveEnds(s)
    PROVE  ManagerInv'
<1> USE DEF ManagerInv
<1>1. /\ endpoint[s].at = "receiving" /\ endpoint'[s].at = "leaving"
      /\ \A u \in Sockets \ {s} : endpoint'[u] = endpoint[u]
      /\ endpoint'[s].device = endpoint[s].device
      /\ UNCHANGED alive /\ s \notin alive
    BY DEF ReceiveEnds, Arrive, TypeOK, Endpoint
<1>2. /\ queue'[s] = None /\ worker'[s] # "running"
      /\ \A u \in Sockets \ {s} : queue'[u] = queue[u] /\ worker'[u] = worker[u]
    BY DEF ReceiveEnds, Disconnect, TypeOK
<1>3. /\ dashboards' = dashboards \ {s}
      /\ \A d \in Devices : edge'[d] = IF edge[d] = s THEN None ELSE edge[d]
    BY DEF ReceiveEnds, Disconnect, WithoutSockets, TypeOK
<1>4. \A u \in Sockets : Registered(u)' <=> Registered(u) /\ u # s
    BY <1>3, ConnectionsAssumption DEF Registered
<1>5. /\ ghost'.overwritten = ghost.overwritten
      /\ ghost'.uncounted = ghost.uncounted \cup Left
      /\ ghost.uncounted \subseteq Sockets
    BY HistoryOfRaces DEF ReceiveEnds, TypeOK, Ghosts
<1>6. RegisteredPhase' /\ NotYetServed' /\ JoinedIsRegistered'
    BY <1>1, <1>2, <1>4, <1>5 DEF RegisteredPhase, NotYetServed, JoinedIsRegistered
<1>7. OwnPlace'
    BY <1>1, <1>3 DEF OwnPlace, TypeOK
<1>8. WorkerHasQueue' /\ RegisteredIsServed'
    BY <1>1, <1>2, <1>4 DEF WorkerHasQueue, RegisteredIsServed
<1>9. TakingOver'
    BY <1>1, <1>2, <1>4 DEF TakingOver
<1>10. DepartureIsCounted'
    BY <1>1, <1>5 DEF DepartureIsCounted, RegisteredPhase, Left
<1> QED
    BY <1>6, <1>7, <1>8, <1>9, <1>10

LEMMA WorkerKeepsManager ==
    ASSUME TypeOK, ManagerInv, NEW s \in Sockets, WorkerSend(s) \/ WorkerStops(s) \/ WorkerEnds(s)
    PROVE  ManagerInv'
<1> USE DEF ManagerInv
<1>1. UNCHANGED endpoint /\ alive' \subseteq alive
    BY DEF WorkerSend, WorkerStops, WorkerEnds
<1>2. \A u \in Sockets \ {s} : queue'[u] = queue[u] /\ worker'[u] = worker[u]
    BY DEF WorkerSend, WorkerStops, WorkerEnds, TypeOK
<1>3. \/ queue'[s] # None /\ worker'[s] = "running" /\ UNCHANGED <<worker, edge, dashboards, ghost>>
      \/ /\ worker'[s] = "closing" /\ s \notin alive' /\ UNCHANGED <<queue, edge, dashboards, ghost>>
         /\ worker[s] \in {"running", "cancelled"}
      \/ /\ worker'[s] = "done" /\ dashboards' = dashboards \ {s}
         /\ \A d \in Devices : edge'[d] = IF edge[d] = s THEN None ELSE edge[d]
         /\ ghost'.overwritten = ghost.overwritten /\ ghost'.uncounted = ghost.uncounted \cup Left
         /\ s \notin alive'
    <2>1. CASE WorkerSend(s)
        <3>1. queue[s] \in Seq(Event) /\ queue[s] # <<>>
            BY <2>1 DEF WorkerSend, WorkerHasQueue, TypeOK
        <3>2. Tail(queue[s]) \in Seq(Event)
            BY <3>1, HeadTailProperties
        <3>3. queue'[s] = Tail(queue[s])
            BY <2>1 DEF WorkerSend, TypeOK
        <3> QED
            BY <2>1, <3>2, <3>3, ConnectionsAssumption DEF WorkerSend
    <2>2. CASE WorkerStops(s)
        BY <2>2 DEF WorkerStops, Stopping, TypeOK
    <2>3. CASE WorkerEnds(s)
        BY <2>3, HistoryOfRaces DEF WorkerEnds, WorkerHasQueue, WithoutSockets, TypeOK
    <2> QED
        BY <2>1, <2>2, <2>3
<1>4. \A u \in Sockets \ {s} : Registered(u)' <=> Registered(u)
    BY <1>3, ConnectionsAssumption DEF Registered
<1>5. \/ Registered(s)' <=> Registered(s)
      \/ ~Registered(s)' /\ s \notin alive'
    BY <1>3, ConnectionsAssumption DEF Registered
<1>6. \A u \in Sockets : Registered(u)' => Registered(u)
    BY <1>3, ConnectionsAssumption DEF Registered
<1>7. endpoint[s].at \notin {"new", "checked", "takingOver"}
    BY DEF WorkerSend, WorkerStops, WorkerEnds, Stopping, NotYetServed, TakingOver
<1>8. ghost.uncounted \subseteq Sockets
    BY DEF TypeOK, Ghosts
<1>9. RegisteredPhase' /\ NotYetServed'
    BY <1>1, <1>2, <1>6, <1>7 DEF RegisteredPhase, NotYetServed
<1>10. JoinedIsRegistered'
    BY <1>1, <1>2, <1>3, <1>4, <1>5 DEF JoinedIsRegistered
<1>11. OwnPlace'
    BY <1>1, <1>3 DEF OwnPlace, TypeOK
<1>12. WorkerHasQueue' /\ RegisteredIsServed'
    <2>1. /\ worker'[s] = "running" => queue'[s] # None
          /\ worker'[s] = "closing" => s \notin alive'
        BY <1>3
    <2>2. Registered(s)' =>
            /\ queue'[s] # None
            /\ worker'[s] = "running" \/ (worker'[s] = "closing" /\ s \notin alive')
        BY <1>3, <1>6, ConnectionsAssumption DEF RegisteredIsServed, Registered
    <2> QED
        BY <1>1, <1>2, <1>6, <2>1, <2>2 DEF WorkerHasQueue, RegisteredIsServed
<1>13. TakingOver'
    BY <1>1, <1>2, <1>6, <1>7 DEF TakingOver
<1>14. DepartureIsCounted'
    BY <1>1, <1>3, <1>8 DEF DepartureIsCounted, RegisteredPhase, Left, Registered
<1> QED
    BY <1>9, <1>10, <1>11, <1>12, <1>13, <1>14


LEMMA SocketKeepsManager ==
    ASSUME IInv, NEW s \in Sockets, Socket(s)
    PROVE  ManagerInv'
<1> USE DEF IInv
<1>1. ASSUME NEW d \in Devices, CheckToken(s, d) PROVE ManagerInv'
    BY <1>1, CheckKeepsManager DEF CheckToken
<1>2. CASE CheckSession(s)
    BY <1>2, CheckKeepsManager DEF CheckSession
<1>3. CASE JoinDashboard(s) \/ JoinDevice(s)
    BY <1>3, JoinKeepsManager
<1>4. CASE TakeOver(s)
    BY <1>4, TakeOverKeepsManager
<1>5. CASE CompleteTakeOver(s)
    BY <1>5, CompleteTakeOverKeepsManager
<1>6. ghost.uncounted \subseteq Sockets
    BY DEF TypeOK, Ghosts
<1>7. \A at : Arrive(s, at) =>
        /\ endpoint'[s].at = at
        /\ endpoint'[s].device = endpoint[s].device /\ endpoint'[s].old = endpoint[s].old
        /\ \A u \in Sockets \ {s} : endpoint'[u] = endpoint[u]
    BY DEF Arrive, TypeOK, Endpoint
<1>8. CASE CheckQuorum(s)
    <2>1. Queued
        BY <1>8, ReceiversType, PutQueues, SameManager DEF CheckQuorum, Event, ManagerInv
    <2>2. ghost'.overwritten = ghost.overwritten /\ ghost'.uncounted = Left /\ UNCHANGED alive
        BY <1>8, HistoryOfRaces DEF CheckQuorum
    <2>3. \/ endpoint[s].at = "joined" /\ Arrive(s, "receiving")
          \/ endpoint[s].at = "leaving" /\ Arrive(s, "ended")
        BY <1>8 DEF CheckQuorum
    <2> QED
        BY <1>6, <1>7, <2>1, <2>2, <2>3, QueuedKeepsManager
<1>9. CASE CheckFails(s)
    BY <1>6, <1>7, <1>9, SameManager, QueuedKeepsManager DEF CheckFails
<1>10. CASE Drop(s)
    BY <1>6, <1>10, SameManager, QueuedKeepsManager DEF Drop
<1>11. CASE ReceiveEnds(s)
    BY <1>11, ReceiveEndsKeepsManager
<1>12. CASE WorkerSend(s) \/ WorkerStops(s) \/ WorkerEnds(s)
    BY <1>12, WorkerKeepsManager
<1> QED
    BY <1>1, <1>2, <1>3, <1>4, <1>5, <1>8, <1>9, <1>10, <1>11, <1>12 DEF Socket

LEMMA BroadcastQueues == ASSUME IInv, Broadcast PROVE Queued
BY ReceiversType, PutQueues DEF IInv, ManagerInv, Broadcast, Event

LEMMA OtherStepsKeepManager ==
    ASSUME IInv, Administration \/ Broadcast
    PROVE  ManagerInv'
<1> USE DEF IInv
<1>1. Queued /\ UNCHANGED <<endpoint, alive>>
    BY AdministrationQueues, BroadcastQueues DEF Broadcast
<1>2. /\ ghost.uncounted \subseteq Sockets
      /\ ghost'.overwritten = ghost.overwritten
      /\ ghost'.uncounted \subseteq ghost.uncounted \cup Left
    <2>1. \/ ghost' = ghost
          \/ \E L : ghost' = [ghost EXCEPT !.raced = L]
          \/ ghost' = [ghost EXCEPT !.uncounted = ghost.uncounted \cup Left]
        BY AdministrationQueues DEF Broadcast
    <2> QED
        BY <2>1, HistoryOfRaces DEF TypeOK, Ghosts
<1> QED
    BY <1>1, <1>2, QueuedKeepsManager

-----------------------------------------------------------------------------
(* Revocations and sockets.                                                *)

\* A request starts to revoke a device only when no socket is registered for it,
\* and the commit revokes no other device.
LEMMA RevocationStarts ==
    ASSUME IInv, Administration, NEW d \in Devices, BeingRevoked(d)', ~BeingRevoked(d)
    PROVE  edge'[d] = None
<1> USE DEF IInv
<1> DEFINE Revokes(h) == \/ txn[h].op \in {"wiping", "removing"} /\ txn[h].device = d
                         \/ txn[h].op = "enrolling" /\ txn[h].old = d
<1>1. device[d].status # "revoked" /\ \A h \in Handlers : ~Revokes(h)
    BY DEF BeingRevoked
<1>2. \/ device'[d].status = "revoked"
      \/ \E h \in Handlers :
            \/ txn'[h].op \in {"wiping", "removing"} /\ txn'[h].device = d
            \/ txn'[h].op = "enrolling" /\ txn'[h].old = d
    BY DEF BeingRevoked
<1>3. ASSUME NEW h \in Handlers, Finish(h), UNCHANGED device PROVE FALSE
    <2>1. \A g \in Handlers : txn'[g] = Idle \/ txn'[g] = txn[g]
        BY <1>3 DEF Finish, TypeOK
    <2> QED
        BY <1>1, <1>2, <1>3, <2>1 DEF Idle
<1>4. ASSUME NEW h \in Handlers, NEW e \in Devices \cup {None}, NEW t, ForceDisconnect(h, e, t),
             UNCHANGED device,
             \/ t.op \in {"wiping", "removing"} /\ t.device = e
             \/ t.op = "enrolling" /\ t.old = e
      PROVE  edge'[d] = None
    <2>1. CASE Finish(h)
        BY <1>3, <1>4, <2>1
    <2>2. CASE txn' = [txn EXCEPT ![h] = t] /\ (e # None => edge[e] = None) /\ UNCHANGED manager
        <3>1. txn'[h] = t /\ \A g \in Handlers \ {h} : txn'[g] = txn[g]
            BY <2>2 DEF TypeOK
        <3>2. e = d
            BY <1>1, <1>2, <1>4, <3>1
        <3> QED
            BY <2>2, <3>2, ConnectionsAssumption DEF manager
    <2> QED
        BY <1>4, <2>1, <2>2, ForceDisconnectQueues DEF ManagerInv
<1>5. ASSUME NEW h \in Handlers, NEW e \in Devices \cup {None}, Finish(h), device' = Revoke(e, device),
             e = d => Revokes(h)
      PROVE  FALSE
    <2>1. \A g \in Handlers : txn'[g] = Idle \/ txn'[g] = txn[g]
        BY <1>5 DEF Finish, TypeOK
    <2>2. device'[d].status = "revoked"
        BY <1>1, <1>2, <2>1 DEF Idle
    <2> QED
        BY <1>1, <1>5, <2>2, RevokeType
<1>6. ASSUME NEW h \in Handlers, NEW t \in Tokens, GenerateToken(h, t) PROVE FALSE
    BY <1>3, <1>6 DEF GenerateToken
<1>7. ASSUME NEW h \in Handlers, NEW l \in Legislators, NEW e \in Devices, BeginEnroll(h, l, e)
      PROVE  FALSE
    <2>1. txn'[h].op = "identifying" /\ \A g \in Handlers \ {h} : txn'[g] = txn[g]
        BY <1>7 DEF BeginEnroll, Begin, TypeOK
    <2> QED
        BY <1>1, <1>2, <1>7, <2>1 DEF BeginEnroll, rows
<1>8. ASSUME NEW h \in Handlers, RefuseIdentity(h) \/ Rollback(h) PROVE FALSE
    BY <1>3, <1>8 DEF RefuseIdentity, Rollback, rows
<1>9. ASSUME NEW h \in Handlers, ReplaceDevice(h) PROVE edge'[d] = None
    <2> DEFINE old == TheDevice(txn[h].legislator)
               t == [txn[h] EXCEPT !.op = "enrolling", !.old = old]
    <2>1. txn[h] \in EnrolTxn /\ old \in Devices \cup {None}
        BY <1>9, TxnByOp, TheDeviceType DEF ReplaceDevice, Enrolling
    <2>2. t.op = "enrolling" /\ t.old = old
        BY <2>1 DEF EnrolTxn
    <2>3. ForceDisconnect(h, old, t) /\ UNCHANGED device
        BY <1>9 DEF ReplaceDevice, rows
    <2> HIDE DEF old, t
    <2> QED
        BY <1>4, <2>1, <2>2, <2>3
<1>10. ASSUME NEW h \in Handlers, NEW e \in Devices, BeginWipe(h, e) PROVE edge'[d] = None
    <2> DEFINE t == [op |-> "wiping", device |-> e]
    <2>1. t.op \in {"wiping", "removing"} /\ t.device = e
        OBVIOUS
    <2>2. ForceDisconnect(h, e, t) /\ UNCHANGED device
        BY <1>10 DEF BeginWipe, rows
    <2> HIDE DEF t
    <2> QED
        BY <1>4, <2>1, <2>2
<1>11. ASSUME NEW h \in Handlers, NEW l \in Legislators, BeginRemove(h, l) PROVE edge'[d] = None
    <2> DEFINE t == [op |-> "removing", legislator |-> l, device |-> TheDevice(l)]
    <2>1. t.op \in {"wiping", "removing"} /\ t.device = TheDevice(l)
        OBVIOUS
    <2>2. ForceDisconnect(h, TheDevice(l), t) /\ UNCHANGED device
        BY <1>11 DEF BeginRemove, rows
    <2> HIDE DEF t
    <2> QED
        BY <1>4, <2>1, <2>2, TheDeviceType
<1>12. ASSUME NEW h \in Handlers, CommitWipe(h) \/ CommitRemove(h) PROVE FALSE
    <2>1. txn[h].device \in Devices \cup {None}
        BY <1>12, TxnByOp DEF CommitWipe, CommitRemove, WipeTxn, RemoveTxn
    <2>2. device' = Revoke(txn[h].device, device) /\ Finish(h)
          /\ txn[h].op \in {"wiping", "removing"}
        BY <1>12 DEF CommitWipe, CommitRemove
    <2> QED
        BY <1>5, <2>1, <2>2
<1>13. ASSUME NEW h \in Handlers, CommitEnroll(h) PROVE FALSE
    <2> DEFINE row == [status |-> "active", owner |-> txn[h].legislator,
                       enrolledWith |-> txn[h].token]
    <2>1. txn[h] \in EnrolTxn /\ txn[h].op = "enrolling"
        BY <1>13, TxnByOp DEF CommitEnroll, Enrolling
    <2>2. device' = [Revoke(txn[h].old, device) EXCEPT ![txn[h].device] = row] /\ Finish(h)
        BY <1>13 DEF CommitEnroll
    <2>3. txn[h].old \in Devices \cup {None} /\ txn[h].device \in Devices
        BY <2>1 DEF EnrolTxn
    <2>4. \A g \in Handlers : txn'[g] = Idle \/ txn'[g] = txn[g]
        BY <2>2 DEF Finish, TypeOK
    <2>5. device'[d].status = "revoked"
        BY <1>1, <1>2, <2>4 DEF Idle
    <2>6. device'[d].status = Revoke(txn[h].old, device)[d].status
        BY <2>2, <2>3, <2>5, RevokeType
    <2> QED
        BY <1>1, <2>1, <2>3, <2>5, <2>6, RevokeType
<1>14. ASSUME NEW h \in Handlers, NEW l \in Legislators, BeginGenerate(h, l) PROVE FALSE
    <2>1. txn'[h].op = "generating" /\ \A g \in Handlers \ {h} : txn'[g] = txn[g]
        BY <1>14 DEF BeginGenerate, Begin, TypeOK
    <2> QED
        BY <1>1, <1>2, <1>14, <2>1 DEF BeginGenerate, rows
<1> QED
    BY <1>6, <1>7, <1>8, <1>9, <1>10, <1>11, <1>12, <1>13, <1>14 DEF Administration

LEMMA NextKeepsLateIfRevoked ==
    ASSUME IInv, Next
    PROVE  LateIfRevoked'
<1> USE DEF IInv
<1>1. CASE Administration
    <2>1. Queued /\ ghost'.late = ghost.late
        <3>1. \/ ghost' = ghost
              \/ \E S : ghost' = [ghost EXCEPT !.raced = S]
              \/ ghost' = [ghost EXCEPT !.uncounted = ghost.uncounted \cup Left]
            BY <1>1, AdministrationQueues
        <3>2. ASSUME NEW S PROVE /\ [ghost EXCEPT !.raced = S].late = ghost.late
                                 /\ [ghost EXCEPT !.uncounted = S].late = ghost.late
            BY HistoryOfRaces
        <3>3. ghost'.late = ghost.late
            <4>1. CASE \E S : ghost' = [ghost EXCEPT !.raced = S]
                BY <3>2, <4>1
            <4>2. CASE ghost' = [ghost EXCEPT !.uncounted = ghost.uncounted \cup Left]
                BY <3>2, <4>2
            <4> QED
                BY <3>1, <4>1, <4>2
        <3> QED
            BY <1>1, <3>3, AdministrationQueues
    <2>2. \A d \in Devices : BeingRevoked(d)' => BeingRevoked(d) \/ edge'[d] = None
        BY <1>1, RevocationStarts
    <2> QED
        BY <2>1, <2>2 DEF LateIfRevoked, Queued
<1>2. CASE Broadcast \/ \E s \in Sockets : Socket(s)
    <2>1. UNCHANGED <<rows, txn>>
        BY <1>2 DEF Broadcast, Socket, CheckToken, CheckSession, JoinDashboard, JoinDevice, TakeOver,
            CompleteTakeOver, CheckQuorum, CheckFails, Drop, ReceiveEnds, WorkerSend,
            WorkerStops, WorkerEnds
    <2>2. \A d : BeingRevoked(d)' <=> BeingRevoked(d)
        BY <2>1 DEF BeingRevoked, rows
    <2>3. CASE \E s \in Sockets : JoinDevice(s) \/ CompleteTakeOver(s)
        <3>1. PICK s \in Sockets : JoinDevice(s) \/ CompleteTakeOver(s)
            BY <2>3
        <3>2. PICK d : d = endpoint[s].device
            OBVIOUS
        <3>3. edge' = [edge EXCEPT ![d] = s]
            BY <3>1, <3>2 DEF JoinDevice, CompleteTakeOver
        <3>4. ghost'.late = ghost.late \cup {t \in {s} : BeingRevoked(d)}
            <4>1. /\ RegisteredNow(s).late = ghost.late \cup {t \in {s} : BeingRevoked(d)}
                  /\ \A S, T : [RegisteredNow(s) EXCEPT !.overwritten = S, !.uncounted = T].late
                                = RegisteredNow(s).late
                BY <3>2 DEF RegisteredNow, TypeOK, Ghosts
            <4>2. \/ ghost' = RegisteredNow(s)
                  \/ \E S, T : ghost' = [RegisteredNow(s) EXCEPT !.overwritten = S, !.uncounted = T]
                BY <3>1 DEF JoinDevice, CompleteTakeOver
            <4> QED
                BY <4>1, <4>2
        <3> QED
            BY <2>2, <3>3, <3>4 DEF LateIfRevoked, TypeOK
    <2>4. CASE ~\E s \in Sockets : JoinDevice(s) \/ CompleteTakeOver(s)
        <3>1. \A d \in Devices : edge'[d] = edge[d] \/ edge'[d] = None
            <4>1. CASE Broadcast \/ \E s \in Sockets : CheckQuorum(s)
                <5>1. Queued
                    BY <4>1, BroadcastQueues, ReceiversType, PutQueues, SameManager
                        DEF CheckQuorum, Event, ManagerInv
                <5> QED
                    BY <5>1 DEF Queued
            <4>2. CASE \E s \in Sockets : TakeOver(s)
                BY <4>2 DEF TakeOver, TypeOK
            <4>3. CASE \E s \in Sockets : ReceiveEnds(s) \/ WorkerEnds(s)
                BY <4>3 DEF ReceiveEnds, WorkerEnds, Disconnect, WithoutSockets, TypeOK
            <4> QED
                BY <1>2, <2>4, <4>1, <4>2, <4>3 DEF Socket, CheckToken, CheckSession, JoinDashboard,
                    CheckFails, Drop, WorkerSend, WorkerStops, manager
        <3>2. ghost'.late = ghost.late
            <4>1. ghost' = ghost \/ \E S : ghost' = [ghost EXCEPT !.uncounted = S]
                BY <1>2, <2>4 DEF Broadcast, Socket, CheckToken, CheckSession, JoinDashboard, TakeOver,
                    CheckQuorum, CheckFails, Drop, ReceiveEnds, WorkerSend, WorkerStops, WorkerEnds
            <4>2. ASSUME NEW S PROVE [ghost EXCEPT !.uncounted = S].late = ghost.late
                BY HistoryOfRaces
            <4> QED
                BY <4>1, <4>2
        <3> QED
            BY <2>2, <3>1, <3>2 DEF LateIfRevoked
    <2> QED
        BY <2>3, <2>4
<1> QED
    BY <1>1, <1>2 DEF Next

-----------------------------------------------------------------------------
(* The invariant.                                                          *)

LEMMA Initially == ASSUME Init PROVE IInv
<1> USE DEF Init
<1>1. TypeOK
    BY ConnectionsAssumption DEF TypeOK, DeviceRow, NoDevice, Txn, Idle, Endpoint, NewEndpoint, Ghosts
<1>2. RowsInv
    BY DEF RowsInv, Enrolments, TokensAreFresh, TokenEnrolsOnce, RemovedHasNoDevice, Enrolling, Idle
<1>3. \A s \in Sockets : ~Registered(s)
    BY ConnectionsAssumption DEF Registered
<1>4. \A s \in Sockets : endpoint[s].at = "new" /\ queue[s] = None /\ worker[s] = "none"
    BY DEF NewEndpoint
<1>5. ManagerInv
    BY <1>3, <1>4 DEF ManagerInv, RegisteredPhase, NotYetServed, OwnPlace, WorkerHasQueue, TakingOver,
        RegisteredIsServed, JoinedIsRegistered, DepartureIsCounted
<1>6. LateIfRevoked
    BY DEF LateIfRevoked
<1> QED
    BY <1>1, <1>2, <1>5, <1>6 DEF IInv

LEMMA BroadcastTypeOK == ASSUME IInv, Broadcast PROVE TypeOK'
<1>1. ghost' \in Ghosts
    BY LeftType DEF Broadcast, IInv, TypeOK, Ghosts
<1> QED
    BY <1>1, BroadcastQueues DEF Broadcast, Queued, IInv, rows, TypeOK

LEMMA StutterKeepsInvariant == ASSUME IInv, UNCHANGED vars PROVE IInv'
<1>1. TypeOK'
    BY DEF IInv, TypeOK, vars, rows, manager
<1>2. RowsInv'
    BY SameRows DEF IInv, vars
<1>3. ManagerInv' /\ LateIfRevoked'
    BY DEF IInv, vars, rows, manager, ManagerInv, RegisteredPhase, NotYetServed, OwnPlace,
        WorkerHasQueue, TakingOver, RegisteredIsServed, JoinedIsRegistered, DepartureIsCounted,
        LateIfRevoked, BeingRevoked, Registered
<1> QED
    BY <1>1, <1>2, <1>3 DEF IInv

LEMMA NextKeepsInvariant == ASSUME IInv, Next PROVE IInv'
<1>1. TypeOK'
    BY SocketTypeOK, AdministrationTypeOK, BroadcastTypeOK DEF Next
<1>2. RowsInv'
    BY AdministrationKeepsRows, OtherStepsKeepRows DEF Next
<1>3. ManagerInv'
    BY SocketKeepsManager, OtherStepsKeepManager DEF Next
<1> QED
    BY <1>1, <1>2, <1>3, NextKeepsLateIfRevoked DEF IInv

\* The inductive invariant, for any number of sockets, devices and requests.
THEOREM Invariance == Spec => []IInv
BY Initially, NextKeepsInvariant, StutterKeepsInvariant, PTL DEF Spec

\* The rows, the maps and the tasks keep their types, and a queue its limit.
THEOREM TypeCorrect == Spec => []TypeOK
<1>1. IInv => TypeOK
    BY DEF IInv
<1> QED
    BY <1>1, Invariance, PTL

\* A provisioning token enrols one device and a legislator has one active device,
\* for any number of enrolments at once: the row of the legislator is locked from
\* the reading of the token to the commit that burns it.
THEOREM EnrolledOnce == Spec => []TokenEnrolsOnce
<1>1. IInv => TokenEnrolsOnce
    BY DEF IInv, RowsInv
<1> QED
    BY <1>1, Invariance, PTL

\* A removed legislator keeps an active device only if an enrolment committed
\* between the unlocked reading of the device and the removal.
THEOREM RemovalIsComplete == Spec => []RemovedHasNoDevice
<1>1. IInv => RemovedHasNoDevice
    BY DEF IInv, RowsInv
<1> QED
    BY <1>1, Invariance, PTL

\* Every registered socket has a queue and a worker that empties it or is about to
\* unregister it.
THEOREM RegisteredSocketsAreServed == Spec => []RegisteredIsServed
<1>1. IInv => RegisteredIsServed
    BY DEF IInv, ManagerInv
<1> QED
    BY <1>1, Invariance, PTL

\* An open socket is out of the maps only if a take over wrote over it, or its
\* queue overflowed.
THEOREM OpenSocketsAreRegistered == Spec => []OpenIsRegistered
<1>1. IInv => OpenIsRegistered
    BY DEF IInv, ManagerInv, JoinedIsRegistered, OpenIsRegistered
<1> QED
    BY <1>1, Invariance, PTL

\* A revoked device is connected only by a socket that was registered after the
\* revoking request had looked for one.
THEOREM RevokedAreLate == Spec => []RevokedOnlyIfLate
<1>1. IInv => RevokedOnlyIfLate
    BY DEF IInv, LateIfRevoked, RevokedOnlyIfLate, BeingRevoked
<1> QED
    BY <1>1, Invariance, PTL

\* The endpoint of a socket that left the maps does not end before the quorum of
\* connected legislators is checked again.
THEOREM DeparturesAreCounted == Spec => []DepartureIsCounted
<1>1. IInv => DepartureIsCounted
    BY DEF IInv, ManagerInv
<1> QED
    BY <1>1, Invariance, PTL


LEMMA AppendKeepsCommand ==
    ASSUME TypeOK, Queued, NEW s \in Sockets, CommandQueued(s), ~CommandQueued(s)'
    PROVE  worker'[s] # "running"
<1>1. /\ queue[s] # None /\ queue[s] \in Seq(Event)
      /\ \E i \in 1 .. Len(queue[s]) : queue[s][i] = "DEVICE_WIPE_COMMAND"
    BY DEF CommandQueued, TypeOK
<1>2. queue'[s] # queue[s]
    BY <1>1 DEF CommandQueued
<1>3. ASSUME NEW event \in Event, queue'[s] # None, queue'[s] = Append(queue[s], event) PROVE FALSE
    <2>1. PICK i \in 1 .. Len(queue[s]) : queue[s][i] = "DEVICE_WIPE_COMMAND"
        BY <1>1
    <2>2. /\ i \in 1 .. Len(queue'[s]) /\ queue'[s][i] = queue[s][i]
        BY <1>1, <1>3, <2>1, AppendProperties, LenProperties
    <2> QED
        BY <1>3, <2>1, <2>2 DEF CommandQueued
<1> QED
    BY <1>2, <1>3 DEF Queued

\* A queued wipe command leaves the queue by being sent, for queues of any
\* length, unless the socket is broken or its worker is stopped.
THEOREM WipesAreSent == Spec => WipeIsNotLost
<1> DEFINE NotLost(s) == CommandQueued(s) /\ ~CommandQueued(s)' =>
                            queue'[s] = Tail(queue[s]) \/ s \notin alive \/ worker'[s] # "running"
<1>1. ASSUME IInv, [Next]_vars, NEW s \in Sockets PROVE NotLost(s)
    <2> SUFFICES ASSUME CommandQueued(s), ~CommandQueued(s)', s \in alive
                 PROVE  queue'[s] = Tail(queue[s]) \/ worker'[s] # "running"
        OBVIOUS
    <2>1. TypeOK /\ ManagerInv
        BY <1>1 DEF IInv
    <2>2. queue[s] # None /\ queue'[s] # queue[s]
        BY DEF CommandQueued
    <2>3. CASE Administration \/ Broadcast
        <3>1. Queued
            BY <1>1, <2>3, AdministrationQueues, BroadcastQueues
        <3> QED
            BY <2>1, <3>1, AppendKeepsCommand
    <2>4. ASSUME NEW u \in Sockets, Socket(u)
          PROVE  queue'[s] = Tail(queue[s]) \/ worker'[s] # "running"
        <3>1. CASE CheckQuorum(u)
            <4>1. Queued
                BY <2>1, <3>1, ReceiversType, PutQueues, SameManager DEF CheckQuorum, Event, ManagerInv
            <4> QED
                BY <2>1, <4>1, AppendKeepsCommand
        <3>2. CASE JoinDashboard(u) \/ JoinDevice(u) \/ TakeOver(u)
            <4>1. queue[u] = None
                BY <2>1, <3>2 DEF JoinDashboard, JoinDevice, TakeOver, ManagerInv, NotYetServed
            <4>2. queue' = [queue EXCEPT ![u] = <<>>]
                BY <3>2 DEF JoinDashboard, JoinDevice, TakeOver, Serve
            <4> QED
                BY <2>1, <2>2, <4>1, <4>2 DEF TypeOK
        <3>3. CASE CompleteTakeOver(u)
            <4>1. endpoint[u].old \in Sockets
                BY <2>1, <3>3 DEF CompleteTakeOver, ManagerInv, TakingOver
            <4> QED
                BY <2>1, <2>2, <3>3, <4>1 DEF CompleteTakeOver, TypeOK
        <3>4. CASE ReceiveEnds(u) \/ WorkerSend(u) \/ WorkerStops(u) \/ WorkerEnds(u)
            BY <2>1, <2>2, <3>4 DEF ReceiveEnds, Disconnect, WorkerSend, WorkerStops, WorkerEnds,
                TypeOK
        <3> QED
            BY <2>2, <2>4, <3>1, <3>2, <3>3, <3>4 DEF Socket, CheckToken, CheckSession, CheckFails,
                Drop, manager
    <2> QED
        BY <1>1, <2>2, <2>3, <2>4 DEF Next, vars, manager
<1>2. IInv /\ [Next]_vars =>
        [\A s \in Sockets : CommandQueued(s) /\ ~CommandQueued(s)' =>
            queue'[s] = Tail(queue[s]) \/ s \notin alive \/ worker'[s] # "running"]_vars
    BY <1>1
<1> QED
    BY <1>2, Invariance, PTL DEF Spec, WipeIsNotLost
=============================================================================
