---------------------------- MODULE Connections -----------------------------
(***************************************************************************)
(* Terminals and their sockets (orchestrator: core/websocket.py,           *)
(* websocket_router.py, device_service.py, legislator_service.py).         *)
(*                                                                         *)
(* The ConnectionManager lives in the memory of one asyncio process: what  *)
(* happens between two awaits is one step.  A socket is served by two      *)
(* tasks, the endpoint that receives and the worker that sends from the    *)
(* socket's queue.  Devices and provisioning tokens are rows; a request    *)
(* that revokes a device tells its socket before it commits.               *)
(***************************************************************************)
EXTENDS Naturals, Sequences, FiniteSets

CONSTANTS
    Legislators,
    Devices,     \* rows of devices; a device is identified by its device_token
    Tokens,      \* provisioning tokens
    Sockets,     \* bound: sockets opened, dashboards included
    Handlers,    \* bound: administrative requests in flight at once
    MaxQueue,    \* places in the queue of a socket, 1000 in the code
    None

Event == {"EVENT", "DEVICE_WIPE_COMMAND"}

ASSUME ConnectionsAssumption ==
    /\ IsFiniteSet(Legislators) /\ IsFiniteSet(Devices)
    /\ MaxQueue \in Nat \ {0}
    /\ None \notin Legislators \cup Devices \cup Tokens \cup Sockets
    /\ None \notin Seq(Event)

VARIABLES
    provisioning,  \* legislators.provisioning_token
    removed,       \* the soft-deleted legislators
    device,        \* devices, with the token they were enrolled with
    txn,           \* the administrative request each handler serves
    edge,          \* _active_edge_devices
    dashboards,    \* _active_dashboards
    queue,         \* the queue of each socket in _queues, None without one
    worker,        \* the sending task of each socket
    endpoint,      \* the receiving task of each socket: ws_state
    alive,         \* the sockets whose two ends are open
    ghost          \* history: see Ghosts

rows == <<provisioning, removed, device>>
manager == <<edge, dashboards, queue, worker>>
vars == <<rows, txn, manager, endpoint, alive, ghost>>

NoDevice == [status |-> "none", owner |-> None, enrolledWith |-> None]
DeviceRow == {NoDevice} \cup
    [status: {"active", "revoked"}, owner: Legislators, enrolledWith: Tokens]

\* A new socket belongs to no one yet; a dashboard has no device.
NewEndpoint == [at |-> "new", device |-> None, old |-> None]
Endpoint ==
    [at: {"new", "checked", "takingOver", "joined", "receiving", "leaving", "ended", "failed"},
     device: Devices \cup {None}, old: Sockets \cup {None}]

Idle == [op |-> "idle"]
Txn ==
    {Idle}
    \cup [op: {"identifying", "enrolling"}, legislator: Legislators, token: Tokens,
          device: Devices, old: Devices \cup {None}]
    \cup [op: {"generating"}, legislator: Legislators]
    \cup [op: {"wiping"}, device: Devices]
    \cup [op: {"removing"}, legislator: Legislators, device: Devices \cup {None}]

\* overwritten: sockets whose registration another connect overwrote.
\* late: sockets registered while a revocation of their device was on its way
\*       or over.
\* raced: legislators removed by a request that had read their device before an
\*       enrolment committed.
\* uncounted: sockets that left the map with no check of the quorum since.
Ghosts == [overwritten: SUBSET Sockets, late: SUBSET Sockets,
           raced: SUBSET Legislators, uncounted: SUBSET Sockets]

Init ==
    /\ provisioning = [l \in Legislators |-> None]
    /\ removed = {}
    /\ device = [d \in Devices |-> NoDevice]
    /\ txn = [h \in Handlers |-> Idle]
    /\ edge = [d \in Devices |-> None]
    /\ dashboards = {}
    /\ queue = [s \in Sockets |-> None]
    /\ worker = [s \in Sockets |-> "none"]
    /\ endpoint = [s \in Sockets |-> NewEndpoint]
    /\ alive = Sockets
    /\ ghost = [overwritten |-> {}, late |-> {}, raced |-> {}, uncounted |-> {}]

-----------------------------------------------------------------------------
(* The connection manager.                                                 *)

Registered(s) == s \in dashboards \/ \E d \in Devices : edge[d] = s

\* Mutation of WithoutSockets: the token of the socket leaves the map, whoever
\* is registered for it.
WithoutTokens(S) ==
    [d \in Devices |-> IF \E s \in S : endpoint[s].device = d THEN None ELSE edge[d]]

\* The map without the sockets S: disconnect compares the sockets, not the tokens.
WithoutSockets(S) == [d \in Devices |-> IF edge[d] \in S THEN None ELSE edge[d]]

\* disconnect of each socket of S: its worker is cancelled, its queue dropped.
Disconnect(S) ==
    /\ worker' = [s \in Sockets |->
            IF s \in S /\ worker[s] = "running" THEN "cancelled" ELSE worker[s]]
    /\ queue' = [s \in Sockets |-> IF s \in S THEN None ELSE queue[s]]
    /\ dashboards' = dashboards \ S
    /\ edge' = WithoutSockets(S)

\* Mutation of Put: the queue has no limit.
PutWithoutLimit(S, event) ==
    /\ queue' = [s \in Sockets |->
            IF s \in S /\ queue[s] # None THEN Append(queue[s], event) ELSE queue[s]]
    /\ UNCHANGED <<edge, dashboards, worker>>

\* Mutation of Put: a full queue drops its oldest event.
PutDroppingOldest(S, event) ==
    /\ queue' = [s \in Sockets |->
            IF s \notin S \/ queue[s] = None THEN queue[s]
            ELSE IF Len(queue[s]) = MaxQueue THEN Append(Tail(queue[s]), event)
            ELSE Append(queue[s], event)]
    /\ UNCHANGED <<edge, dashboards, worker>>

\* put_nowait for each socket of S; a socket with a full queue is disconnected.
Put(S, event) ==
    LET full == {s \in S : queue[s] # None /\ Len(queue[s]) = MaxQueue}
        open == {s \in S \ full : queue[s] # None}
    IN
    /\ worker' = [s \in Sockets |->
            IF s \in full /\ worker[s] = "running" THEN "cancelled" ELSE worker[s]]
    /\ queue' = [s \in Sockets |->
            IF s \in full THEN None
            ELSE IF s \in open THEN Append(queue[s], event)
            ELSE queue[s]]
    /\ dashboards' = dashboards \ full
    /\ edge' = WithoutSockets(full)

Left == {s \in Sockets : Registered(s) /\ ~Registered(s)'}

Receivers == dashboards \cup ({edge[d] : d \in Devices} \ {None})

\* An event of a round, a session or an agenda item.
Broadcast ==
    /\ Receivers # {}
    /\ Put(Receivers, "EVENT")
    /\ ghost' = [ghost EXCEPT !.uncounted = @ \cup Left]
    /\ UNCHANGED <<rows, txn, endpoint, alive>>

\* The worker takes the first event and sends it.
WorkerSend(s) ==
    /\ worker[s] = "running"
    /\ queue[s] # <<>>
    /\ s \in alive
    /\ queue' = [queue EXCEPT ![s] = Tail(@)]
    /\ UNCHANGED <<rows, txn, edge, dashboards, worker, endpoint, alive, ghost>>

\* A send on a broken socket raises; a cancelled worker stops where it waits.
Stopping(s) ==
    \/ worker[s] = "cancelled"
    \/ worker[s] = "running" /\ queue[s] # <<>> /\ s \notin alive

\* The finally of the worker: the close of the socket is awaited ...
WorkerStops(s) ==
    /\ Stopping(s)
    /\ alive' = alive \ {s}
    /\ worker' = [worker EXCEPT ![s] = "closing"]
    /\ UNCHANGED <<rows, txn, edge, dashboards, queue, endpoint, ghost>>

\* Mutation of WorkerEnds: the socket is closed and not unregistered.
WorkerEndsSilently(s) ==
    /\ worker[s] = "closing"
    /\ worker' = [worker EXCEPT ![s] = "done"]
    /\ UNCHANGED <<rows, txn, edge, dashboards, queue, endpoint, alive, ghost>>

\* ... and then it is disconnected.
WorkerEnds(s) ==
    /\ worker[s] = "closing"
    /\ worker' = [worker EXCEPT ![s] = "done"]
    /\ queue' = [queue EXCEPT ![s] = None]
    /\ dashboards' = dashboards \ {s}
    /\ edge' = WithoutSockets({s})
    /\ ghost' = [ghost EXCEPT !.uncounted = @ \cup Left]
    /\ UNCHANGED <<rows, txn, endpoint, alive>>

-----------------------------------------------------------------------------
(* ws_state: a socket from its handshake to its end.                       *)

Arrive(s, at) == endpoint' = [endpoint EXCEPT ![s].at = at]

\* The token is looked up in a database session that ends before connect.
CheckToken(s, d) ==
    /\ endpoint[s].at = "new"
    /\ device[d].status = "active"
    /\ endpoint' = [endpoint EXCEPT ![s].at = "checked", ![s].device = d]
    /\ UNCHANGED <<rows, txn, manager, alive, ghost>>

CheckSession(s) ==
    /\ endpoint[s].at = "new"
    /\ Arrive(s, "checked")
    /\ UNCHANGED <<rows, txn, manager, alive, ghost>>

Serve(s) ==
    /\ queue' = [queue EXCEPT ![s] = <<>>]
    /\ worker' = [worker EXCEPT ![s] = "running"]

\* connect for a dashboard, after accept.
JoinDashboard(s) ==
    /\ endpoint[s].at = "checked"
    /\ endpoint[s].device = None
    /\ Serve(s)
    /\ dashboards' = dashboards \cup {s}
    /\ Arrive(s, "joined")
    /\ UNCHANGED <<rows, txn, edge, alive, ghost>>

\* Revoked, or about to be: its request has looked for the socket already.
BeingRevoked(d) ==
    \/ device[d].status = "revoked"
    \/ \E h \in Handlers :
        \/ txn[h].op \in {"wiping", "removing"} /\ txn[h].device = d
        \/ txn[h].op = "enrolling" /\ txn[h].old = d

RegisteredNow(s) ==
    [ghost EXCEPT !.late = @ \cup {t \in {s} : BeingRevoked(endpoint[s].device)}]

\* connect for a terminal whose token is not in the map.
JoinDevice(s) ==
    LET d == endpoint[s].device IN
    /\ endpoint[s].at = "checked"
    /\ d # None
    /\ edge[d] = None
    /\ Serve(s)
    /\ edge' = [edge EXCEPT ![d] = s]
    /\ Arrive(s, "joined")
    /\ ghost' = RegisteredNow(s)
    /\ UNCHANGED <<rows, txn, dashboards, alive>>

\* connect for a token that is in the map: the older socket leaves the map, and
\* its close is awaited ...
TakeOver(s) ==
    LET d == endpoint[s].device IN
    /\ endpoint[s].at = "checked"
    /\ d # None
    /\ edge[d] # None
    /\ Serve(s)
    /\ edge' = [edge EXCEPT ![d] = None]
    /\ alive' = alive \ {edge[d]}
    /\ endpoint' = [endpoint EXCEPT ![s].at = "takingOver", ![s].old = edge[d]]
    /\ ghost' = [ghost EXCEPT !.uncounted = @ \cup {edge[d]}]
    /\ UNCHANGED <<rows, txn, dashboards>>

\* ... then it is disconnected, and the newer one registered, whoever registered
\* meanwhile.
CompleteTakeOver(s) ==
    LET d == endpoint[s].device
        old == endpoint[s].old
    IN
    /\ endpoint[s].at = "takingOver"
    /\ worker' = [worker EXCEPT ![old] = IF @ = "running" THEN "cancelled" ELSE @]
    /\ queue' = [queue EXCEPT ![old] = None]
    /\ edge' = [edge EXCEPT ![d] = s]
    /\ endpoint' = [endpoint EXCEPT ![s].at = "joined", ![s].old = None]
    /\ UNCHANGED <<rows, txn, dashboards, alive>>
    /\ ghost' = [RegisteredNow(s) EXCEPT !.overwritten = @ \cup ({edge[d]} \ {None}),
                                         !.uncounted = @ \cup Left]

WarnBelowQuorum(connected, members) == connected < members \div 2 + 1

Connected == {device[d].owner : d \in {e \in Devices : edge[e] # None}}

\* check_quorum_and_warn, after the socket joined or left.
CheckQuorum(s) ==
    /\ endpoint[s].at \in {"joined", "leaving"}
    /\ Arrive(s, IF endpoint[s].at = "joined" THEN "receiving" ELSE "ended")
    /\ IF WarnBelowQuorum(Cardinality(Connected), Cardinality(Legislators \ removed))
       THEN Put(Receivers, "EVENT")
       ELSE UNCHANGED manager
    /\ ghost' = [ghost EXCEPT !.uncounted = Left]
    /\ UNCHANGED <<rows, txn, alive>>

\* Its query fails: the endpoint ends with an exception, and nothing is
\* disconnected.
CheckFails(s) ==
    /\ endpoint[s].at \in {"joined", "leaving"}
    /\ Arrive(s, "failed")
    /\ alive' = alive \ {s}
    /\ UNCHANGED <<rows, txn, manager, ghost>>

\* The client closes the socket, or the network does.
Drop(s) ==
    /\ s \in alive
    /\ endpoint[s].at \notin {"new", "checked"}
    /\ alive' = alive \ {s}
    /\ UNCHANGED <<rows, txn, manager, endpoint, ghost>>

\* Mutation of ReceiveEnds: the quorum is not checked again.
ReceiveEndsUnchecked(s) ==
    /\ endpoint[s].at = "receiving"
    /\ s \notin alive
    /\ Disconnect({s})
    /\ Arrive(s, "ended")
    /\ ghost' = [ghost EXCEPT !.uncounted = @ \cup Left]
    /\ UNCHANGED <<rows, txn, alive>>

ReceiveEnds(s) ==
    /\ endpoint[s].at = "receiving"
    /\ s \notin alive
    /\ Disconnect({s})
    /\ Arrive(s, "leaving")
    /\ ghost' = [ghost EXCEPT !.uncounted = @ \cup Left]
    /\ UNCHANGED <<rows, txn, alive>>

-----------------------------------------------------------------------------
(* Legislators and devices.                                                *)

Begin(h, t) == txn[h] = Idle /\ txn' = [txn EXCEPT ![h] = t]
Finish(h) == txn' = [txn EXCEPT ![h] = Idle]

\* Mutation of Unlocked: get_by_provisioning_token reads without FOR UPDATE.
UnlockedDespiteEnrolment(l) == TRUE

\* An enrolment has the row of its legislator FOR UPDATE until it commits.
Unlocked(l) ==
    \A h \in Handlers :
        txn[h].op \in {"identifying", "enrolling"} => txn[h].legislator # l

RowsOf(l) == {d \in Devices : device[d].owner = l}
ActiveOf(l) == {d \in RowsOf(l) : device[d].status = "active"}
TheDevice(l) == IF ActiveOf(l) = {} THEN None ELSE CHOOSE d \in ActiveOf(l) : TRUE

\* get_by_id joins the legislator's device, revoked or not, and expects one row
\* at most: a legislator whose terminal was replaced is not found any more.
Found(l) == l \notin removed /\ Cardinality(RowsOf(l)) <= 1

Unused(d) ==
    /\ device[d] = NoDevice
    /\ \A h \in Handlers : txn[h].op \in {"identifying", "enrolling"} => txn[h].device # d

\* create_legislator, and regenerate_provisioning_token, which reads the legislator
\* unlocked ...
BeginGenerate(h, l) ==
    /\ Found(l)
    /\ Begin(h, [op |-> "generating", legislator |-> l])
    /\ UNCHANGED <<rows, manager, endpoint, alive, ghost>>

\* ... and waits for the row when it writes; tokens are random.
GenerateToken(h, t) ==
    /\ txn[h].op = "generating"
    /\ Unlocked(txn[h].legislator)
    /\ \A k \in Legislators : provisioning[k] # t
    /\ \A d \in Devices : device[d].enrolledWith # t
    /\ \A k \in Handlers : txn[k].op \in {"identifying", "enrolling"} => txn[k].token # t
    /\ provisioning' = [provisioning EXCEPT ![txn[h].legislator] = t]
    /\ Finish(h)
    /\ UNCHANGED <<removed, device, manager, endpoint, alive, ghost>>

\* enroll_device up to the biometric check: token, fingerprint and attestation
\* are good, and the token is the challenge the terminal's key attests.
BeginEnroll(h, l, d) ==
    /\ provisioning[l] # None
    /\ l \notin removed
    /\ Unlocked(l)
    /\ Unused(d)
    /\ Begin(h, [op |-> "identifying", legislator |-> l, token |-> provisioning[l],
                 device |-> d, old |-> None])
    /\ UNCHANGED <<rows, manager, endpoint, alive, ghost>>

\* The biometric service refuses or fails: the token is burnt.
RefuseIdentity(h) ==
    /\ txn[h].op = "identifying"
    /\ provisioning' = [provisioning EXCEPT ![txn[h].legislator] = None]
    /\ Finish(h)
    /\ UNCHANGED <<removed, device, manager, endpoint, alive, ghost>>

\* Mutation of ForceDisconnect: the TypeError is caught, the socket stays.
SendAndGoOn(h, d, t) ==
    /\ txn' = [txn EXCEPT ![h] = t]
    /\ IF d = None \/ edge[d] = None THEN UNCHANGED manager
       ELSE Put({edge[d]}, "DEVICE_WIPE_COMMAND")

\* force_disconnect_device.  If a socket is registered, the command is queued
\* and the await of _send_safe, which returns None, raises: the request fails
\* and its transaction is rolled back.  Otherwise the request goes on as t.
ForceDisconnect(h, d, t) ==
    IF d = None \/ edge[d] = None
    THEN txn' = [txn EXCEPT ![h] = t] /\ UNCHANGED manager
    ELSE Finish(h) /\ Put({edge[d]}, "DEVICE_WIPE_COMMAND")

\* The identity is confirmed, the older device of the legislator is revoked.
ReplaceDevice(h) ==
    LET old == TheDevice(txn[h].legislator) IN
    /\ txn[h].op = "identifying"
    /\ ForceDisconnect(h, old, [txn[h] EXCEPT !.op = "enrolling", !.old = old])
    /\ ghost' = [ghost EXCEPT !.uncounted = @ \cup Left]
    /\ UNCHANGED <<rows, endpoint, alive>>

Revoke(d, rowsOfDevices) ==
    IF d = None \/ rowsOfDevices[d] = NoDevice THEN rowsOfDevices
    ELSE [rowsOfDevices EXCEPT ![d].status = "revoked"]

\* ... the new one inserted, under uq_active_device_legislator, and the token
\* burnt.
CommitEnroll(h) ==
    LET t == txn[h] IN
    /\ t.op = "enrolling"
    /\ ActiveOf(t.legislator) \subseteq {t.old}
    /\ device' = [Revoke(t.old, device) EXCEPT
                    ![t.device] = [status |-> "active", owner |-> t.legislator,
                                   enrolledWith |-> t.token]]
    /\ provisioning' = [provisioning EXCEPT ![t.legislator] = None]
    /\ Finish(h)
    /\ UNCHANGED <<removed, manager, endpoint, alive, ghost>>

\* wipe_device; the commit comes with the end of the request.
BeginWipe(h, d) ==
    /\ txn[h] = Idle
    /\ device[d].status = "active"
    /\ ForceDisconnect(h, d, [op |-> "wiping", device |-> d])
    /\ ghost' = [ghost EXCEPT !.uncounted = @ \cup Left]
    /\ UNCHANGED <<rows, endpoint, alive>>

CommitWipe(h) ==
    /\ txn[h].op = "wiping"
    /\ device' = Revoke(txn[h].device, device)
    /\ Finish(h)
    /\ UNCHANGED <<provisioning, removed, manager, endpoint, alive, ghost>>

\* soft_delete_legislator reads the legislator and the device unlocked ...
BeginRemove(h, l) ==
    /\ txn[h] = Idle
    /\ Found(l)
    /\ ForceDisconnect(h, TheDevice(l),
            [op |-> "removing", legislator |-> l, device |-> TheDevice(l)])
    /\ ghost' = [ghost EXCEPT !.uncounted = @ \cup Left]
    /\ UNCHANGED <<rows, endpoint, alive>>

\* Mutation of CommitRemove: the device is not touched.
CommitRemoveKeepingDevice(h) ==
    LET t == txn[h] IN
    /\ t.op = "removing"
    /\ Unlocked(t.legislator)
    /\ removed' = removed \cup {t.legislator}
    /\ ghost' = [ghost EXCEPT !.raced =
                    @ \cup {l \in {t.legislator} : ~(ActiveOf(l) \subseteq {t.device})}]
    /\ Finish(h)
    /\ UNCHANGED <<provisioning, device, manager, endpoint, alive>>

\* ... and waits for the row when it writes.
CommitRemove(h) ==
    LET t == txn[h] IN
    /\ t.op = "removing"
    /\ Unlocked(t.legislator)
    /\ removed' = removed \cup {t.legislator}
    /\ device' = Revoke(t.device, device)
    /\ ghost' = [ghost EXCEPT !.raced =
                    @ \cup {l \in {t.legislator} : ~(ActiveOf(l) \subseteq {t.device})}]
    /\ Finish(h)
    /\ UNCHANGED <<provisioning, manager, endpoint, alive>>

Rollback(h) ==
    /\ txn[h] # Idle
    /\ Finish(h)
    /\ UNCHANGED <<rows, manager, endpoint, alive, ghost>>

-----------------------------------------------------------------------------
Socket(s) ==
    \/ \E d \in Devices : CheckToken(s, d)
    \/ CheckSession(s)
    \/ JoinDashboard(s) \/ JoinDevice(s) \/ TakeOver(s) \/ CompleteTakeOver(s)
    \/ CheckQuorum(s) \/ CheckFails(s) \/ ReceiveEnds(s) \/ Drop(s)
    \/ WorkerSend(s) \/ WorkerStops(s) \/ WorkerEnds(s)

Administration ==
    \/ \E h \in Handlers, l \in Legislators :
        \/ BeginGenerate(h, l)
        \/ \E d \in Devices : BeginEnroll(h, l, d)
        \/ BeginRemove(h, l)
    \/ \E h \in Handlers, t \in Tokens : GenerateToken(h, t)
    \/ \E h \in Handlers, d \in Devices : BeginWipe(h, d)
    \/ \E h \in Handlers :
        \/ RefuseIdentity(h) \/ ReplaceDevice(h) \/ CommitEnroll(h)
        \/ CommitWipe(h) \/ CommitRemove(h) \/ Rollback(h)

Next == Administration \/ (\E s \in Sockets : Socket(s)) \/ Broadcast

Spec == Init /\ [][Next]_vars

-----------------------------------------------------------------------------
(* Properties.                                                             *)

\* Type invariant: the rows, the manager's maps and the tasks of each socket.
TypeOK ==
    /\ provisioning \in [Legislators -> Tokens \cup {None}]
    /\ removed \subseteq Legislators
    /\ device \in [Devices -> DeviceRow]
    /\ txn \in [Handlers -> Txn]
    /\ edge \in [Devices -> Sockets \cup {None}]
    /\ dashboards \subseteq Sockets
    /\ DOMAIN queue = Sockets
    /\ \A s \in Sockets :
        queue[s] # None => queue[s] \in Seq(Event) /\ Len(queue[s]) <= MaxQueue
    /\ worker \in [Sockets -> {"none", "running", "cancelled", "closing", "done"}]
    /\ endpoint \in [Sockets -> Endpoint]
    /\ alive \subseteq Sockets
    /\ ghost \in Ghosts

\* One provisioning token enrols one device, and a legislator has one active
\* device at most, however many enrolments run at once (enroll_device).
TokenEnrolsOnce ==
    \A d, e \in Devices :
        d # e /\ device[d] # NoDevice /\ device[e] # NoDevice =>
            /\ device[d].enrolledWith # device[e].enrolledWith
            /\ device[d].owner = device[e].owner =>
                ~(device[d].status = "active" /\ device[e].status = "active")

\* A socket in a map of the manager has a queue and a worker that empties it, or
\* is about to take a broken socket out of the map: nothing is broadcast into the
\* void (connect and disconnect).
RegisteredIsServed ==
    \A s \in Sockets : Registered(s) =>
        /\ queue[s] # None
        /\ worker[s] = "running" \/ (worker[s] = "closing" /\ s \notin alive)

\* An open socket that waits for events is in a map of the manager, unless a
\* connect that was taking over the same token wrote over it, or its queue
\* overflowed and it is being closed.
OpenIsRegistered ==
    \A s \in Sockets :
        endpoint[s].at = "receiving" /\ s \in alive =>
            \/ Registered(s)
            \/ s \in ghost.overwritten
            \/ worker[s] = "cancelled"

\* A revoked device is connected only by a socket that was registered after the
\* revoking request had looked for one: its token was checked before the commit.
RevokedOnlyIfLate ==
    \A d \in Devices :
        device[d].status = "revoked" /\ edge[d] # None => edge[d] \in ghost.late

\* A removed legislator has no active device, unless an enrolment committed
\* between the reading of the device and the removal.
RemovedHasNoDevice ==
    \A l \in removed : ActiveOf(l) = {} \/ l \in ghost.raced

\* A wipe command that was queued leaves the queue by being sent, unless the
\* socket is broken or its worker is stopped.
CommandQueued(s) ==
    queue[s] # None /\ \E i \in 1 .. Len(queue[s]) : queue[s][i] = "DEVICE_WIPE_COMMAND"

WipeIsNotLost ==
    [][\A s \in Sockets :
        CommandQueued(s) /\ ~CommandQueued(s)' =>
            queue'[s] = Tail(queue[s]) \/ s \notin alive \/ worker'[s] # "running"]_vars

\* A socket that left the map is still watched by its endpoint, which checks the
\* quorum of connected legislators again, unless the database failed a check.
DepartureIsCounted ==
    \A s \in ghost.uncounted : endpoint[s].at # "ended"
=============================================================================
