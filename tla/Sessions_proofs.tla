---------------------------- MODULE Sessions_proofs ----------------------------
(***************************************************************************)
(* Theorems about Sessions, for any number of sessions, items, rounds,     *)
(* legislators and requests at once.  No row is locked, so what a request  *)
(* read holds when it writes only if no other request about the same       *)
(* session or item overlapped; the invariant says that for each request,   *)
(* and the properties follow from what the writes then do.                 *)
(***************************************************************************)
EXTENDS Sessions, QuorumRules_proofs, FiniteSetTheorems

AboutSessions == {"configuring", "deleting", "announcing", "changing", "marking"}
AboutItems == {"editing", "saving", "withdrawing", "drafting"}

AllResolved(i) == \A r \in Rounds : round[r].item = i => round[r].status = "RESOLVED"

\* Of two requests about the same session or item the overlap is recorded.
Sole ==
    \A g, h \in Handlers :
        g # h /\ txn[g] # Idle /\ txn[h] # Idle /\ txn[g].on = txn[h].on =>
            /\ txn[g].on \in ghost.contended
            /\ ~(txn[g].op = "creating" /\ txn[h].op = "creating")

\* What a request without competition read is still so.
StillRead(h) ==
    /\ txn[h].op \in {"configuring", "deleting"} => session[txn[h].on].status = "PENDING"
    /\ txn[h].op = "changing" =>
        /\ txn[h].read = session[txn[h].on].status
        /\ txn[h].status = "ACTIVE" =>
            HasCertifiedQuorum(session[txn[h].on].presType, TRUE,
                               Cardinality(PresentIn(txn[h].on)), Cardinality(roll))
    /\ txn[h].op = "announcing" => txn[h].status = session[txn[h].on].status
    /\ txn[h].op = "marking" => txn[h].read = attendance[txn[h].on]
    /\ txn[h].op \in {"editing", "saving"} /\ txn[h].on \notin ghost.proclaimed =>
            txn[h].read = item[txn[h].on].status
    /\ txn[h].op = "saving" /\ txn[h].on \notin ghost.unsaved =>
            announced[txn[h].on] = txn[h].status
    /\ txn[h].op = "withdrawing" /\ txn[h].on \notin ghost.rectifiable => AllResolved(txn[h].on)

RequestOK(h) ==
    /\ txn[h].op = "creating" => session[txn[h].on] = NoSession
    /\ txn[h].op \in AboutSessions => session[txn[h].on] # NoSession
    /\ txn[h] # Idle /\ txn[h].on \notin ghost.contended => StillRead(h)

RequestsInv == Sole /\ \A h \in Handlers : RequestOK(h)

\* A session has the status last announced, unless a request is about to
\* announce the one it committed; a new one was not announced.
SessionOK(s) ==
    /\ session[s] = NoSession => announced[s] = "NONE"
    /\ s \notin ghost.contended /\ (\A h \in Handlers : txn[h].op = "announcing" => txn[h].on # s)
        => announced[s] \in {"NONE", session[s].status}
    /\ session[s].status = "CLOSED" => s \in ghost.closed

\* The same of an item whose update is announced and about to be committed; the
\* rounds of a deleted item are RESOLVED, and none is being created.
ItemOK(i) ==
    /\ /\ i \notin ghost.contended \cup ghost.unsaved \cup ghost.proclaimed
       /\ \A h \in Handlers : txn[h].op = "saving" => txn[h].on # i
       => announced[i] \in {"NONE", item[i].status}
    /\ item[i].deleted /\ i \notin ghost.contended \cup ghost.rectifiable =>
            /\ AllResolved(i)
            /\ \A h \in Handlers : txn[h].op = "drafting" => txn[h].on # i

\* Of two sessions that are current, or about to be, one is a twin or reopened.
OneCurrent ==
    \A s, t \in Current \cup Creating :
        s # t => s \in ghost.twins \cup ghost.closed \/ t \in ghost.twins \cup ghost.closed

RowsInv ==
    /\ \A s \in Sessions : SessionOK(s)
    /\ \A i \in Items : ItemOK(i)
    /\ OneCurrent

IInv == TypeOK /\ RequestsInv /\ RowsInv

-----------------------------------------------------------------------------
(* Types.                                                                  *)

LEMMA TxnByOp ==
    ASSUME TypeOK, NEW h \in Handlers
    PROVE  /\ txn[h] = Idle <=> txn[h].op = "idle"
           /\ txn[h].op \in {"creating", "configuring"} =>
                txn[h] \in [op: {"creating", "configuring"}, on: Sessions, presType: PresidentType]
           /\ txn[h].op = "announcing" =>
                txn[h] \in [op: {"announcing"}, on: Sessions, status: SessionStatus]
           /\ txn[h].op = "changing" =>
                txn[h] \in [op: {"changing"}, on: Sessions, read: SessionStatus, status: SessionStatus]
           /\ txn[h].op = "marking" =>
                txn[h] \in [op: {"marking"}, on: Sessions, read: Ledger, marks: Marks]
           /\ txn[h].op \in {"editing", "saving"} =>
                txn[h] \in [op: {"editing", "saving"}, on: Items, read: ItemStatus, status: ItemStatus]
           /\ txn[h].op = "drafting" =>
                txn[h] \in [op: {"drafting"}, on: Items, round: Rounds]
           /\ txn[h].op \in AboutSessions \cup {"creating"} => txn[h].on \in Sessions
           /\ txn[h].op \in AboutItems => txn[h].on \in Items
           /\ txn[h].op \in AboutSessions \cup AboutItems \cup {"idle", "creating"}
           /\ txn[h].op = "idle" => txn[h].on = None
BY DEF TypeOK, Txn, Idle, AboutSessions, AboutItems

\* History only grows.
Grows == /\ ghost.contended \subseteq ghost'.contended /\ ghost.twins \subseteq ghost'.twins
         /\ ghost.closed \subseteq ghost'.closed /\ ghost.rectifiable \subseteq ghost'.rectifiable
         /\ ghost.unsaved \subseteq ghost'.unsaved /\ ghost.proclaimed \subseteq ghost'.proclaimed

LEMMA History ==
    ASSUME TypeOK, NEW X \in SUBSET (Sessions \cup Items), NEW S \in SUBSET Sessions,
           NEW I \in SUBSET Items,
           \/ ghost' = ghost
           \/ ghost' = [ghost EXCEPT !.contended = ghost.contended \cup X]
           \/ ghost' = [ghost EXCEPT !.twins = ghost.twins \cup S]
           \/ ghost' = [ghost EXCEPT !.closed = ghost.closed \cup S]
           \/ ghost' = [Contend(X) EXCEPT !.rectifiable = ghost.rectifiable \cup I]
           \/ ghost' = [ghost EXCEPT !.unsaved = ghost.unsaved \cup I]
           \/ ghost' = [ghost EXCEPT !.proclaimed = ghost.proclaimed \cup I]
    PROVE  ghost' \in Ghosts /\ Grows
<1>1. /\ ghost.contended \cup X \in SUBSET (Sessions \cup Items)
      /\ ghost.twins \cup S \in SUBSET Sessions /\ ghost.closed \cup S \in SUBSET Sessions
      /\ ghost.rectifiable \cup I \in SUBSET Items /\ ghost.unsaved \cup I \in SUBSET Items
      /\ ghost.proclaimed \cup I \in SUBSET Items
  BY DEF TypeOK, Ghosts
<1>2. ghost \in Ghosts
  BY DEF TypeOK
<1>3. CASE ghost' = ghost
  BY <1>2, <1>3 DEF Grows
<1>4. CASE ghost' = [ghost EXCEPT !.contended = ghost.contended \cup X]
  BY <1>1, <1>2, <1>4 DEF Ghosts, Grows
<1>5. CASE ghost' = [ghost EXCEPT !.twins = ghost.twins \cup S]
  BY <1>1, <1>2, <1>5 DEF Ghosts, Grows
<1>6. CASE ghost' = [ghost EXCEPT !.closed = ghost.closed \cup S]
  BY <1>1, <1>2, <1>6 DEF Ghosts, Grows
<1>7. CASE ghost' = [Contend(X) EXCEPT !.rectifiable = ghost.rectifiable \cup I]
  <2>1. Contend(X) \in Ghosts /\ Contend(X).contended = ghost.contended \cup X
    BY <1>1, <1>2 DEF Ghosts, Contend
  <2>2. /\ Contend(X).twins = ghost.twins /\ Contend(X).closed = ghost.closed
        /\ Contend(X).unsaved = ghost.unsaved /\ Contend(X).proclaimed = ghost.proclaimed
    BY <1>2 DEF Ghosts, Contend
  <2>3. ghost' \in Ghosts
    BY <1>1, <1>7, <2>1 DEF Ghosts
  <2>4. /\ ghost'.contended = Contend(X).contended /\ ghost'.twins = Contend(X).twins
        /\ ghost'.closed = Contend(X).closed /\ ghost'.unsaved = Contend(X).unsaved
        /\ ghost'.proclaimed = Contend(X).proclaimed
        /\ ghost'.rectifiable = ghost.rectifiable \cup I
    BY <1>7, <2>1 DEF Ghosts
  <2>5. QED
    BY <2>1, <2>2, <2>3, <2>4 DEF Grows
<1>8. CASE ghost' = [ghost EXCEPT !.unsaved = ghost.unsaved \cup I]
  BY <1>1, <1>2, <1>8 DEF Ghosts, Grows
<1>9. CASE ghost' = [ghost EXCEPT !.proclaimed = ghost.proclaimed \cup I]
  BY <1>1, <1>2, <1>9 DEF Ghosts, Grows
<1>10. QED
  BY <1>3, <1>4, <1>5, <1>6, <1>7, <1>8, <1>9

LEMMA BeginType ==
    ASSUME TypeOK, NEW h \in Handlers, NEW t \in Txn, Begin(h, t)
    PROVE  /\ txn' \in [Handlers -> Txn] /\ requests' \in 0 .. MaxRequests
           /\ txn[h] = Idle /\ txn'[h] = t /\ \A g \in Handlers \ {h} : txn'[g] = txn[g]
BY SessionsAssumption DEF TypeOK, Begin, Request

LEMMA FinishType ==
    ASSUME TypeOK, NEW h \in Handlers, Finish(h)
    PROVE  /\ txn' \in [Handlers -> Txn]
           /\ txn'[h] = Idle /\ \A g \in Handlers \ {h} : txn'[g] = txn[g]
BY DEF TypeOK, Finish, Txn

\* A request that begins changes no row, and contends with one in flight.
Beginning(h) ==
    /\ txn[h] = Idle /\ txn'[h] # Idle
    /\ \A g \in Handlers \ {h} : txn'[g] = txn[g]
    /\ txn'[h].op \notin {"announcing", "saving"}
    /\ UNCHANGED <<ledger, roll, agenda, announced>>
    /\ Grows
    /\ txn'[h].op # "creating" /\ txn'[h].on \in InFlight => txn'[h].on \in ghost'.contended
    /\ txn'[h].op = "creating" =>
        /\ session[txn'[h].on] = NoSession /\ txn'[h].on \notin Creating
        /\ Current = {}
        /\ Creating = {} \/ Creating \cup {txn'[h].on} \subseteq ghost'.twins
    /\ txn'[h].op = "drafting" => Listed(txn'[h].on)

LEMMA BeginOnBegins ==
    ASSUME TypeOK, NEW h \in Handlers, NEW x \in Sessions \cup Items,
           NEW t \in Txn, t # Idle, t.on = x, t.op \notin {"creating", "announcing", "saving"},
           t.op = "drafting" => Listed(x),
           BeginOn(h, x, t)
    PROVE  TypeOK' /\ Beginning(h) /\ txn'[h] = t
<1>1. {x} \cap InFlight \in SUBSET (Sessions \cup Items)
  OBVIOUS
<1>2. ghost' = [ghost EXCEPT !.contended = ghost.contended \cup ({x} \cap InFlight)]
  BY DEF BeginOn, Contend
<1>3. ghost' \in Ghosts /\ Grows
  BY <1>1, <1>2, History
<1>4. Begin(h, t)
  BY DEF BeginOn
<1>5. x \in InFlight => x \in ghost'.contended
  BY <1>2 DEF TypeOK, Ghosts
<1>6. QED
  BY <1>3, <1>4, <1>5, BeginType DEF BeginOn, Beginning, TypeOK, ledger, agenda

LEMMA SessionRequestBegins ==
    ASSUME TypeOK, NEW h \in Handlers, NEW s \in Sessions, SessionRequest(h, s)
    PROVE  TypeOK' /\ Beginning(h) /\ RequestOK(h)' /\ txn'[h].on = s
<1>2. ASSUME NEW presType \in PresidentType, BeginCreate(h, s, presType)
      PROVE  TypeOK' /\ Beginning(h) /\ RequestOK(h)' /\ txn'[h].on = s
  <2> DEFINE t == [op |-> "creating", on |-> s, presType |-> presType]
  <2>1. t \in Txn /\ t # Idle /\ t.op = "creating" /\ t.on = s
    BY DEF Txn, Idle
  <2>2. ghost' \in Ghosts /\ Grows /\ (Creating = {} \/ Creating \cup {s} \subseteq ghost'.twins)
    <3>1. Creating \subseteq Sessions
      BY TxnByOp DEF Creating
    <3>2. \E S \in SUBSET Sessions : ghost' = [ghost EXCEPT !.twins = ghost.twins \cup S]
      <4>1. CASE Creating = {}
        <5>1. ghost' = [ghost EXCEPT !.twins = ghost.twins \cup {}]
          BY <1>2, <4>1 DEF BeginCreate
        <5>2. QED
          BY <5>1
      <4>2. CASE Creating # {}
        <5>1. ghost' = [ghost EXCEPT !.twins = ghost.twins \cup (Creating \cup {s})]
          BY <1>2, <4>2 DEF BeginCreate
        <5>2. QED
          BY <3>1, <5>1
      <4>3. QED
        BY <4>1, <4>2
    <3>3. Creating = {} \/ Creating \cup {s} \subseteq ghost'.twins
      BY <1>2 DEF BeginCreate, TypeOK, Ghosts
    <3>4. QED
      BY <3>2, <3>3, History
  <2>3. Begin(h, t)
    BY <1>2 DEF BeginCreate
  <2>4. txn'[h] = t
    BY <2>1, <2>3, BeginType
  <2> HIDE DEF t
  <2>5. /\ session[s] = NoSession /\ s \notin Creating /\ Current = {}
        /\ UNCHANGED <<ledger, roll, agenda, announced>>
    BY <1>2 DEF BeginCreate, MayCreate
  <2>6. Beginning(h)
    BY <2>1, <2>2, <2>3, <2>4, <2>5, BeginType DEF Beginning
  <2>7. RequestOK(h)'
    BY <2>1, <2>4, <2>5 DEF RequestOK, StillRead, AboutSessions, ledger
  <2>8. TypeOK'
    BY <2>1, <2>2, <2>3, <2>5, BeginType DEF TypeOK, ledger, agenda
  <2>9. QED
    BY <2>1, <2>4, <2>6, <2>7, <2>8
<1>3. ASSUME NEW presType \in PresidentType, BeginConfigure(h, s, presType)
      PROVE  TypeOK' /\ Beginning(h) /\ RequestOK(h)' /\ txn'[h].on = s
  <2> DEFINE t == [op |-> "configuring", on |-> s, presType |-> presType]
  <2>1. t \in Txn /\ t # Idle /\ t.op = "configuring" /\ t.on = s
    BY DEF Txn, Idle
  <2>2. BeginOn(h, s, t)
    BY <1>3 DEF BeginConfigure
  <2> HIDE DEF t
  <2>3. TypeOK' /\ Beginning(h) /\ txn'[h] = t
    BY <2>1, <2>2, BeginOnBegins
  <2>4. session[s].status = "PENDING" /\ session[s] # NoSession
    BY <1>3 DEF BeginConfigure, NoSession
  <2>5. QED
    BY <2>1, <2>3, <2>4 DEF RequestOK, StillRead, Beginning, ledger
<1>4. ASSUME BeginDelete(h, s)
      PROVE  TypeOK' /\ Beginning(h) /\ RequestOK(h)' /\ txn'[h].on = s
  <2> DEFINE t == [op |-> "deleting", on |-> s]
  <2>1. t \in Txn /\ t # Idle /\ t.op = "deleting" /\ t.on = s
    BY DEF Txn, Idle
  <2>2. BeginOn(h, s, t)
    BY <1>4 DEF BeginDelete
  <2> HIDE DEF t
  <2>3. TypeOK' /\ Beginning(h) /\ txn'[h] = t
    BY <2>1, <2>2, BeginOnBegins
  <2>4. session[s].status = "PENDING" /\ session[s] # NoSession
    BY <1>4 DEF BeginDelete, MayDelete, NoSession
  <2>5. QED
    BY <2>1, <2>3, <2>4 DEF RequestOK, StillRead, Beginning, ledger
<1>5. ASSUME NEW status \in SessionStatus, BeginStatus(h, s, status)
      PROVE  TypeOK' /\ Beginning(h) /\ RequestOK(h)' /\ txn'[h].on = s
  <2> DEFINE t == [op |-> "changing", on |-> s, read |-> session[s].status, status |-> status]
  <2>1. session[s].status \in SessionStatus /\ session[s] # NoSession
    BY <1>5 DEF BeginStatus, Exists, TypeOK, SessionRow, NoSession
  <2>2. /\ t \in Txn /\ t # Idle /\ t.op = "changing" /\ t.on = s
        /\ t.read = session[s].status /\ t.status = status
    BY <2>1 DEF Txn, Idle
  <2>3. BeginOn(h, s, t)
    BY <1>5 DEF BeginStatus
  <2> HIDE DEF t
  <2>4. TypeOK' /\ Beginning(h) /\ txn'[h] = t
    BY <2>2, <2>3, BeginOnBegins
  <2>5. UNCHANGED <<session, attendance, roll>> /\ PresentIn(s)' = PresentIn(s)
    BY <2>4 DEF Beginning, ledger, PresentIn
  <2>6. status = "ACTIVE" => HasCertifiedQuorum(session[s].presType, TRUE,
                                  Cardinality(PresentIn(s)), Cardinality(roll))
    BY <1>5 DEF BeginStatus
  <2>7. StillRead(h)'
    BY <2>2, <2>4, <2>5, <2>6 DEF StillRead, PresentIn
  <2>8. QED
    BY <2>1, <2>2, <2>4, <2>5, <2>7 DEF RequestOK
<1>6. ASSUME NEW marks \in Marks, BeginMark(h, s, marks)
      PROVE  TypeOK' /\ Beginning(h) /\ RequestOK(h)' /\ txn'[h].on = s
  <2> DEFINE t == [op |-> "marking", on |-> s, read |-> attendance[s], marks |-> marks]
  <2>1. attendance[s] \in Ledger
    BY DEF TypeOK
  <2>2. /\ t \in Txn /\ t # Idle /\ t.op = "marking" /\ t.on = s /\ t.read = attendance[s]
    BY <2>1 DEF Txn, Idle
  <2>3. BeginOn(h, s, t)
    BY <1>6 DEF BeginMark
  <2> HIDE DEF t
  <2>4. TypeOK' /\ Beginning(h) /\ txn'[h] = t
    BY <2>2, <2>3, BeginOnBegins
  <2>5. session[s] # NoSession
    BY <1>6 DEF BeginMark
  <2>6. QED
    BY <2>2, <2>4, <2>5 DEF RequestOK, StillRead, Beginning, ledger
<1>7. QED
  BY <1>2, <1>3, <1>4, <1>5, <1>6 DEF SessionRequest

LEMMA ItemRequestBegins ==
    ASSUME TypeOK, NEW h \in Handlers, NEW i \in Items, ItemRequest(h, i)
    PROVE  TypeOK' /\ Beginning(h) /\ RequestOK(h)' /\ txn'[h].on = i
<1>1. ASSUME NEW status \in ItemStatus, BeginEdit(h, i, status)
      PROVE  TypeOK' /\ Beginning(h) /\ RequestOK(h)' /\ txn'[h].on = i
  <2> DEFINE t == [op |-> "editing", on |-> i, read |-> item[i].status, status |-> status]
  <2>1. item[i].status \in ItemStatus
    BY DEF TypeOK, ItemRow
  <2>2. t \in Txn /\ t # Idle /\ t.op = "editing" /\ t.on = i /\ t.read = item[i].status
    BY <2>1 DEF Txn, Idle
  <2>3. BeginOn(h, i, t)
    BY <1>1 DEF BeginEdit
  <2> HIDE DEF t
  <2>4. TypeOK' /\ Beginning(h) /\ txn'[h] = t
    BY <2>2, <2>3, BeginOnBegins
  <2>5. QED
    BY <2>2, <2>4 DEF RequestOK, StillRead, Beginning, agenda, AboutSessions
<1>2. ASSUME BeginWithdraw(h, i)
      PROVE  TypeOK' /\ Beginning(h) /\ RequestOK(h)' /\ txn'[h].on = i
  <2> DEFINE t == [op |-> "withdrawing", on |-> i]
             X == {i} \cap InFlight
             I == {j \in {i} : \E r \in RoundsOf(i) : round[r].status \in {"TIED", "ABORTED"}}
  <2>1. t \in Txn /\ t # Idle /\ t.op = "withdrawing" /\ t.on = i
    BY DEF Txn, Idle
  <2>2. X \in SUBSET (Sessions \cup Items) /\ I \in SUBSET Items
    OBVIOUS
  <2>3. Contend(X) = [ghost EXCEPT !.contended = ghost.contended \cup X]
    BY DEF Contend
  <2>4. Contend(X).rectifiable = ghost.rectifiable
    BY <2>3 DEF TypeOK, Ghosts
  <2>5. ghost' = [Contend(X) EXCEPT !.rectifiable = ghost.rectifiable \cup I]
    BY <1>2, <2>4 DEF BeginWithdraw, Contend, TypeOK, Ghosts
  <2>6. ghost' \in Ghosts /\ Grows
    BY <2>2, <2>5, History
  <2>7. X \subseteq ghost'.contended /\ I \subseteq ghost'.rectifiable
    BY <2>3, <2>4, <2>5 DEF TypeOK, Ghosts
  <2>8. Begin(h, t) /\ UNCHANGED <<ledger, roll, agenda, announced>> /\ MayWithdraw(i)
    BY <1>2 DEF BeginWithdraw
  <2>9. I # {} \/ AllResolved(i)
    <3>1. SUFFICES ASSUME NEW r \in Rounds, round[r].item = i,
                          round[r].status \notin {"TIED", "ABORTED"}
                   PROVE  round[r].status = "RESOLVED"
      BY DEF AllResolved, RoundsOf
    <3>2. round[r] # NoRound
      BY <3>1, SessionsAssumption DEF NoRound
    <3>3. round[r].status \in RoundStatus
      BY <3>2 DEF TypeOK, RoundRow
    <3>4. round[r].status \notin Live
      BY <2>8, <3>1 DEF MayWithdraw, LiveRounds, RoundsOf
    <3>5. QED
      BY <3>1, <3>3, <3>4 DEF RoundStatus
  <2>10. i \in InFlight => i \in ghost'.contended
    BY <2>7
  <2>11. i \notin ghost'.rectifiable => AllResolved(i)
    BY <2>7, <2>9
  <2>12. txn'[h] = t
    BY <2>1, <2>8, BeginType
  <2> HIDE DEF t, X, I
  <2>13. TypeOK' /\ Beginning(h)
    BY <2>1, <2>6, <2>8, <2>10, BeginType DEF Beginning, TypeOK, ledger, agenda
  <2>14. RequestOK(h)'
    BY <2>1, <2>8, <2>11, <2>12 DEF RequestOK, StillRead, AllResolved, AboutSessions, agenda
  <2>15. QED
    BY <2>1, <2>12, <2>13, <2>14
<1>3. ASSUME NEW r \in Rounds, BeginDraft(h, r, i)
      PROVE  TypeOK' /\ Beginning(h) /\ RequestOK(h)' /\ txn'[h].on = i
  <2> DEFINE t == [op |-> "drafting", on |-> i, round |-> r]
  <2>1. t \in Txn /\ t # Idle /\ t.op = "drafting" /\ t.on = i
    BY DEF Txn, Idle
  <2>2. BeginOn(h, i, t) /\ Listed(i)
    BY <1>3 DEF BeginDraft
  <2> HIDE DEF t
  <2>3. TypeOK' /\ Beginning(h) /\ txn'[h] = t
    BY <2>1, <2>2, BeginOnBegins
  <2>4. QED
    BY <2>1, <2>3 DEF RequestOK, StillRead, AboutSessions
<1>4. QED
  BY <1>1, <1>2, <1>3 DEF ItemRequest

-----------------------------------------------------------------------------
(* A request that begins keeps the invariant.                              *)

LEMMA BeginningKeepsRequests ==
    ASSUME IInv, NEW h \in Handlers, Beginning(h), TypeOK', RequestOK(h)'
    PROVE  RequestsInv'
<1>1. TypeOK /\ Sole /\ \A g \in Handlers : RequestOK(g)
  BY DEF IInv, RequestsInv
<1>2. ASSUME NEW g \in Handlers \ {h}
      PROVE  RequestOK(g)'
  <2>1. /\ txn'[g] = txn[g] /\ UNCHANGED <<session, attendance, roll, item, round, announced>>
        /\ Grows /\ RequestOK(g)
    BY <1>1 DEF Beginning, ledger, agenda
  <2>2. ASSUME txn[g] # Idle, txn[g].on \notin ghost'.contended
        PROVE  StillRead(g)'
    <3>1. StillRead(g)
      BY <2>1, <2>2 DEF RequestOK, Grows
    <3>2. QED
      BY <2>1, <3>1 DEF StillRead, Grows, PresentIn, AllResolved
  <2>3. QED
    BY <2>1, <2>2 DEF RequestOK
<1>3. ASSUME NEW g \in Handlers \ {h}, txn'[g] # Idle, txn'[g].on = txn'[h].on
      PROVE  /\ txn'[h].on \in ghost'.contended
             /\ ~(txn'[g].op = "creating" /\ txn'[h].op = "creating")
  <2>1. txn'[g] = txn[g] /\ g \in Serving /\ txn'[h].on \in InFlight
    BY <1>3 DEF Beginning, Serving, InFlight
  <2>2. CASE txn'[h].op = "creating"
    <3>1. session[txn[g].on] = NoSession /\ txn[g].op # "creating" /\ txn[g].on \notin Items
      <4>1. txn'[h].on \in Sessions
        BY <2>2 DEF TypeOK, Txn, Idle
      <4>2. QED
        BY <1>3, <2>1, <2>2, <4>1, SessionsAssumption DEF Beginning, Creating
    <3>2. QED
      BY <1>1, <1>3, <2>1, <3>1, TxnByOp DEF RequestOK
  <2>3. CASE txn'[h].op # "creating"
    BY <2>1, <2>3 DEF Beginning
  <2>4. QED
    BY <2>2, <2>3
<1>4. Sole'
  <2>1. SUFFICES ASSUME NEW g \in Handlers, NEW k \in Handlers, g # k,
                        txn'[g] # Idle, txn'[k] # Idle, txn'[g].on = txn'[k].on
                 PROVE  /\ txn'[g].on \in ghost'.contended
                        /\ ~(txn'[g].op = "creating" /\ txn'[k].op = "creating")
    BY DEF Sole
  <2>2. CASE g = h \/ k = h
    BY <1>3, <2>1, <2>2
  <2>3. CASE g # h /\ k # h
    BY <1>1, <2>1, <2>3 DEF Sole, Beginning, Grows
  <2>4. QED
    BY <2>2, <2>3
<1>5. QED
  BY <1>2, <1>4 DEF RequestsInv

LEMMA BeginningKeepsRows ==
    ASSUME IInv, NEW h \in Handlers, Beginning(h), TypeOK', RequestOK(h)'
    PROVE  RowsInv'
<1>1. /\ txn[h] = Idle /\ \A g \in Handlers \ {h} : txn'[g] = txn[g]
      /\ txn'[h].op \notin {"announcing", "saving"}
      /\ UNCHANGED <<session, item, round, announced>> /\ Grows
  BY DEF Beginning, ledger, agenda
<1>2. RowsInv /\ TypeOK
  BY DEF IInv
<1>3. txn[h].op = "idle"
  BY <1>1 DEF Idle
<1>4. ASSUME NEW s \in Sessions PROVE SessionOK(s)'
  <2>1. SessionOK(s)
    BY <1>2 DEF RowsInv
  <2>2. QED
    BY <1>1, <1>3, <2>1 DEF SessionOK, Grows
<1>5. ASSUME NEW i \in Items PROVE ItemOK(i)'
  <2>1. ItemOK(i)
    BY <1>2 DEF RowsInv
  <2>2. AllResolved(i)' = AllResolved(i)
    BY <1>1 DEF AllResolved
  <2>3. txn'[h].op = "drafting" => ~item[txn'[h].on].deleted
    BY DEF Beginning, Listed
  <2>4. ASSUME i \notin ghost'.contended \cup ghost'.unsaved \cup ghost'.proclaimed,
               \A g \in Handlers : txn'[g].op = "saving" => txn'[g].on # i
        PROVE  announced'[i] \in {"NONE", item'[i].status}
    BY <1>1, <1>3, <2>1, <2>4 DEF ItemOK, Grows
  <2>5. ASSUME item'[i].deleted, i \notin ghost'.contended \cup ghost'.rectifiable
        PROVE  AllResolved(i)' /\ \A g \in Handlers : txn'[g].op = "drafting" => txn'[g].on # i
    BY <1>1, <1>3, <2>1, <2>2, <2>3, <2>5 DEF ItemOK, Grows
  <2>6. QED
    BY <2>4, <2>5 DEF ItemOK
<1>6. OneCurrent'
  <2>1. Current' = Current
    BY <1>1 DEF Current, Exists
  <2>2. CASE txn'[h].op = "creating"
    <3>1. Creating' \subseteq Creating \cup {txn'[h].on}
      BY <1>1 DEF Creating
    <3>2. /\ Current = {}
          /\ Creating = {} \/ Creating \cup {txn'[h].on} \subseteq ghost'.twins
      BY <2>2 DEF Beginning
    <3>3. QED
      BY <2>1, <3>1, <3>2 DEF OneCurrent
  <2>3. CASE txn'[h].op # "creating"
    <3>1. Creating' \subseteq Creating
      BY <1>1, <2>3 DEF Creating
    <3>2. OneCurrent
      BY <1>2 DEF RowsInv
    <3>3. QED
      BY <1>1, <2>1, <3>1, <3>2 DEF OneCurrent, Grows
  <2>4. QED
    BY <2>2, <2>3
<1>7. QED
  BY <1>4, <1>5, <1>6 DEF RowsInv

-----------------------------------------------------------------------------
(* A request in flight goes on.                                            *)

\* It touches what it is about and nothing else.
Serves(h) ==
    /\ txn[h] # Idle
    /\ \A g \in Handlers \ {h} : txn'[g] = txn[g]
    /\ txn'[h] = Idle \/ (txn'[h].op \in {"announcing", "saving"} /\ txn'[h].on = txn[h].on)
    /\ roll' = roll /\ Grows
    /\ \A s \in Sessions \ {txn[h].on} :
        session'[s] = session[s] /\ attendance'[s] = attendance[s]
    /\ \A s \in Sessions : session[s] # NoSession => session'[s] # NoSession
    /\ \A i \in Items \ {txn[h].on} : item'[i] = item[i] /\ (AllResolved(i) => AllResolved(i)')
    /\ \A x \in (Sessions \cup Items) \ {txn[h].on} : announced'[x] = announced[x]

LEMMA ServingKeepsRequests ==
    ASSUME IInv, NEW h \in Handlers, Serves(h), TypeOK', RequestOK(h)'
    PROVE  RequestsInv'
<1>1. TypeOK /\ Sole /\ \A g \in Handlers : RequestOK(g)
  BY DEF IInv, RequestsInv
<1>2. ASSUME NEW g \in Handlers \ {h}
      PROVE  RequestOK(g)'
  <2>1. txn'[g] = txn[g] /\ RequestOK(g)
    BY <1>1 DEF Serves
  <2>2. CASE txn[g] = Idle
    BY <2>1, <2>2 DEF RequestOK, Idle, AboutSessions
  <2>3. CASE txn[g] # Idle /\ txn[g].on = txn[h].on
    <3>1. txn[g].on \in ghost'.contended /\ txn[h] # Idle
      BY <1>1, <2>3 DEF Sole, Serves, Grows
    <3>2. txn[g].op # "creating"
      <4>1. SUFFICES ASSUME txn[g].op = "creating" PROVE FALSE
        OBVIOUS
      <4>2. txn[g].on \in Sessions /\ session[txn[g].on] = NoSession
        BY <1>1, <2>1, <4>1, TxnByOp DEF RequestOK
      <4>3. txn[h].op # "creating" /\ txn[h].op \notin AboutSessions
        BY <1>1, <2>3, <3>1, <4>1, <4>2 DEF Sole, RequestOK
      <4>4. txn[h].on \in Items
        BY <1>1, <3>1, <4>3, TxnByOp
      <4>5. QED
        BY <2>3, <4>2, <4>4, SessionsAssumption
    <3>3. txn[g].op \in AboutSessions => session'[txn[g].on] # NoSession
      BY <1>1, <2>1, TxnByOp DEF RequestOK, Serves
    <3>4. QED
      BY <2>1, <3>1, <3>2, <3>3 DEF RequestOK
  <2>4. CASE txn[g] # Idle /\ txn[g].on # txn[h].on
    <3>1. txn[g].op = "creating" \/ txn[g].op \in AboutSessions =>
            /\ txn[g].on \in Sessions \ {txn[h].on}
            /\ session'[txn[g].on] = session[txn[g].on]
            /\ attendance'[txn[g].on] = attendance[txn[g].on]
      BY <1>1, <2>4, TxnByOp DEF Serves
    <3>2. txn[g].op \in AboutItems =>
            /\ txn[g].on \in Items \ {txn[h].on}
            /\ item'[txn[g].on] = item[txn[g].on]
            /\ announced'[txn[g].on] = announced[txn[g].on]
            /\ AllResolved(txn[g].on) => AllResolved(txn[g].on)'
      BY <1>1, <2>4, TxnByOp DEF Serves
    <3>3. ASSUME txn[g].on \notin ghost'.contended
          PROVE  StillRead(g)'
      <4>1. StillRead(g)
        BY <2>1, <2>4, <3>3 DEF RequestOK, Serves, Grows
      <4>2. PICK x : x = txn[g].on
        OBVIOUS
      <4>3. txn'[g].on = x
        BY <2>1, <4>2
      <4>4. txn[g].op \in AboutSessions => PresentIn(x)' = PresentIn(x)
        BY <3>1, <4>2 DEF PresentIn
      <4>5. /\ txn[g].op \in {"configuring", "deleting"} => session'[x].status = "PENDING"
            /\ txn[g].op = "changing" =>
                /\ txn[g].read = session'[x].status
                /\ txn[g].status = "ACTIVE" =>
                    HasCertifiedQuorum(session'[x].presType, TRUE,
                                       Cardinality(PresentIn(x)'), Cardinality(roll'))
            /\ txn[g].op = "announcing" => txn[g].status = session'[x].status
            /\ txn[g].op = "marking" => txn[g].read = attendance'[x]
        <5>1. roll' = roll
          BY DEF Serves
        <5>2. QED
          BY <3>1, <4>1, <4>2, <4>4, <5>1 DEF StillRead, AboutSessions
      <4>6. /\ txn[g].op \in {"editing", "saving"} /\ x \notin ghost'.proclaimed =>
                    txn[g].read = item'[x].status
            /\ txn[g].op = "saving" /\ x \notin ghost'.unsaved => announced'[x] = txn[g].status
            /\ txn[g].op = "withdrawing" /\ x \notin ghost'.rectifiable => AllResolved(x)'
        <5>1. Grows
          BY DEF Serves
        <5>2. AllResolved(txn[g].on)' = AllResolved(x)'
          BY <2>1, <4>2 DEF AllResolved
        <5>3. QED
          BY <3>2, <4>1, <4>2, <5>1, <5>2 DEF StillRead, AboutItems, Grows
      <4>7. QED
        BY <2>1, <4>3, <4>5, <4>6 DEF StillRead, AllResolved, PresentIn
    <3>4. QED
      BY <2>1, <3>1, <3>3 DEF RequestOK
  <2>5. QED
    BY <2>2, <2>3, <2>4
<1>3. Sole'
  BY <1>1 DEF Sole, Serves, Grows
<1>4. QED
  BY <1>2, <1>3 DEF RequestsInv

LEMMA ServingKeepsRows ==
    ASSUME IInv, NEW h \in Handlers, Serves(h), NEW x, x = txn[h].on,
           x \in Sessions => SessionOK(x)', x \in Items => ItemOK(x)',
           x \in Current' => x \in Current \cup Creating \cup ghost'.closed
    PROVE  RowsInv'
<1>1. /\ \A g \in Handlers \ {h} : txn'[g] = txn[g]
      /\ txn'[h] = Idle \/ (txn'[h].op \in {"announcing", "saving"} /\ txn'[h].on = x)
      /\ Grows /\ RowsInv
  BY DEF Serves, IInv
<1>2. ASSUME NEW s \in Sessions, s # x PROVE SessionOK(s)'
  <2>1. SessionOK(s) /\ session'[s] = session[s] /\ announced'[s] = announced[s]
    BY <1>1, <1>2 DEF RowsInv, Serves
  <2>2. (\A g \in Handlers : txn'[g].op = "announcing" => txn'[g].on # s)
            => \A g \in Handlers : txn[g].op = "announcing" => txn[g].on # s
    BY <1>1, <1>2
  <2>3. QED
    BY <1>1, <2>1, <2>2 DEF SessionOK, Grows
<1>3. ASSUME NEW i \in Items, i # x PROVE ItemOK(i)'
  <2>1. /\ ItemOK(i) /\ item'[i] = item[i] /\ announced'[i] = announced[i]
        /\ AllResolved(i) => AllResolved(i)'
    BY <1>1, <1>3 DEF RowsInv, Serves
  <2>2. (\A g \in Handlers : txn'[g].op = "saving" => txn'[g].on # i)
            => \A g \in Handlers : txn[g].op = "saving" => txn[g].on # i
    BY <1>1, <1>3
  <2>3. (\A g \in Handlers : txn[g].op = "drafting" => txn[g].on # i)
            => \A g \in Handlers : txn'[g].op = "drafting" => txn'[g].on # i
    BY <1>1 DEF Idle
  <2>4. ASSUME i \notin ghost'.contended \cup ghost'.unsaved \cup ghost'.proclaimed,
               \A g \in Handlers : txn'[g].op = "saving" => txn'[g].on # i
        PROVE  announced'[i] \in {"NONE", item'[i].status}
    BY <1>1, <2>1, <2>2, <2>4 DEF ItemOK, Grows
  <2>5. ASSUME item'[i].deleted, i \notin ghost'.contended \cup ghost'.rectifiable
        PROVE  AllResolved(i)' /\ \A g \in Handlers : txn'[g].op = "drafting" => txn'[g].on # i
    BY <1>1, <2>1, <2>3, <2>5 DEF ItemOK, Grows
  <2>6. QED
    BY <2>4, <2>5 DEF ItemOK
<1>4. OneCurrent'
  <2>1. OneCurrent
    BY <1>1 DEF RowsInv
  <2>2. Creating' \subseteq Creating
    BY <1>1 DEF Creating, Idle
  <2>3. Current' \subseteq Current \cup {x}
    BY DEF Current, Exists, Serves
  <2>4. \A s \in Current' \cup Creating' : s \in Current \cup Creating \cup ghost'.closed
    BY <2>2, <2>3
  <2>5. QED
    BY <1>1, <2>1, <2>4 DEF OneCurrent, Grows
<1>5. QED
  BY <1>2, <1>3, <1>4 DEF RowsInv

\* A request that ends leaves nothing to say of itself.
LEMMA EndsOK ==
    ASSUME NEW h \in Handlers, txn'[h] = Idle
    PROVE  RequestOK(h)'
BY DEF RequestOK, Idle, AboutSessions

LEMMA CommitCreateServes ==
    ASSUME IInv, NEW h \in Handlers, NEW officer, CommitCreate(h, officer)
    PROVE  TypeOK' /\ Serves(h) /\ RequestOK(h)' /\ RowsInv'
<1>1. PICK s \in Sessions : s = txn[h].on /\ txn[h].presType \in PresidentType
  BY TxnByOp DEF CommitCreate, IInv
<1>2. /\ session' = [session EXCEPT ![s] =
            [status |-> "PENDING", deleted |-> FALSE, presType |-> txn[h].presType]]
      /\ attendance' = [attendance EXCEPT ![s] =
            [l \in Legislators |->
                IF l \notin roll THEN "NONE"
                ELSE IF l = officer THEN "PRESENT" ELSE "ABSENT"]]
      /\ txn[h].op = "creating" /\ Finish(h)
      /\ UNCHANGED <<roll, item, round, announced, requests, ghost>>
  BY <1>1 DEF CommitCreate, agenda
<1>3. TypeOK /\ RequestOK(h) /\ SessionOK(s)
  BY DEF IInv, RequestsInv, RowsInv
<1>4. session[s] = NoSession /\ announced[s] = "NONE"
  BY <1>1, <1>2, <1>3 DEF RequestOK, SessionOK
<1>5. TypeOK'
  <2>1. session' \in [Sessions -> SessionRow]
    BY <1>1, <1>2, <1>3 DEF TypeOK, SessionRow, SessionStatus
  <2>2. attendance' \in [Sessions -> Ledger]
    <3>1. [l \in Legislators |-> IF l \notin roll THEN "NONE"
                ELSE IF l = officer THEN "PRESENT" ELSE "ABSENT"] \in Ledger
      BY DEF Ledger, Attendance
    <3>2. QED
      BY <1>2, <1>3, <3>1 DEF TypeOK
  <2>3. QED
    BY <1>2, <1>3, <2>1, <2>2, FinishType DEF TypeOK
<1>6. /\ txn'[h] = Idle /\ txn[h] # Idle /\ \A g \in Handlers \ {h} : txn'[g] = txn[g]
  BY <1>2, <1>3, FinishType DEF Idle
<1>7. Serves(h)
  <2>1. session'[s] # NoSession
    BY <1>2, <1>3 DEF TypeOK, NoSession
  <2>2. ASSUME NEW i \in Items, AllResolved(i) PROVE AllResolved(i)'
    BY <1>2, <2>2 DEF AllResolved
  <2>3. \A z \in Sessions \ {s} : session'[z] = session[z] /\ attendance'[z] = attendance[z]
    BY <1>2, <1>3 DEF TypeOK
  <2>4. roll' = roll /\ item' = item /\ announced' = announced /\ Grows
    BY <1>2 DEF Grows
  <2>5. \A z \in Sessions : session[z] # NoSession => session'[z] # NoSession
    BY <2>1, <2>3
  <2>6. QED
    BY <1>1, <1>6, <2>2, <2>3, <2>4, <2>5 DEF Serves
<1>8. SessionOK(s)'
  BY <1>2, <1>3, <1>4 DEF SessionOK, TypeOK, NoSession
<1>9. s \in Creating
  BY <1>1, <1>2 DEF Creating
<1>10. RowsInv'
  BY <1>1, <1>7, <1>8, <1>9, ServingKeepsRows, SessionsAssumption
<1>11. QED
  BY <1>5, <1>6, <1>7, <1>10, EndsOK

\* A row written over.
LEMMA RowWritten ==
    ASSUME TypeOK, NEW h \in Handlers, NEW s \in Sessions, s = txn[h].on, txn[h] # Idle,
           \A g \in Handlers \ {h} : txn'[g] = txn[g],
           txn'[h] = Idle \/ (txn'[h].op \in {"announcing", "saving"} /\ txn'[h].on = s),
           NEW row \in SessionRow, row # NoSession,
           session' = [session EXCEPT ![s] = row], Grows,
           UNCHANGED <<attendance, roll, item, round, announced>>
    PROVE  Serves(h) /\ session' \in [Sessions -> SessionRow] /\ session'[s] = row
<1>1. session' \in [Sessions -> SessionRow] /\ session'[s] = row
  BY DEF TypeOK
<1>2. \A z \in Sessions \ {s} : session'[z] = session[z]
  BY DEF TypeOK
<1>3. ASSUME NEW i \in Items, AllResolved(i) PROVE AllResolved(i)'
  BY <1>3 DEF AllResolved
<1>4. \A z \in Sessions : session[z] # NoSession => session'[z] # NoSession
  BY <1>1, <1>2
<1>5. QED
  BY <1>1, <1>2, <1>3, <1>4 DEF Serves

LEMMA RewriteServes ==
    ASSUME IInv, NEW h \in Handlers, txn[h].op \in {"configuring", "deleting"},
           NEW s \in Sessions, s = txn[h].on, Finish(h),
           NEW row \in SessionRow, row # NoSession,
           session' = [session EXCEPT ![s] = row],
           row.status = session[s].status, session[s].deleted => row.deleted,
           UNCHANGED <<attendance, roll, item, round, announced, requests, ghost>>
    PROVE  TypeOK' /\ Serves(h) /\ RequestOK(h)' /\ RowsInv'
<1>1. TypeOK /\ RequestOK(h) /\ SessionOK(s)
  BY DEF IInv, RequestsInv, RowsInv
<1>2. /\ txn'[h] = Idle /\ txn[h] # Idle /\ \A g \in Handlers \ {h} : txn'[g] = txn[g]
  BY <1>1, FinishType DEF Idle
<1>3. Serves(h) /\ session' \in [Sessions -> SessionRow] /\ session'[s] = row
  BY <1>1, <1>2, RowWritten DEF Grows
<1>4. TypeOK'
  BY <1>1, <1>3, FinishType DEF TypeOK
<1>5. session[s] # NoSession
  BY <1>1 DEF RequestOK, AboutSessions
<1>6. SessionOK(s)'
  <2>1. txn[h].op # "announcing"
    OBVIOUS
  <2>2. (\A g \in Handlers : txn'[g].op = "announcing" => txn'[g].on # s)
            => \A g \in Handlers : txn[g].op = "announcing" => txn[g].on # s
    BY <1>2, <2>1
  <2>3. QED
    BY <1>1, <1>3, <1>5, <2>2 DEF SessionOK
<1>7. s \in Current' => s \in Current
  BY <1>3, <1>5 DEF Current, Exists, TypeOK, SessionRow, SessionStatus
<1>8. RowsInv'
  BY <1>3, <1>6, <1>7, ServingKeepsRows, SessionsAssumption
<1>9. QED
  BY <1>2, <1>3, <1>4, <1>8, EndsOK

LEMMA CommitConfigureServes ==
    ASSUME IInv, NEW h \in Handlers, CommitConfigure(h)
    PROVE  TypeOK' /\ Serves(h) /\ RequestOK(h)' /\ RowsInv'
<1>1. PICK s \in Sessions : s = txn[h].on
  BY TxnByOp DEF CommitConfigure, IInv, AboutSessions
<1>2. TypeOK /\ RequestOK(h)
  BY DEF IInv, RequestsInv
<1>3. txn[h].presType \in PresidentType /\ session[s] # NoSession
  BY <1>1, <1>2, TxnByOp DEF CommitConfigure, RequestOK, AboutSessions
<1> DEFINE row == [session[s] EXCEPT !.presType = txn[h].presType]
<1>4. /\ row \in SessionRow /\ row.status = session[s].status /\ row.deleted = session[s].deleted
      /\ row.status \in SessionStatus
  BY <1>2, <1>3 DEF TypeOK, SessionRow
<1>5. row # NoSession
  BY <1>4 DEF SessionStatus, NoSession
<1>6. /\ session' = [session EXCEPT ![s] = row] /\ txn[h].op = "configuring" /\ Finish(h)
      /\ UNCHANGED <<attendance, roll, item, round, announced, requests, ghost>>
  BY <1>1, <1>2 DEF CommitConfigure, agenda, TypeOK
<1> HIDE DEF row
<1>7. QED
  BY <1>1, <1>4, <1>5, <1>6, RewriteServes

LEMMA CommitDeleteServes ==
    ASSUME IInv, NEW h \in Handlers, CommitDelete(h)
    PROVE  TypeOK' /\ Serves(h) /\ RequestOK(h)' /\ RowsInv'
<1>1. PICK s \in Sessions : s = txn[h].on
  BY TxnByOp DEF CommitDelete, IInv, AboutSessions
<1>2. TypeOK /\ RequestOK(h)
  BY DEF IInv, RequestsInv
<1>3. session[s] # NoSession
  BY <1>1, <1>2 DEF CommitDelete, RequestOK, AboutSessions
<1> DEFINE row == [session[s] EXCEPT !.deleted = TRUE]
<1>4. /\ row \in SessionRow /\ row.status = session[s].status /\ row.deleted
      /\ row.status \in SessionStatus
  BY <1>2, <1>3 DEF TypeOK, SessionRow
<1>5. row # NoSession
  BY <1>4 DEF SessionStatus, NoSession
<1>6. /\ session' = [session EXCEPT ![s] = row] /\ txn[h].op = "deleting" /\ Finish(h)
      /\ UNCHANGED <<attendance, roll, item, round, announced, requests, ghost>>
  BY <1>1, <1>2 DEF CommitDelete, agenda, TypeOK
<1> HIDE DEF row
<1>7. QED
  BY <1>1, <1>4, <1>5, <1>6, RewriteServes

LEMMA CommitStatusServes ==
    ASSUME IInv, NEW h \in Handlers, CommitStatus(h)
    PROVE  TypeOK' /\ Serves(h) /\ RequestOK(h)' /\ RowsInv'
<1>1. PICK s \in Sessions, t \in Txn :
        /\ s = txn[h].on /\ t = txn[h]
        /\ t.op = "changing" /\ t.status \in SessionStatus /\ t.read \in SessionStatus
  <2>1. txn[h].op = "changing" /\ TypeOK
    BY DEF CommitStatus, IInv
  <2>2. txn[h] \in Txn
    BY <2>1 DEF TypeOK
  <2>3. QED
    BY <2>1, <2>2, TxnByOp DEF AboutSessions
<1>2. TypeOK /\ RequestOK(h) /\ SessionOK(s) /\ Sole
  BY DEF IInv, RequestsInv, RowsInv
<1>3. session[s] # NoSession /\ session[s] \in SessionRow
  BY <1>1, <1>2 DEF RequestOK, AboutSessions, TypeOK
<1> DEFINE row == IF t.status = t.read THEN session[s] ELSE [session[s] EXCEPT !.status = t.status]
           u == [op |-> "announcing", on |-> s, status |-> t.status]
<1>4. /\ row \in SessionRow /\ row.status \in SessionStatus /\ row.deleted = session[s].deleted
      /\ row.status = session[s].status \/ row.status = t.status
      /\ t.read = session[s].status => row.status = t.status
  BY <1>1, <1>3 DEF SessionRow
<1>5. row # NoSession
  BY <1>4 DEF SessionStatus, NoSession
<1>6. /\ session' = [session EXCEPT ![s] = row] /\ txn' = [txn EXCEPT ![h] = u]
      /\ UNCHANGED <<attendance, roll, item, round, announced, requests>>
  BY <1>1, <1>2 DEF CommitStatus, agenda, TypeOK
<1>7. u \in Txn /\ u # Idle /\ u.op = "announcing" /\ u.on = s /\ u.status = t.status
  BY <1>1 DEF Txn, Idle
<1> HIDE DEF row, u
<1>8. /\ txn' \in [Handlers -> Txn] /\ txn'[h] = u
      /\ \A g \in Handlers \ {h} : txn'[g] = txn[g]
  BY <1>2, <1>6, <1>7 DEF TypeOK
<1>9. session'[s] = row
  BY <1>2, <1>6 DEF TypeOK
<1>10. ghost' = [ghost EXCEPT !.closed = ghost.closed \cup {z \in {s} : session'[z].status = "CLOSED"}]
  BY <1>1 DEF CommitStatus
<1>11. ghost' \in Ghosts /\ Grows
  <2>1. {z \in {s} : session'[z].status = "CLOSED"} \in SUBSET Sessions
    OBVIOUS
  <2>2. QED
    BY <1>2, <1>10, <2>1, History
<1>12. row.status = "CLOSED" => s \in ghost'.closed
  BY <1>2, <1>9, <1>10 DEF TypeOK, Ghosts
<1>13. Serves(h) /\ session' \in [Sessions -> SessionRow]
  <2>1. txn[h] # Idle
    BY <1>1 DEF Idle
  <2>2. QED
    BY <1>1, <1>2, <1>4, <1>5, <1>6, <1>7, <1>8, <1>11, <2>1, RowWritten
<1>14. TypeOK'
  BY <1>2, <1>6, <1>8, <1>11, <1>13 DEF TypeOK
<1>15. RequestOK(h)'
  <2>1. s \notin ghost.contended => t.read = session[s].status
    <3>1. txn[h] # Idle
      BY <1>1 DEF Idle
    <3>2. s \notin ghost.contended => StillRead(h)
      BY <1>1, <1>2, <3>1 DEF RequestOK
    <3>3. QED
      BY <1>1, <3>2 DEF StillRead
  <2>2. s \notin ghost'.contended => u.status = row.status
    BY <1>4, <1>7, <1>11, <2>1 DEF Grows
  <2>3. QED
    BY <1>5, <1>7, <1>8, <1>9, <2>2 DEF RequestOK, StillRead, AboutSessions
<1>16. SessionOK(s)'
  <2>1. txn'[h].op = "announcing" /\ txn'[h].on = s
    BY <1>7, <1>8
  <2>2. QED
    BY <1>5, <1>9, <1>12, <2>1 DEF SessionOK
<1>17. s \in Current' => s \in Current \cup Creating \cup ghost'.closed
  <2>1. session[s].status = "CLOSED" => s \in ghost'.closed
    BY <1>2, <1>11 DEF SessionOK, Grows
  <2>2. session[s].status # "NONE"
    BY <1>3 DEF SessionRow, SessionStatus
  <2>3. QED
    BY <1>4, <1>9, <2>1, <2>2 DEF Current, Exists
<1>18. RowsInv'
  BY <1>1, <1>13, <1>16, <1>17, ServingKeepsRows, SessionsAssumption
<1>19. QED
  BY <1>13, <1>14, <1>15, <1>18

LEMMA AnnounceStatusServes ==
    ASSUME IInv, NEW h \in Handlers, AnnounceStatus(h)
    PROVE  TypeOK' /\ Serves(h) /\ RequestOK(h)' /\ RowsInv'
<1>1. PICK s \in Sessions, status \in SessionStatus :
        s = txn[h].on /\ status = txn[h].status /\ txn[h].op = "announcing"
  <2>1. txn[h].op = "announcing" /\ TypeOK
    BY DEF AnnounceStatus, IInv
  <2>2. QED
    BY <2>1, TxnByOp
<1>2. TypeOK /\ RequestOK(h) /\ SessionOK(s)
  BY DEF IInv, RequestsInv, RowsInv
<1>3. /\ announced' = [announced EXCEPT ![s] = status] /\ Finish(h)
      /\ UNCHANGED <<session, attendance, roll, item, round, requests, ghost>>
  BY <1>1 DEF AnnounceStatus, agenda, ledger
<1>4. /\ txn'[h] = Idle /\ txn[h] # Idle /\ \A g \in Handlers \ {h} : txn'[g] = txn[g]
  BY <1>1, <1>2, <1>3, FinishType DEF Idle
<1>5. announced'[s] = status /\ \A x \in (Sessions \cup Items) \ {s} : announced'[x] = announced[x]
  BY <1>2, <1>3 DEF TypeOK
<1>6. TypeOK'
  <2>1. announced' \in [Sessions \cup Items -> SessionStatus \cup ItemStatus \cup {"NONE"}]
    BY <1>2, <1>3 DEF TypeOK
  <2>2. QED
    BY <1>2, <1>3, <2>1, FinishType DEF TypeOK
<1>7. Serves(h)
  <2>1. ASSUME NEW i \in Items, AllResolved(i) PROVE AllResolved(i)'
    BY <1>3, <2>1 DEF AllResolved
  <2>2. QED
    BY <1>1, <1>3, <1>4, <1>5, <2>1 DEF Serves, Grows
<1>8. SessionOK(s)'
  <2>1. session[s] # NoSession
    BY <1>1, <1>2 DEF RequestOK, AboutSessions
  <2>2. s \notin ghost.contended => status = session[s].status
    <3>1. s \notin ghost.contended => StillRead(h)
      BY <1>1, <1>2, <1>4 DEF RequestOK
    <3>2. QED
      BY <1>1, <3>1 DEF StillRead
  <2>3. QED
    BY <1>2, <1>3, <1>5, <2>1, <2>2 DEF SessionOK
<1>9. Current' = Current
  BY <1>3 DEF Current, Exists
<1>10. RowsInv'
  BY <1>1, <1>7, <1>8, <1>9, ServingKeepsRows, SessionsAssumption
<1>11. QED
  BY <1>4, <1>6, <1>7, <1>10, EndsOK

LEMMA CommitMarkServes ==
    ASSUME IInv, NEW h \in Handlers, CommitMark(h)
    PROVE  TypeOK' /\ Serves(h) /\ RequestOK(h)' /\ RowsInv'
<1>1. PICK s \in Sessions, t \in Txn :
        s = txn[h].on /\ t = txn[h] /\ t.op = "marking" /\ t.marks \in Marks
  <2>1. txn[h].op = "marking" /\ TypeOK
    BY DEF CommitMark, IInv
  <2>2. txn[h] \in Txn
    BY <2>1 DEF TypeOK
  <2>3. QED
    BY <2>1, <2>2, TxnByOp DEF AboutSessions
<1>2. TypeOK /\ SessionOK(s)
  BY DEF IInv, RowsInv
<1>3. /\ attendance' = [attendance EXCEPT ![s] = [l \in Legislators |-> Marked(t, l)]]
      /\ Finish(h)
      /\ UNCHANGED <<session, roll, item, round, announced, requests, ghost>>
  BY <1>1 DEF CommitMark, agenda
<1>4. /\ txn'[h] = Idle /\ txn[h] # Idle /\ \A g \in Handlers \ {h} : txn'[g] = txn[g]
  BY <1>1, <1>2, <1>3, FinishType DEF Idle
<1>5. TypeOK'
  <2>1. [l \in Legislators |-> Marked(t, l)] \in Ledger
    BY <1>1, <1>2 DEF Marked, Ledger, Marks, TypeOK
  <2>2. attendance' \in [Sessions -> Ledger]
    BY <1>2, <1>3, <2>1 DEF TypeOK
  <2>3. QED
    BY <1>2, <1>3, <2>2, FinishType DEF TypeOK
<1>6. Serves(h)
  <2>1. ASSUME NEW i \in Items, AllResolved(i) PROVE AllResolved(i)'
    BY <1>3, <2>1 DEF AllResolved
  <2>2. \A z \in Sessions \ {s} : attendance'[z] = attendance[z]
    BY <1>2, <1>3 DEF TypeOK
  <2>3. QED
    BY <1>1, <1>3, <1>4, <2>1, <2>2 DEF Serves, Grows
<1>7. SessionOK(s)'
  <2>1. (\A g \in Handlers : txn'[g].op = "announcing" => txn'[g].on # s)
            => \A g \in Handlers : txn[g].op = "announcing" => txn[g].on # s
    BY <1>1, <1>4
  <2>2. QED
    BY <1>2, <1>3, <2>1 DEF SessionOK
<1>8. Current' = Current
  BY <1>3 DEF Current, Exists
<1>9. RowsInv'
  BY <1>1, <1>6, <1>7, <1>8, ServingKeepsRows, SessionsAssumption
<1>10. QED
  BY <1>4, <1>5, <1>6, <1>9, EndsOK

\* A request about an item that goes on keeps the rows if its item is as it
\* should be; no session is concerned.
LEMMA ItemServes ==
    ASSUME IInv, NEW h \in Handlers, NEW i \in Items, i = txn[h].on, Serves(h),
           UNCHANGED session, ItemOK(i)'
    PROVE  RowsInv'
<1>1. Current' = Current
  BY DEF Current, Exists
<1>2. QED
  BY <1>1, ServingKeepsRows, SessionsAssumption

LEMMA AnnounceEditServes ==
    ASSUME IInv, NEW h \in Handlers, AnnounceEdit(h)
    PROVE  TypeOK' /\ Serves(h) /\ RequestOK(h)' /\ RowsInv'
<1>1. PICK i \in Items, t \in Txn :
        /\ i = txn[h].on /\ t = txn[h] /\ t.op = "editing"
        /\ t \in [op: {"editing", "saving"}, on: Items, read: ItemStatus, status: ItemStatus]
  <2>1. txn[h].op = "editing" /\ TypeOK
    BY DEF AnnounceEdit, IInv
  <2>2. txn[h] \in Txn
    BY <2>1 DEF TypeOK
  <2>3. QED
    BY <2>1, <2>2, TxnByOp DEF AboutItems
<1>2. TypeOK /\ RequestOK(h) /\ ItemOK(i)
  BY DEF IInv, RequestsInv, RowsInv
<1> DEFINE u == [t EXCEPT !.op = "saving"]
<1>3. /\ announced' = [announced EXCEPT ![i] = t.status] /\ txn' = [txn EXCEPT ![h] = u]
      /\ UNCHANGED <<session, attendance, roll, item, round, requests, ghost>>
  BY <1>1, <1>2 DEF AnnounceEdit, agenda, ledger, TypeOK
<1>4. /\ u \in Txn /\ u # Idle /\ u.op = "saving" /\ u.on = i
      /\ u.status = t.status /\ u.read = t.read
  BY <1>1 DEF Txn, Idle
<1> HIDE DEF u
<1>5. /\ txn' \in [Handlers -> Txn] /\ txn'[h] = u
      /\ \A g \in Handlers \ {h} : txn'[g] = txn[g]
  BY <1>2, <1>3, <1>4 DEF TypeOK
<1>6. announced'[i] = t.status /\ \A x \in (Sessions \cup Items) \ {i} : announced'[x] = announced[x]
  BY <1>2, <1>3 DEF TypeOK
<1>7. TypeOK'
  <2>1. announced' \in [Sessions \cup Items -> SessionStatus \cup ItemStatus \cup {"NONE"}]
    BY <1>1, <1>2, <1>3 DEF TypeOK
  <2>2. QED
    BY <1>2, <1>3, <1>5, <2>1 DEF TypeOK
<1>8. Serves(h)
  <2>1. ASSUME NEW j \in Items, AllResolved(j) PROVE AllResolved(j)'
    BY <1>3, <2>1 DEF AllResolved
  <2>2. txn[h] # Idle
    BY <1>1 DEF Idle
  <2>3. QED
    BY <1>1, <1>3, <1>4, <1>5, <1>6, <2>1, <2>2 DEF Serves, Grows
<1>9. RequestOK(h)'
  <2>1. txn[h] # Idle
    BY <1>1 DEF Idle
  <2>2. i \notin ghost.contended /\ i \notin ghost.proclaimed => t.read = item[i].status
    <3>1. i \notin ghost.contended => StillRead(h)
      BY <1>1, <1>2, <2>1 DEF RequestOK
    <3>2. QED
      BY <1>1, <3>1 DEF StillRead
  <2>3. QED
    BY <1>3, <1>4, <1>5, <1>6, <2>2 DEF RequestOK, StillRead, AboutSessions
<1>10. ItemOK(i)'
  <2>1. txn'[h].op = "saving" /\ txn'[h].on = i
    BY <1>4, <1>5
  <2>2. (\A g \in Handlers : txn[g].op = "drafting" => txn[g].on # i)
            => \A g \in Handlers : txn'[g].op = "drafting" => txn'[g].on # i
    BY <1>5, <2>1
  <2>3. AllResolved(i) => AllResolved(i)'
    BY <1>3 DEF AllResolved
  <2>4. QED
    BY <1>2, <1>3, <2>1, <2>2, <2>3 DEF ItemOK
<1>11. RowsInv'
  BY <1>1, <1>3, <1>8, <1>10, ItemServes
<1>12. QED
  BY <1>7, <1>8, <1>9, <1>11

\* An item written over.
LEMMA ItemWritten ==
    ASSUME TypeOK, NEW h \in Handlers, NEW i \in Items, i = txn[h].on, txn[h] # Idle,
           Finish(h), NEW row \in ItemRow, item' = [item EXCEPT ![i] = row],
           UNCHANGED <<session, attendance, roll, round, announced, requests, ghost>>
    PROVE  TypeOK' /\ Serves(h) /\ RequestOK(h)' /\ item'[i] = row
<1>1. item' \in [Items -> ItemRow] /\ item'[i] = row /\ \A j \in Items \ {i} : item'[j] = item[j]
  BY DEF TypeOK
<1>2. ASSUME NEW j \in Items, AllResolved(j) PROVE AllResolved(j)'
  BY <1>2 DEF AllResolved
<1>3. txn' \in [Handlers -> Txn] /\ txn'[h] = Idle /\ \A g \in Handlers \ {h} : txn'[g] = txn[g]
  BY FinishType
<1>4. TypeOK'
  BY <1>1, <1>3 DEF TypeOK
<1>5. Serves(h)
  BY <1>1, <1>2, <1>3 DEF Serves, Grows
<1>6. QED
  BY <1>1, <1>3, <1>4, <1>5, EndsOK

LEMMA CommitEditServes ==
    ASSUME IInv, NEW h \in Handlers, CommitEdit(h)
    PROVE  TypeOK' /\ Serves(h) /\ RequestOK(h)' /\ RowsInv'
<1>1. PICK i \in Items, t \in Txn :
        /\ i = txn[h].on /\ t = txn[h] /\ t.op = "saving"
        /\ t \in [op: {"editing", "saving"}, on: Items, read: ItemStatus, status: ItemStatus]
  <2>1. txn[h].op = "saving" /\ TypeOK
    BY DEF CommitEdit, IInv
  <2>2. txn[h] \in Txn
    BY <2>1 DEF TypeOK
  <2>3. QED
    BY <2>1, <2>2, TxnByOp DEF AboutItems
<1>2. TypeOK /\ RequestOK(h) /\ ItemOK(i) /\ txn[h] # Idle
  BY <1>1 DEF IInv, RequestsInv, RowsInv, Idle
<1>3. /\ Saved(t) \in ItemRow /\ Saved(t).deleted = item[i].deleted
      /\ t.read = item[i].status => Saved(t).status = t.status
  BY <1>1, <1>2 DEF Saved, TypeOK, ItemRow
<1>4. /\ item' = [item EXCEPT ![i] = Saved(t)] /\ Finish(h)
      /\ UNCHANGED <<session, attendance, roll, round, announced, requests, ghost>>
  BY <1>1 DEF CommitEdit, ledger
<1>5. TypeOK' /\ Serves(h) /\ RequestOK(h)' /\ item'[i] = Saved(t)
  <2>1. PICK row \in ItemRow : row = Saved(t)
    BY <1>3
  <2>2. QED
    BY <1>1, <1>2, <1>4, <2>1, ItemWritten
<1>6. ItemOK(i)'
  <2>1. ASSUME i \notin ghost.contended \cup ghost.unsaved \cup ghost.proclaimed
        PROVE  announced[i] = Saved(t).status
    <3>1. StillRead(h)
      BY <1>1, <1>2, <2>1 DEF RequestOK
    <3>2. QED
      BY <1>1, <1>3, <2>1, <3>1 DEF StillRead
  <2>2. txn'[h] = Idle /\ \A g \in Handlers \ {h} : txn'[g] = txn[g]
    BY <1>2, <1>4, FinishType
  <2>3. (\A g \in Handlers : txn[g].op = "drafting" => txn[g].on # i)
            => \A g \in Handlers : txn'[g].op = "drafting" => txn'[g].on # i
    BY <2>2 DEF Idle
  <2>4. AllResolved(i) => AllResolved(i)'
    BY <1>4 DEF AllResolved
  <2>5. QED
    BY <1>2, <1>3, <1>4, <1>5, <2>1, <2>3, <2>4 DEF ItemOK
<1>7. RowsInv'
  BY <1>1, <1>4, <1>5, <1>6, ItemServes
<1>8. QED
  BY <1>5, <1>7

LEMMA CommitWithdrawServes ==
    ASSUME IInv, NEW h \in Handlers, CommitWithdraw(h)
    PROVE  TypeOK' /\ Serves(h) /\ RequestOK(h)' /\ RowsInv'
<1>1. PICK i \in Items : i = txn[h].on /\ txn[h].op = "withdrawing"
  BY TxnByOp DEF CommitWithdraw, IInv, AboutItems
<1>2. TypeOK /\ RequestOK(h) /\ ItemOK(i) /\ Sole /\ txn[h] # Idle
  BY <1>1 DEF IInv, RequestsInv, RowsInv, Idle
<1> DEFINE row == [item[i] EXCEPT !.deleted = TRUE]
<1>3. row \in ItemRow /\ row.status = item[i].status
  BY <1>2 DEF TypeOK, ItemRow
<1>4. /\ item' = [item EXCEPT ![i] = row] /\ Finish(h)
      /\ UNCHANGED <<session, attendance, roll, round, announced, requests, ghost>>
  BY <1>1, <1>2 DEF CommitWithdraw, ledger, TypeOK
<1> HIDE DEF row
<1>5. TypeOK' /\ Serves(h) /\ RequestOK(h)' /\ item'[i] = row
  BY <1>1, <1>2, <1>3, <1>4, ItemWritten
<1>6. ItemOK(i)'
  <2>1. txn'[h] = Idle /\ \A g \in Handlers \ {h} : txn'[g] = txn[g]
    BY <1>2, <1>4, FinishType
  <2>2. (\A g \in Handlers : txn'[g].op = "saving" => txn'[g].on # i)
            => \A g \in Handlers : txn[g].op = "saving" => txn[g].on # i
    BY <1>1, <2>1
  <2>3. ASSUME i \notin ghost.contended \cup ghost.rectifiable
        PROVE  AllResolved(i) /\ \A g \in Handlers : txn[g].op = "drafting" => txn[g].on # i
    <3>1. StillRead(h)
      BY <1>1, <1>2, <2>3 DEF RequestOK
    <3>2. \A g \in Handlers : txn[g].op = "drafting" => txn[g].on # i
      BY <1>1, <1>2, <2>3 DEF Sole, Idle
    <3>3. QED
      BY <1>1, <2>3, <3>1, <3>2 DEF StillRead
  <2>4. ASSUME i \notin ghost'.contended \cup ghost'.rectifiable
        PROVE  AllResolved(i)' /\ \A g \in Handlers : txn'[g].op = "drafting" => txn'[g].on # i
    BY <1>4, <2>1, <2>3, <2>4 DEF AllResolved, Idle
  <2>5. QED
    BY <1>2, <1>3, <1>4, <1>5, <2>2, <2>4 DEF ItemOK
<1>7. RowsInv'
  BY <1>1, <1>4, <1>5, <1>6, ItemServes
<1>8. QED
  BY <1>5, <1>7

LEMMA CommitDraftServes ==
    ASSUME IInv, NEW h \in Handlers, CommitDraft(h)
    PROVE  TypeOK' /\ Serves(h) /\ RequestOK(h)' /\ RowsInv'
<1>1. PICK i \in Items, r \in Rounds : i = txn[h].on /\ r = txn[h].round /\ txn[h].op = "drafting"
  <2>1. txn[h].op = "drafting" /\ TypeOK
    BY DEF CommitDraft, IInv
  <2>2. QED
    BY <2>1, TxnByOp
<1>2. TypeOK /\ ItemOK(i) /\ txn[h] # Idle
  BY <1>1 DEF IInv, RowsInv, Idle
<1>3. /\ round' = [round EXCEPT ![r] = [status |-> "DRAFT", item |-> i]] /\ Finish(h)
      /\ UNCHANGED <<session, attendance, roll, item, announced, requests, ghost>>
  BY <1>1 DEF CommitDraft, ledger
<1>4. txn' \in [Handlers -> Txn] /\ txn'[h] = Idle /\ \A g \in Handlers \ {h} : txn'[g] = txn[g]
  BY <1>2, <1>3, FinishType
<1>5. TypeOK'
  <2>1. round' \in [Rounds -> RoundRow]
    BY <1>2, <1>3 DEF TypeOK, RoundRow, RoundStatus, Live
  <2>2. QED
    BY <1>2, <1>3, <1>4, <2>1 DEF TypeOK
<1>6. Serves(h)
  <2>1. ASSUME NEW j \in Items, j # i, AllResolved(j) PROVE AllResolved(j)'
    BY <1>2, <1>3, <2>1 DEF AllResolved, TypeOK
  <2>2. QED
    BY <1>1, <1>2, <1>3, <1>4, <2>1 DEF Serves, Grows
<1>7. ItemOK(i)'
  <2>1. (\A g \in Handlers : txn'[g].op = "saving" => txn'[g].on # i)
            => \A g \in Handlers : txn[g].op = "saving" => txn[g].on # i
    BY <1>1, <1>4
  <2>2. item[i].deleted => i \in ghost.contended \cup ghost.rectifiable
    BY <1>1, <1>2 DEF ItemOK
  <2>3. QED
    BY <1>2, <1>3, <2>1, <2>2 DEF ItemOK
<1>8. RowsInv'
  BY <1>1, <1>3, <1>6, <1>7, ItemServes
<1>9. QED
  BY <1>4, <1>5, <1>6, <1>8, EndsOK

LEMMA RollbackServes ==
    ASSUME IInv, NEW h \in Handlers, Rollback(h)
    PROVE  TypeOK' /\ Serves(h) /\ RequestOK(h)' /\ RowsInv'
<1>1. PICK x \in Sessions \cup Items : x = txn[h].on
  BY TxnByOp DEF Rollback, IInv
<1>2. TypeOK /\ RowsInv /\ txn[h] # Idle /\ txn[h].op # "announcing"
  BY DEF IInv, Rollback, Idle
<1>3. /\ Finish(h) /\ UNCHANGED <<session, attendance, roll, item, round, announced, requests>>
      /\ ghost' = [ghost EXCEPT !.unsaved =
                      ghost.unsaved \cup {i \in {x} : txn[h].op = "saving"}]
  BY <1>1 DEF Rollback, ledger, agenda
<1>4. txn' \in [Handlers -> Txn] /\ txn'[h] = Idle /\ \A g \in Handlers \ {h} : txn'[g] = txn[g]
  BY <1>2, <1>3, FinishType
<1>5. ghost' \in Ghosts /\ Grows
  <2>1. {i \in {x} : txn[h].op = "saving"} \in SUBSET Items
    BY <1>1, <1>2, TxnByOp DEF AboutItems
  <2>2. QED
    BY <1>2, <1>3, <2>1, History
<1>6. txn[h].op = "saving" => x \in ghost'.unsaved
  BY <1>2, <1>3 DEF TypeOK, Ghosts
<1>7. TypeOK'
  BY <1>2, <1>3, <1>4, <1>5 DEF TypeOK
<1>8. ASSUME NEW j \in Items, AllResolved(j) PROVE AllResolved(j)'
  BY <1>3, <1>8 DEF AllResolved
<1>9. Serves(h)
  BY <1>1, <1>2, <1>3, <1>4, <1>5, <1>8 DEF Serves
<1>10. x \in Sessions => SessionOK(x)'
  <2>1. (\A g \in Handlers : txn'[g].op = "announcing" => txn'[g].on # x)
            => \A g \in Handlers : txn[g].op = "announcing" => txn[g].on # x
    BY <1>2, <1>4
  <2>2. QED
    BY <1>2, <1>3, <1>5, <2>1 DEF RowsInv, SessionOK, Grows
<1>11. x \in Items => ItemOK(x)'
  <2>1. SUFFICES ASSUME x \in Items, ItemOK(x) PROVE ItemOK(x)'
    BY <1>2 DEF RowsInv
  <2>2. ASSUME x \notin ghost'.contended \cup ghost'.unsaved \cup ghost'.proclaimed,
               \A g \in Handlers : txn'[g].op = "saving" => txn'[g].on # x
        PROVE  announced'[x] \in {"NONE", item'[x].status}
    <3>1. \A g \in Handlers : txn[g].op = "saving" => txn[g].on # x
      BY <1>4, <1>6, <2>2
    <3>2. QED
      BY <1>3, <1>5, <2>1, <2>2, <3>1 DEF ItemOK, Grows
  <2>3. (\A g \in Handlers : txn[g].op = "drafting" => txn[g].on # x)
            => \A g \in Handlers : txn'[g].op = "drafting" => txn'[g].on # x
    BY <1>4 DEF Idle
  <2>4. ASSUME item'[x].deleted, x \notin ghost'.contended \cup ghost'.rectifiable
        PROVE  AllResolved(x)' /\ \A g \in Handlers : txn'[g].op = "drafting" => txn'[g].on # x
    BY <1>3, <1>5, <1>8, <2>1, <2>3, <2>4 DEF ItemOK, Grows
  <2>5. QED
    BY <2>2, <2>4 DEF ItemOK
<1>12. Current' = Current
  BY <1>3 DEF Current, Exists
<1>13. RowsInv'
  BY <1>1, <1>9, <1>10, <1>11, <1>12, ServingKeepsRows
<1>14. QED
  BY <1>4, <1>7, <1>9, <1>13, EndsOK

-----------------------------------------------------------------------------
(* Rounds and the roll.                                                    *)

\* Steps outside the requests: those of a round leave no deleted item with one
\* that is not RESOLVED, those of the roll contend with the requests that may
\* have counted it.
Outside ==
    /\ UNCHANGED <<session, attendance, txn, announced>> /\ Grows
    /\ \A i \in Items :
        /\ item'[i].deleted = item[i].deleted
        /\ item'[i].status = item[i].status \/ i \in ghost'.proclaimed
        /\ AllResolved(i) => AllResolved(i)'
    /\ roll' = roll \/ InFlight \cap Sessions \subseteq ghost'.contended

LEMMA OutsideKeepsInvariant ==
    ASSUME IInv, Outside, TypeOK'
    PROVE  IInv'
<1>1. TypeOK /\ RequestsInv /\ RowsInv
  BY DEF IInv
<1>2. ASSUME NEW h \in Handlers PROVE RequestOK(h)'
  <2>1. RequestOK(h) /\ txn'[h] = txn[h] /\ session' = session /\ Grows
    BY <1>1 DEF RequestsInv, Outside
  <2>2. ASSUME txn[h] # Idle, txn[h].on \notin ghost'.contended
        PROVE  StillRead(h)'
    <3>1. StillRead(h)
      BY <2>1, <2>2 DEF RequestOK, Grows
    <3>2. PICK x : x = txn[h].on
      OBVIOUS
    <3>3. txn'[h].on = x /\ x \notin ghost'.contended
      BY <2>1, <2>2, <3>2
    <3>4. PresentIn(x)' = PresentIn(x)
      BY DEF PresentIn, Outside
    <3>5. txn[h].op = "changing" => roll' = roll
      <4>1. SUFFICES ASSUME txn[h].op = "changing" PROVE roll' = roll
        OBVIOUS
      <4>2. x \in InFlight \cap Sessions
        BY <1>1, <2>2, <3>2, <4>1, TxnByOp DEF InFlight, Serving, AboutSessions
      <4>3. QED
        BY <3>3, <4>2 DEF Outside
    <3>6. /\ txn[h].op \in {"configuring", "deleting"} => session'[x].status = "PENDING"
          /\ txn[h].op = "changing" =>
              /\ txn[h].read = session'[x].status
              /\ txn[h].status = "ACTIVE" =>
                  HasCertifiedQuorum(session'[x].presType, TRUE,
                                     Cardinality(PresentIn(x)'), Cardinality(roll'))
          /\ txn[h].op = "announcing" => txn[h].status = session'[x].status
          /\ txn[h].op = "marking" => txn[h].read = attendance'[x]
      BY <2>1, <3>1, <3>2, <3>4, <3>5 DEF StillRead, Outside
    <3>7. /\ txn[h].op \in {"editing", "saving"} /\ x \notin ghost'.proclaimed =>
                  txn[h].read = item'[x].status
          /\ txn[h].op = "saving" /\ x \notin ghost'.unsaved => announced'[x] = txn[h].status
      <4>1. txn[h].op \in AboutItems => x \in Items
        BY <1>1, <3>2, TxnByOp
      <4>2. QED
        BY <2>1, <3>1, <3>2, <4>1 DEF StillRead, Outside, Grows, AboutItems
    <3>8. txn[h].op = "withdrawing" /\ x \notin ghost'.rectifiable => AllResolved(x)'
      <4>1. txn[h].op \in AboutItems => x \in Items
        BY <1>1, <3>2, TxnByOp
      <4>2. txn[h].op = "withdrawing" /\ x \notin ghost'.rectifiable => AllResolved(x)
        BY <2>1, <3>1, <3>2 DEF StillRead, Grows
      <4>3. QED
        BY <4>1, <4>2 DEF Outside, AboutItems
    <3>9. QED
      BY <2>1, <3>3, <3>6, <3>7, <3>8 DEF StillRead, AllResolved, PresentIn
  <2>3. QED
    BY <2>1, <2>2 DEF RequestOK
<1>3. Sole'
  BY <1>1 DEF RequestsInv, Sole, Outside, Grows
<1>4. ASSUME NEW s \in Sessions PROVE SessionOK(s)'
  BY <1>1 DEF RowsInv, SessionOK, Outside, Grows
<1>5. ASSUME NEW i \in Items PROVE ItemOK(i)'
  BY <1>1 DEF RowsInv, ItemOK, Outside, Grows
<1>6. OneCurrent'
  <2>1. Current' = Current /\ Creating' = Creating
    BY DEF Current, Exists, Creating, Outside
  <2>2. QED
    BY <1>1, <2>1 DEF RowsInv, OneCurrent, Outside, Grows
<1>7. QED
  BY <1>2, <1>3, <1>4, <1>5, <1>6 DEF IInv, RequestsInv, RowsInv

LEMMA RoundStepOutside ==
    ASSUME TypeOK, NEW r \in Rounds, RoundStep(r)
    PROVE  Outside /\ TypeOK'
<1>1. CASE Advance(r)
  <2>1. PICK from \in {"DRAFT", "VOTING_OPEN", "VOTING_CLOSED"},
             to \in {"VOTING_OPEN", "VOTING_CLOSED", "TIED"} :
          round[r].status = from /\ round' = [round EXCEPT ![r].status = to]
    <3>1. PICK step \in {<<"DRAFT", "VOTING_OPEN">>, <<"VOTING_OPEN", "VOTING_CLOSED">>,
                         <<"VOTING_CLOSED", "TIED">>} :
            round[r].status = step[1] /\ round' = [round EXCEPT ![r].status = step[2]]
      BY <1>1 DEF Advance
    <3>2. /\ step[1] \in {"DRAFT", "VOTING_OPEN", "VOTING_CLOSED"}
          /\ step[2] \in {"VOTING_OPEN", "VOTING_CLOSED", "TIED"}
      OBVIOUS
    <3>3. QED
      BY <3>1, <3>2
  <2>2. UNCHANGED <<session, attendance, roll, item, txn, announced, requests, ghost>>
    BY <1>1 DEF Advance, ledger
  <2>3. round[r] # NoRound /\ round[r] \in RoundRow
    BY <2>1 DEF TypeOK, NoRound
  <2>4. round' \in [Rounds -> RoundRow]
    BY <2>1, <2>3 DEF TypeOK, RoundRow, RoundStatus, Live
  <2>5. ASSUME NEW i \in Items, AllResolved(i) PROVE AllResolved(i)'
    BY <2>1, <2>3, <2>5 DEF AllResolved, TypeOK, RoundRow
  <2>6. QED
    BY <2>2, <2>4, <2>5 DEF Outside, TypeOK, Grows
<1>2. ASSUME NEW status \in ItemStatus, Resolve(r, status)
      PROVE  Outside /\ TypeOK'
  <2>1. round[r] # NoRound /\ round[r] \in RoundRow
    BY <1>2 DEF TypeOK, NoRound, Resolve
  <2>2. PICK i \in Items : i = round[r].item
    BY <2>1 DEF RoundRow
  <2>3. /\ round' = [round EXCEPT ![r].status = "RESOLVED"]
        /\ item' = [item EXCEPT ![i].status = status]
        /\ ghost' = [ghost EXCEPT !.proclaimed = ghost.proclaimed \cup {i}]
        /\ UNCHANGED <<session, attendance, roll, txn, announced, requests>>
    BY <1>2, <2>2 DEF Resolve, ledger
  <2>4. ghost' \in Ghosts /\ Grows
    <3>1. {i} \in SUBSET Items
      OBVIOUS
    <3>2. QED
      BY <2>3, <3>1, History
  <2>5. round' \in [Rounds -> RoundRow]
    BY <2>1, <2>3 DEF TypeOK, RoundRow, RoundStatus
  <2>6. item' \in [Items -> ItemRow]
    BY <2>3 DEF TypeOK, ItemRow
  <2>7. ASSUME NEW j \in Items, AllResolved(j) PROVE AllResolved(j)'
    BY <2>1, <2>3, <2>7 DEF AllResolved, TypeOK, RoundRow
  <2>8. i \in ghost'.proclaimed
    BY <2>3 DEF TypeOK, Ghosts
  <2>9. ASSUME NEW j \in Items
        PROVE  /\ item'[j].deleted = item[j].deleted
               /\ item'[j].status = item[j].status \/ j \in ghost'.proclaimed
    BY <2>3, <2>8 DEF TypeOK, ItemRow
  <2>10. QED
    BY <2>3, <2>4, <2>5, <2>6, <2>7, <2>9 DEF Outside, TypeOK
<1>3. ASSUME NEW clone \in Rounds, Rectify(r, clone)
      PROVE  Outside /\ TypeOK'
  <2>1. round[r] # NoRound /\ round[r] \in RoundRow /\ clone # r
    BY <1>3 DEF TypeOK, NoRound, Rectify
  <2>2. PICK i \in Items : i = round[r].item
    BY <2>1 DEF RoundRow
  <2>3. /\ round' = [round EXCEPT ![r].status = "ABORTED",
                                  ![clone] = [status |-> "DRAFT", item |-> i]]
        /\ UNCHANGED <<session, attendance, roll, item, txn, announced, requests, ghost>>
    BY <1>3, <2>2 DEF Rectify, ledger
  <2>4. round' \in [Rounds -> RoundRow]
    BY <2>1, <2>3 DEF TypeOK, RoundRow, RoundStatus, Live
  <2>5. ASSUME NEW j \in Items, AllResolved(j) PROVE AllResolved(j)'
    <3>1. j # i
      BY <1>3, <2>2, <2>5 DEF AllResolved, Rectify
    <3>2. QED
      BY <2>1, <2>2, <2>3, <2>5, <3>1 DEF AllResolved, TypeOK, RoundRow
  <2>6. QED
    BY <2>3, <2>4, <2>5 DEF Outside, TypeOK, Grows
<1>4. QED
  BY <1>1, <1>2, <1>3 DEF RoundStep

LEMMA RollOutside ==
    ASSUME TypeOK, NEW l \in Legislators, Register(l) \/ Remove(l)
    PROVE  Outside /\ TypeOK'
<1>1. PICK members \in SUBSET Legislators : ChangeRoll(members)
  <2>1. roll \cup {l} \in SUBSET Legislators /\ roll \ {l} \in SUBSET Legislators
    BY DEF TypeOK
  <2>2. QED
    BY <2>1 DEF Register, Remove
<1>2. InFlight \cap Sessions \in SUBSET (Sessions \cup Items)
  OBVIOUS
<1>3. /\ ghost' = [ghost EXCEPT !.contended = ghost.contended \cup (InFlight \cap Sessions)]
      /\ UNCHANGED <<session, attendance, item, round, txn, announced>>
      /\ roll' = members /\ requests < MaxRequests /\ requests' = requests + 1
  BY <1>1 DEF ChangeRoll, Contend, Request, ledger, agenda
<1>4. ghost' \in Ghosts /\ Grows
  BY <1>2, <1>3, History
<1>5. InFlight \cap Sessions \subseteq ghost'.contended
  BY <1>3 DEF TypeOK, Ghosts
<1>6. requests' \in 0 .. MaxRequests
  BY <1>3, SessionsAssumption DEF TypeOK
<1>7. ASSUME NEW i \in Items, AllResolved(i) PROVE AllResolved(i)'
  BY <1>3, <1>7 DEF AllResolved
<1>8. QED
  BY <1>3, <1>4, <1>5, <1>6, <1>7 DEF Outside, TypeOK

-----------------------------------------------------------------------------
(* The theorems.                                                           *)

LEMMA Initially ==
    ASSUME Init
    PROVE  IInv
<1>1. TypeOK
  <2>1. /\ session \in [Sessions -> SessionRow] /\ attendance \in [Sessions -> Ledger]
        /\ roll \subseteq Legislators /\ requests \in 0 .. MaxRequests
    BY SessionsAssumption DEF Init, SessionRow, Ledger
  <2>2. item \in [Items -> ItemRow] /\ round \in [Rounds -> RoundRow]
    BY DEF Init, ItemRow, ItemStatus, RoundRow
  <2>3. txn \in [Handlers -> Txn] /\ ghost \in Ghosts
    BY DEF Init, Txn, Ghosts
  <2>4. announced \in [Sessions \cup Items -> SessionStatus \cup ItemStatus \cup {"NONE"}]
    BY DEF Init
  <2>5. QED
    BY <2>1, <2>2, <2>3, <2>4 DEF TypeOK
<1>2. RequestsInv
  BY DEF Init, RequestsInv, Sole, RequestOK, Idle, AboutSessions
<1>3. ASSUME NEW s \in Sessions PROVE SessionOK(s)
  BY DEF Init, SessionOK, NoSession
<1>4. ASSUME NEW i \in Items PROVE ItemOK(i)
  BY DEF Init, ItemOK
<1>5. Current = {} /\ Creating = {}
  BY DEF Init, Current, Exists, NoSession, Creating, Idle
<1>6. QED
  BY <1>1, <1>2, <1>3, <1>4, <1>5 DEF IInv, RowsInv, OneCurrent

LEMMA ContinueServes ==
    ASSUME IInv, NEW h \in Handlers, Continue(h)
    PROVE  TypeOK' /\ Serves(h) /\ RequestOK(h)' /\ RowsInv'
BY CommitCreateServes, CommitConfigureServes, CommitDeleteServes, CommitStatusServes,
   AnnounceStatusServes, CommitMarkServes, AnnounceEditServes, CommitEditServes,
   CommitWithdrawServes, CommitDraftServes, RollbackServes DEF Continue

LEMMA NextKeepsInvariant ==
    ASSUME IInv, [Next]_vars
    PROVE  IInv'
<1>1. TypeOK
  BY DEF IInv
<1>2. ASSUME NEW h \in Handlers, NEW s \in Sessions, SessionRequest(h, s)
      PROVE  IInv'
  BY <1>1, <1>2, SessionRequestBegins, BeginningKeepsRequests, BeginningKeepsRows DEF IInv
<1>3. ASSUME NEW h \in Handlers, NEW i \in Items, ItemRequest(h, i)
      PROVE  IInv'
  BY <1>1, <1>3, ItemRequestBegins, BeginningKeepsRequests, BeginningKeepsRows DEF IInv
<1>4. ASSUME NEW h \in Handlers, Continue(h)
      PROVE  IInv'
  BY <1>4, ContinueServes, ServingKeepsRequests DEF IInv
<1>5. ASSUME NEW r \in Rounds, RoundStep(r)
      PROVE  IInv'
  BY <1>1, <1>5, RoundStepOutside, OutsideKeepsInvariant
<1>6. ASSUME NEW l \in Legislators, Register(l) \/ Remove(l)
      PROVE  IInv'
  BY <1>1, <1>6, RollOutside, OutsideKeepsInvariant
<1>7. CASE UNCHANGED vars
  <2>1. Outside /\ TypeOK'
    BY <1>1, <1>7 DEF vars, ledger, agenda, Outside, TypeOK, Grows, AllResolved
  <2>2. QED
    BY <2>1, OutsideKeepsInvariant
<1>8. QED
  BY <1>2, <1>3, <1>4, <1>5, <1>6, <1>7 DEF Next

\* Whatever requests overlap, a request that had no competitor for its session
\* or item still finds what it read when it writes.
THEOREM Invariance == Spec => []IInv
<1>1. QED
  BY Initially, NextKeepsInvariant, PTL DEF Spec

\* The rows, the requests in flight and what was announced keep their types.
THEOREM TypeCorrect == Spec => []TypeOK
<1>1. IInv => TypeOK
  BY DEF IInv
<1>2. QED
  BY <1>1, Invariance, PTL

\* The last status broadcast for a session or an item is the one committed, but
\* for overlapping requests, failed commits and proclamations.
THEOREM BroadcastsAreCommitted == Spec => []AnnouncedIsCommitted
<1>1. ASSUME IInv PROVE AnnouncedIsCommitted
  <2>1. ASSUME NEW s \in Sessions \ (InFlight \cup ghost.contended)
        PROVE  announced[s] \in {"NONE", session[s].status}
    <3>1. \A h \in Handlers : txn[h].op = "announcing" => txn[h].on # s
      BY DEF InFlight, Serving, Idle
    <3>2. QED
      BY <1>1, <3>1 DEF IInv, RowsInv, SessionOK
  <2>2. ASSUME NEW i \in Items \ (InFlight \cup ghost.contended \cup ghost.unsaved
                                     \cup ghost.proclaimed)
        PROVE  announced[i] \in {"NONE", item[i].status}
    <3>1. \A h \in Handlers : txn[h].op = "saving" => txn[h].on # i
      BY DEF InFlight, Serving, Idle
    <3>2. QED
      BY <1>1, <3>1 DEF IInv, RowsInv, ItemOK
  <2>3. QED
    BY <2>1, <2>2 DEF AnnouncedIsCommitted
<1>2. QED
  BY <1>1, Invariance, PTL

\* A deleted item has no round to vote, but for overlapping requests and rounds
\* left to rectify.
THEOREM DeletedItemsAreClosed == Spec => []DeletedItemIsClosed
<1>1. ASSUME IInv PROVE DeletedItemIsClosed
  BY <1>1 DEF IInv, RowsInv, ItemOK, AllResolved, DeletedItemIsClosed, LiveRounds, RoundsOf, Live
<1>2. QED
  BY <1>1, Invariance, PTL

\* The query of the current session fails only beside a twin, a reopened session
\* or a second item on the floor.
THEOREM TerminalsFindTheSession == Spec => []CurrentIsServed
<1>1. ASSUME IInv PROVE CurrentIsServed
  <2>1. SUFFICES ASSUME Cardinality(Current) > 1
                 PROVE  Current \cap (ghost.twins \cup ghost.closed) # {}
    BY DEF CurrentIsServed, CurrentQuery
  <2>2. PICK s \in Current, t \in Current : s # t
    <3>1. SUFFICES ASSUME \A s, t \in Current : s = t PROVE FALSE
      OBVIOUS
    <3>2. CASE Current = {}
      BY <2>1, <3>2, FS_EmptySet
    <3>3. CASE Current # {}
      <4>1. PICK s : Current = {s}
        BY <3>1, <3>3
      <4>2. QED
        BY <2>1, <4>1, FS_Singleton
    <3>4. QED
      BY <3>2, <3>3
  <2>3. QED
    BY <1>1, <2>2 DEF IInv, RowsInv, OneCurrent
<1>2. QED
  BY <1>1, Invariance, PTL

\* Only four steps write a session.
LEMMA WritesOfSessions ==
    ASSUME IInv, [Next]_vars
    PROVE  \/ UNCHANGED session
           \/ \E h \in Handlers :
                \/ \E officer \in roll \cup {None} : CommitCreate(h, officer)
                \/ CommitConfigure(h) \/ CommitDelete(h) \/ CommitStatus(h)
<1>1. TypeOK
  BY DEF IInv
<1>2. ASSUME NEW h \in Handlers, NEW s \in Sessions, SessionRequest(h, s) PROVE UNCHANGED session
  BY <1>1, <1>2, SessionRequestBegins DEF Beginning, ledger
<1>3. ASSUME NEW h \in Handlers, NEW i \in Items, ItemRequest(h, i) PROVE UNCHANGED session
  BY <1>1, <1>3, ItemRequestBegins DEF Beginning, ledger
<1>4. ASSUME NEW h \in Handlers,
             AnnounceStatus(h) \/ CommitMark(h) \/ AnnounceEdit(h) \/ CommitEdit(h)
                \/ CommitWithdraw(h) \/ CommitDraft(h) \/ Rollback(h)
      PROVE  UNCHANGED session
  BY <1>4 DEF AnnounceStatus, CommitMark, AnnounceEdit, CommitEdit, CommitWithdraw, CommitDraft,
       Rollback, ledger
<1>5. ASSUME NEW r \in Rounds, RoundStep(r) PROVE UNCHANGED session
  BY <1>1, <1>5, RoundStepOutside DEF Outside
<1>6. ASSUME NEW l \in Legislators, Register(l) \/ Remove(l) PROVE UNCHANGED session
  BY <1>1, <1>6, RollOutside DEF Outside
<1>7. QED
  BY <1>2, <1>3, <1>4, <1>5, <1>6 DEF Next, Continue, vars, ledger

\* A request without competition finds what it read.
LEMMA UncontestedIsStillRead ==
    ASSUME IInv, NEW h \in Handlers, txn[h] # Idle, txn[h].on \notin ghost.contended
    PROVE  StillRead(h)
BY DEF IInv, RequestsInv, RequestOK

\* A session that has started keeps its president's rule and is not deleted,
\* whatever requests are in flight, if none overlapped.
THEOREM StartedSessionsAreSettled == Spec => SettledOnceStarted
<1> DEFINE Settled(s) ==
        Exists(s) /\ session[s].status # "PENDING" /\ s \notin ghost.contended =>
            /\ ~session'[s].deleted
            /\ session'[s].presType = session[s].presType
<1>1. ASSUME IInv, [Next]_vars PROVE \A s \in Sessions : Settled(s)
  <2>1. SUFFICES ASSUME NEW s \in Sessions, Exists(s), session[s].status # "PENDING",
                        s \notin ghost.contended
                 PROVE  /\ ~session'[s].deleted
                        /\ session'[s].presType = session[s].presType
    OBVIOUS
  <2>2. CASE UNCHANGED session
    BY <2>1, <2>2 DEF Exists
  <2>3. ASSUME NEW h \in Handlers, NEW officer, CommitCreate(h, officer)
        PROVE  UNCHANGED session[s]
    <3>1. session[txn[h].on] = NoSession
      BY <1>1, <2>3 DEF IInv, RequestsInv, RequestOK, CommitCreate
    <3>2. txn[h].on # s
      BY <2>1, <3>1 DEF Exists, NoSession
    <3>3. QED
      BY <1>1, <2>3, <3>2 DEF CommitCreate, IInv, TypeOK
  <2>4. ASSUME NEW h \in Handlers, CommitConfigure(h) \/ CommitDelete(h)
        PROVE  UNCHANGED session[s]
    <3>1. txn[h] # Idle /\ txn[h].op \in {"configuring", "deleting"}
      BY <2>4 DEF CommitConfigure, CommitDelete, Idle
    <3>2. txn[h].on # s
      BY <1>1, <2>1, <3>1, UncontestedIsStillRead DEF StillRead
    <3>3. QED
      BY <1>1, <2>4, <3>2 DEF CommitConfigure, CommitDelete, IInv, TypeOK
  <2>5. ASSUME NEW h \in Handlers, CommitStatus(h)
        PROVE  /\ session'[s].deleted = session[s].deleted
               /\ session'[s].presType = session[s].presType
    <3>1. session[s] \in [status: SessionStatus, deleted: BOOLEAN, presType: PresidentType]
      BY <1>1, <2>1 DEF IInv, TypeOK, SessionRow, Exists, NoSession
    <3>2. QED
      BY <1>1, <2>5, <3>1 DEF CommitStatus, IInv, TypeOK
  <2>6. QED
    BY <1>1, <2>1, <2>2, <2>3, <2>4, <2>5, WritesOfSessions DEF Exists
<1>2. IInv /\ [Next]_vars => [\A s \in Sessions : Settled(s)]_vars
  BY <1>1
<1>3. QED
  BY <1>2, Invariance, PTL DEF Spec, SettledOnceStarted

\* A session starts with the majority of the roll marked PRESENT, when its
\* request had no competitor and no removed legislator is marked.
THEOREM SessionsStartWithMajority == Spec => StartsWithMajority
<1> DEFINE Majority(s) ==
        /\ session[s].status # "ACTIVE" /\ session'[s].status = "ACTIVE"
        /\ s \notin ghost.contended
        /\ Attending(s) \subseteq roll
        => 2 * Cardinality(Attending(s)) > Cardinality(roll)
<1>1. ASSUME IInv, [Next]_vars PROVE \A s \in Sessions : Majority(s)
  <2>1. SUFFICES ASSUME NEW s \in Sessions,
                        session[s].status # "ACTIVE", session'[s].status = "ACTIVE",
                        s \notin ghost.contended, Attending(s) \subseteq roll
                 PROVE  2 * Cardinality(Attending(s)) > Cardinality(roll)
    OBVIOUS
  <2>2. TypeOK
    BY <1>1 DEF IInv
  <2>3. PICK h \in Handlers :
            \/ \E officer \in roll \cup {None} : CommitCreate(h, officer)
            \/ CommitConfigure(h) \/ CommitDelete(h) \/ CommitStatus(h)
    BY <1>1, <2>1, WritesOfSessions
  <2>4. ASSUME NEW officer, CommitCreate(h, officer) PROVE FALSE
    BY <2>1, <2>2, <2>4 DEF CommitCreate, TypeOK
  <2>5. CASE CommitConfigure(h) \/ CommitDelete(h)
    <3>1. session[s] \in SessionRow
      BY <2>2 DEF TypeOK
    <3>2. session'[s].status = session[s].status
      BY <2>2, <2>5, <3>1 DEF CommitConfigure, CommitDelete, TypeOK, SessionRow, NoSession
    <3>3. QED
      BY <2>1, <3>2
  <2>6. CASE CommitStatus(h)
    <3>1. txn[h].op = "changing" /\ txn[h] # Idle
      BY <2>6 DEF CommitStatus, Idle
    <3>2. txn[h].on = s
      BY <2>1, <2>2, <2>6 DEF CommitStatus, TypeOK
    <3>3. StillRead(h)
      BY <1>1, <2>1, <3>1, <3>2, UncontestedIsStillRead
    <3>4. session[s] \in SessionRow
      BY <2>2 DEF TypeOK
    <3>5. txn[h].status = "ACTIVE"
      BY <2>1, <2>2, <2>6, <3>2, <3>4 DEF CommitStatus, TypeOK, SessionRow, NoSession
    <3>6. HasCertifiedQuorum(session[s].presType, TRUE,
                             Cardinality(PresentIn(s)), Cardinality(roll))
      BY <3>1, <3>2, <3>3, <3>5 DEF StillRead
    <3>7. IsFiniteSet(PresentIn(s)) /\ IsFiniteSet(roll)
      BY <2>2, SessionsAssumption, FS_Subset DEF PresentIn, TypeOK
    <3>8. Cardinality(PresentIn(s)) \in Nat /\ Cardinality(roll) \in Nat
      BY <3>7, FS_CardinalityType
    <3>9. 2 * (Cardinality(PresentIn(s)) - 0) > Cardinality(roll) - 0
      <4>1. 0 <= Seat(session[s].presType, TRUE)
        BY DEF Seat
      <4>2. PICK present \in Nat, total \in Nat,
                 presType \in {session[s].presType} :
                present = Cardinality(PresentIn(s)) /\ total = Cardinality(roll)
        BY <3>8
      <4>3. HasCertifiedQuorum(presType, TRUE, present, total) /\ 0 <= Seat(presType, TRUE)
        BY <3>6, <4>1, <4>2
      <4>4. 0 \in {0, 1} /\ 0 <= 0
        OBVIOUS
      <4>5. 2 * (present - 0) > total - 0
        BY <4>3, <4>4, CertifiedQuorumIsAMajority
      <4>6. QED
        BY <4>2, <4>5
    <3>10. PresentIn(s) = Attending(s)
      BY DEF PresentIn, Attending
    <3>11. QED
      BY <3>8, <3>9, <3>10
  <2>7. QED
    BY <2>3, <2>4, <2>5, <2>6
<1>2. IInv /\ [Next]_vars => [\A s \in Sessions : Majority(s)]_vars
  BY <1>1
<1>3. QED
  BY <1>2, Invariance, PTL DEF Spec, StartsWithMajority

\* A bulk update of the attendance leaves each record it names as it names it,
\* if no other request about the session overlapped.
THEOREM AttendanceIsMarked == Spec => MarksTakeEffect
<1> DEFINE Effect(h) ==
        LET t == txn[h] IN
        CommitMark(h) /\ t.on \notin ghost.contended =>
            \A l \in Legislators :
                t.marks[l] # "NONE" => attendance'[t.on][l] = t.marks[l]
<1>1. ASSUME IInv, [Next]_vars PROVE \A h \in Handlers : Effect(h)
  <2>1. SUFFICES ASSUME NEW h \in Handlers, CommitMark(h), txn[h].on \notin ghost.contended,
                        NEW l \in Legislators, txn[h].marks[l] # "NONE"
                 PROVE  attendance'[txn[h].on][l] = txn[h].marks[l]
    OBVIOUS
  <2>2. TypeOK /\ txn[h].op = "marking" /\ txn[h] # Idle
    BY <1>1, <2>1 DEF IInv, CommitMark, Idle
  <2>3. txn[h].on \in Sessions
    BY <2>2, TxnByOp DEF AboutSessions
  <2>4. txn[h].read = attendance[txn[h].on]
    BY <1>1, <2>1, <2>2, UncontestedIsStillRead DEF StillRead
  <2>5. attendance'[txn[h].on][l] = Marked(txn[h], l)
    BY <2>1, <2>2, <2>3 DEF CommitMark, TypeOK
  <2>6. QED
    BY <2>1, <2>4, <2>5 DEF Marked
<1>2. IInv /\ [Next]_vars => [\A h \in Handlers : Effect(h)]_vars
  BY <1>1
<1>3. QED
  BY <1>2, Invariance, PTL DEF Spec, MarksTakeEffect

=============================================================================
