-------------------------- MODULE AlertMailsProofs --------------------------
(***************************************************************************)
(* What holds of the alert mails: the flag of a state row, the last mail   *)
(* that was sent about its monitor, and the rows that are written.         *)
(***************************************************************************)
EXTENDS MonitorIncidentsProofs

\* A state row that is not there holds nothing.
AbsentIsBlank == \A m \in Monitor : state[m].status = "absent" => state[m] = NoState

\* What is written into a state row is a row, with the alert flag it had.
LEMMA WrittenRow ==
  ASSUME NEW row \in StateRow, row.status = "absent" => row = NoState, NEW seen \in StateRow
  PROVE  /\ Ensured(row).status # "absent" /\ Ensured(row).alert = row.alert
         /\ AfterPause(Ensured(row), seen).status # "absent"
         /\ AfterPause(Ensured(row), seen).alert = row.alert
         /\ \A ok \in BOOLEAN : AfterOutcome(Ensured(row), seen, ok).status # "absent"
<1> DEFINE db == Ensured(row)
<1>1. db.status # "absent" /\ db.alert = row.alert
  BY DEF Ensured, FreshState, NoState
<1>2. db \in StateRow
  BY EnsuredRow
<1> HIDE DEF db
<1>3. AfterPause(db, seen).status # "absent" /\ AfterPause(db, seen).alert = db.alert
  BY <1>1, <1>2 DEF AfterPause, Column, StateRow
<1>4. ASSUME NEW ok \in BOOLEAN PROVE AfterOutcome(db, seen, ok).status # "absent"
  BY <1>1, <1>2 DEF AfterOutcome, Column, StateRow
<1>5. QED
  BY <1>1, <1>3, <1>4 DEF db

\* The rows of a transition: one row changes, its flag is the one after the mail.
LEMMA TransitionRow ==
  ASSUME TypeOK, NEW m \in Monitor, NEW seen \in StateRow, NEW row \in StateRow,
         OpenIncident(m, seen, row) \/ CloseIncident(m, seen, row)
           \/ KeepIncident(m, seen, row)
  PROVE  /\ \A k \in Monitor : k # m => state'[k] = state[k]
         /\ state'[m].status = row.status /\ state'[m].failures = row.failures
         /\ state'[m].alert = AlertAfter(seen, row)
<1>1. PICK link :
        state' = [state EXCEPT ![m] = [row EXCEPT !.link = link, !.alert = AlertAfter(seen, row)]]
  <2>1. [row EXCEPT !.alert = AlertAfter(seen, row)]
          = [row EXCEPT !.link = row.link, !.alert = AlertAfter(seen, row)]
    BY DEF StateRow
  <2>2. QED
    BY <2>1 DEF OpenIncident, CloseIncident, KeepIncident
<1>2. QED
  BY <1>1 DEF TypeOK, StateRow

\* A step on one state row keeps the others, and leaves no row half there.
LEMMA BlankStep ==
  ASSUME TypeOK, AbsentIsBlank, NEW m \in Monitor,
         \A k \in Monitor : k # m => state'[k] = state[k],
         state'[m].status # "absent" \/ state'[m] = NoState
  PROVE  AbsentIsBlank'
BY DEF AbsentIsBlank

\* The mails of a transition alternate, and the flag tells the last one.
LEMMA MailsTransition ==
  ASSUME TypeOK, MailsAlternate, NEW m \in Monitor, NEW seen \in StateRow,
         NEW row \in StateRow, row.alert = state[m].alert,
         OpenIncident(m, seen, row) \/ CloseIncident(m, seen, row)
           \/ KeepIncident(m, seen, row),
         SendMail(m, MailFor(seen, row)), UNCHANGED monitor
  PROVE  MailsAlternate'
<1> SUFFICES ASSUME NEW k \in Monitor, monitor[k] # "absent"
             PROVE  (state'[k].alert <=> told'[k].kind = "opened") /\ told'[k].times < 2
  BY DEF MailsAlternate
<1>1. /\ k # m => state'[k] = state[k]
      /\ state'[m].alert = AlertAfter(seen, row)
  BY TransitionRow
<1>2. told \in [Monitor -> Letter] /\ state[k] \in StateRow /\ row.alert \in BOOLEAN
  BY DEF TypeOK, StateRow
<1>3. (state[k].alert <=> told[k].kind = "opened") /\ told[k].times < 2
  BY DEF MailsAlternate
<1>4. CASE k # m
  <2>1. told'[k] = told[k]
    BY <1>2, <1>4 DEF SendMail
  <2>2. QED
    BY <1>1, <1>3, <1>4, <2>1
<1>5. CASE k = m /\ MailFor(seen, row) = "opened"
  <2>1. ~row.alert /\ AlertAfter(seen, row) = TRUE
    BY <1>5 DEF MailFor, AlertAfter
  <2>2. told'[m] = Posted(told[m], "opened") /\ told[m].kind # "opened"
    BY <1>2, <1>3, <1>5, <2>1 DEF SendMail
  <2>3. told'[m].kind = "opened" /\ told'[m].times < 2
    BY <2>2 DEF Posted
  <2>4. state'[m].alert = TRUE
    BY <1>1, <2>1
  <2>5. QED
    BY <1>5, <2>3, <2>4, Zenon
<1>6. CASE k = m /\ MailFor(seen, row) = "resolved"
  <2>1. row.alert /\ AlertAfter(seen, row) = FALSE
    BY <1>6 DEF MailFor, AlertAfter
  <2>2. told'[m] = Posted(told[m], "resolved") /\ told[m].kind = "opened"
    BY <1>2, <1>3, <1>6, <2>1 DEF SendMail
  <2>3. told'[m].kind = "resolved" /\ told'[m].times = 1
    BY <2>2 DEF Posted
  <2>4. QED
    BY <1>1, <1>6, <2>1, <2>3
<1>7. CASE k = m /\ MailFor(seen, row) = "none"
  <2>1. AlertAfter(seen, row) = row.alert
    BY <1>7 DEF AlertAfter
  <2>2. told' = told
    BY <1>7 DEF SendMail
  <2>3. state'[k].alert = state[k].alert
    BY <1>1, <1>7, <2>1
  <2>4. QED
    BY <1>3, <2>2, <2>3, Zenon
<1>8. QED
  BY <1>4, <1>5, <1>6, <1>7, MailForType DEF MailKind

\* A step on one monitor whose flag and mails stay as they are.
LEMMA MailsKept ==
  ASSUME TypeOK, MailsAlternate, NEW m \in Monitor,
         \A k \in Monitor : k # m => state'[k] = state[k] /\ monitor'[k] = monitor[k],
         state'[m].alert = state[m].alert, monitor'[m] # "absent" => monitor[m] # "absent",
         UNCHANGED told
  PROVE  MailsAlternate'
BY DEF MailsAlternate

MailsInv == AbsentIsBlank /\ (MaxRollbacks = 0 => MailsAlternate)

LEMMA MailsCheck ==
  ASSUME TypeOK, MailsInv, NEW p \in Checker, CheckStep(p)
  PROVE  MailsInv'
<1> USE DEF MailsInv
<1>1. p \in Session /\ session[p] \in SessionRow
  BY DEF Session, TypeOK
<1>2. CASE RecordCheck(p)
  <2> DEFINE m == session[p].mon
             seen == SeenRow(p)
             row == Refreshed(p)
  <2>1. m \in Monitor /\ seen \in StateRow /\ row \in StateRow
    BY <1>1, <1>2, Recording DEF RecordCheck
  <2>2. row.alert = state[m].alert /\ row.status # "absent"
    <3>1. /\ state[m] \in StateRow /\ session[p].ok \in BOOLEAN
          /\ state[m].status = "absent" => state[m] = NoState
          /\ ~session[p].ok => session[p].seen.failures < MaxFailures
      BY <1>1, <1>2, <2>1 DEF TypeOK, SessionRow, AbsentIsBlank, SessionOK, SessionRowOK, RecordCheck
    <3>2. ~session[p].ok => seen.failures < MaxFailures
      <4>1. session[p].seen \in StateRow
        BY <1>1 DEF SessionRow
      <4>2. session[p].seen.failures \in Nat
        BY <4>1 DEF StateRow
      <4>3. QED
        BY <3>1, <4>1, <4>2, EnsuredRow, BoundsAssumption DEF SeenRow
    <3>3. row = AfterOutcome(Ensured(state[m]), seen, session[p].ok)
      BY DEF Refreshed
    <3> HIDE DEF m, seen, row
    <3>4. Ensured(state[m]) \in StateRow /\ Ensured(state[m]).alert = state[m].alert
      BY <2>1, <3>1, EnsuredRow, WrittenRow
    <3>5. row.alert = Ensured(state[m]).alert
      BY <2>1, <3>1, <3>2, <3>3, <3>4, AfterOutcomeRow
    <3>6. row.status # "absent"
      BY <2>1, <3>1, <3>3, WrittenRow
    <3>7. QED
      BY <3>4, <3>5, <3>6
  <2>3. /\ OpenIncident(m, seen, row) \/ CloseIncident(m, seen, row) \/ KeepIncident(m, seen, row)
        /\ SendMail(m, MailFor(seen, row)) /\ UNCHANGED monitor
    BY <1>2 DEF RecordCheck
  <2> HIDE DEF m, seen, row
  <2>4. QED
    BY <2>1, <2>2, <2>3, MailsTransition, TransitionRow, BlankStep
<1>3. CASE LoseCheck(p)
  <2> DEFINE m == session[p].mon
  <2>1. m \in Monitor /\ (MaxRollbacks = 0 => monitor[m] = "absent")
    BY <1>1, <1>3 DEF LoseCheck, CommitReached, TypeOK, SessionOK, SessionRowOK
  <2>2. \A k \in Monitor : k # m => told'[k] = told[k]
    BY <1>3 DEF LoseCheck, SendMail, TypeOK
  <2>3. QED
    BY <1>3, <2>1, <2>2 DEF LoseCheck, AbsentIsBlank, MailsAlternate
<1>4. CASE SyncPaused(p)
  <2> DEFINE m == session[p].mon
             new == AfterPause(Ensured(state[m]), SeenRow(p))
  <2>1. m \in Monitor
    BY <1>1, <1>4 DEF SyncPaused, TypeOK, SessionOK, SessionRowOK
  <2>2. /\ state[m] \in StateRow /\ session[p].seen \in StateRow
        /\ state[m].status = "absent" => state[m] = NoState
    BY <1>1, <2>1 DEF TypeOK, SessionRow, AbsentIsBlank
  <2>3. new.status # "absent" /\ new.alert = state[m].alert
    BY <2>2, EnsuredRow, WrittenRow DEF SeenRow
  <2>4. state' = [state EXCEPT ![m] = new]
    BY <1>4 DEF SyncPaused
  <2> HIDE DEF m, new
  <2>5. state'[m] = new /\ \A k \in Monitor : k # m => state'[k] = state[k]
    BY <2>1, <2>4 DEF TypeOK
  <2>6. UNCHANGED <<monitor, told>>
    BY <1>4 DEF SyncPaused
  <2>7. QED
    BY <2>1, <2>3, <2>5, <2>6, BlankStep, MailsKept
<1>5. CASE (\E ok \in BOOLEAN : FinishProbe(p, ok)) \/ AbortCheck(p)
  BY <1>5 DEF FinishProbe, AbortCheck, AbsentIsBlank, MailsAlternate
<1>6. QED
  BY <1>2, <1>3, <1>4, <1>5 DEF CheckStep

LEMMA MailsAdmin ==
  ASSUME TypeOK, MailsInv, NEW q \in Admin, Request(q) \/ Reply(q)
  PROVE  MailsInv'
<1> USE DEF MailsInv
<1>1. q \in Session /\ session[q] \in SessionRow
  BY DEF Session, TypeOK
<1>2. ASSUME NEW k \in Monitor
      PROVE  /\ state[k] \in StateRow /\ state[k].alert \in BOOLEAN
             /\ Ensured(state[k]).status # "absent" /\ Ensured(state[k]).alert = state[k].alert
             /\ AfterPause(Ensured(state[k]), Ensured(state[k])).status # "absent"
             /\ AfterPause(Ensured(state[k]), Ensured(state[k])).alert = state[k].alert
  <2>1. state[k] \in StateRow /\ (state[k].status = "absent" => state[k] = NoState)
    BY DEF TypeOK, AbsentIsBlank
  <2>2. QED
    BY <2>1, EnsuredRow, WrittenRow DEF StateRow
<1>3. ASSUME NEW paused \in BOOLEAN, CreateMonitor(q, paused)
      PROVE  MailsInv'
  <2> DEFINE Row(k) == IF paused THEN AfterPause(Ensured(state[k]), Ensured(state[k]))
                                 ELSE Ensured(state[k])
  <2>1. PICK m \in Monitor :
          /\ monitor' = [monitor EXCEPT ![m] = IF paused THEN "paused" ELSE "active"]
          /\ state' = [state EXCEPT ![m] = Row(m)]
          /\ told' = [told EXCEPT ![m] = Inherited(state[m])]
    BY <1>3 DEF CreateMonitor
  <2>2. Row(m).status # "absent" /\ Row(m).alert = state[m].alert
    BY <1>2
  <2> HIDE DEF Row
  <2>3. /\ \A k \in Monitor : k # m => /\ state'[k] = state[k] /\ monitor'[k] = monitor[k]
                                       /\ told'[k] = told[k]
        /\ state'[m] = Row(m) /\ told'[m] = Inherited(state[m])
    BY <2>1 DEF TypeOK
  <2>4. AbsentIsBlank'
    BY <2>2, <2>3, BlankStep
  <2>5. state[m].alert \in BOOLEAN
    BY <1>2
  <2>6. (state[m].alert <=> told'[m].kind = "opened") /\ told'[m].times < 2
    BY <2>3, <2>5 DEF Inherited, Posted, NoMail
  <2>7. QED
    BY <2>2, <2>3, <2>4, <2>6 DEF MailsAlternate
<1>4. CASE PatchMonitor(q)
  <2> DEFINE m == session[q].mon
             paused == Column(monitor[m] = "paused", session[q].was, session[q].want)
             Row == IF paused THEN AfterPause(Ensured(state[m]), Ensured(state[m]))
                              ELSE Ensured(state[m])
  <2>1. m \in Monitor
    BY <1>1, <1>4 DEF PatchMonitor, TypeOK, SessionOK, SessionRowOK
  <2>2. CASE monitor[m] = "absent"
    BY <1>4, <2>2 DEF PatchMonitor, AbsentIsBlank, MailsAlternate
  <2>3. CASE monitor[m] # "absent"
    <3>1. /\ monitor' = [monitor EXCEPT ![m] = IF paused THEN "paused" ELSE "active"]
          /\ state' = [state EXCEPT ![m] = Row] /\ UNCHANGED told
      BY <1>4, <2>3 DEF PatchMonitor
    <3>2. Row.status # "absent" /\ Row.alert = state[m].alert
      BY <1>2, <2>1
    <3> HIDE DEF m, paused, Row
    <3>3. /\ \A k \in Monitor : k # m => state'[k] = state[k] /\ monitor'[k] = monitor[k]
          /\ state'[m] = Row
      BY <2>1, <3>1 DEF TypeOK
    <3>4. QED
      BY <2>1, <2>3, <3>1, <3>2, <3>3, BlankStep, MailsKept
  <2>4. QED
    BY <2>2, <2>3
<1>5. CASE DeleteMonitor(q)
  <2> DEFINE m == session[q].mon
  <2>1. m \in Monitor
    BY <1>1, <1>5 DEF DeleteMonitor, TypeOK, SessionOK, SessionRowOK
  <2>2. /\ \A k \in Monitor : k # m => state'[k] = state[k] /\ monitor'[k] = monitor[k]
        /\ state'[m] = NoState /\ monitor'[m] = "absent" /\ UNCHANGED told
    BY <1>5, <2>1 DEF DeleteMonitor, StateAfterDelete, TypeOK
  <2> HIDE DEF m
  <2>3. QED
    BY <2>1, <2>2, BlankStep DEF MailsAlternate
<1>6. CASE Resolve(q)
  <2> DEFINE i == session[q].inc
             m == incident[i].of
  <2>1. state' = [state EXCEPT ![m] = Unlinked(m, i)] /\ UNCHANGED <<monitor, told>>
    BY <1>6 DEF Resolve
  <2> HIDE DEF m, i
  <2>2. ASSUME NEW k \in Monitor
        PROVE  /\ state'[k].status = state[k].status /\ state'[k].alert = state[k].alert
               /\ state[k] = NoState => state'[k] = NoState
    <3>1. state[k] \in StateRow
      BY <1>2
    <3>2. CASE k # m
      BY <2>1, <3>2 DEF TypeOK
    <3>3. CASE k = m
      <4>1. state'[k] = Unlinked(m, i)
        BY <2>1, <3>3 DEF TypeOK
      <4>2. QED
        BY <3>1, <3>3, <4>1 DEF Unlinked, StateRow, NoState, FreshState
    <3>4. QED
      BY <3>2, <3>3
  <2>3. QED
    BY <2>1, <2>2 DEF AbsentIsBlank, MailsAlternate
<1>7. CASE \/ \E k \in Monitor, want \in BOOLEAN : LoadMonitor(q, k, want)
           \/ \E k \in Monitor : LoadForDelete(q, k)
           \/ \E op \in IncidentOps, i \in IncidentId : LoadIncident(q, i, op)
           \/ \E r, s \in BOOLEAN : SetAlerts(q, r, s)
           \/ Acknowledge(q) \/ Reopen(q)
  BY <1>7 DEF LoadMonitor, LoadForDelete, LoadIncident, SetAlerts, Acknowledge, Reopen,
              AbsentIsBlank, MailsAlternate
<1>8. QED
  BY <1>3, <1>4, <1>5, <1>6, <1>7 DEF Request, Reply

LEMMA MailsNext ==
  ASSUME TypeOK, MailsInv, [Next]_vars
  PROVE  MailsInv'
<1>1. CASE UNCHANGED <<monitor, state, told>>
  BY <1>1 DEF MailsInv, AbsentIsBlank, MailsAlternate
<1>2. ASSUME NEW p \in Checker, NEW m \in Monitor, StartCheck(p, m) \/ StartPausedCheck(p, m)
      PROVE  MailsInv'
  BY <1>1, <1>2 DEF StartCheck, StartPausedCheck
<1>3. ASSUME NEW p \in Session, Rollback(p) PROVE MailsInv'
  BY <1>1, <1>3 DEF Rollback
<1>4. CASE UNCHANGED vars
  BY <1>1, <1>4 DEF vars
<1>5. QED
  BY <1>2, <1>3, <1>4, MailsCheck, MailsAdmin DEF Next

LEMMA MailsInit == Init => MailsInv
BY DEF Init, MailsInv, AbsentIsBlank, MailsAlternate, FreshState, NoState, NoMail

LEMMA MailsHold == Spec => []MailsInv
<1>1. TypeOK /\ MailsInv /\ [Next]_vars => MailsInv'
  BY MailsNext
<1>2. QED
  BY <1>1, MailsInit, TypeCorrect, PTL DEF Spec

\* As long as no commit fails after its mail has left, alert_open says which
\* mail was sent last and no mail is sent twice in a row, whatever administrators
\* do and however checks overlap.
THEOREM AlertMailsAlternate ==
  ASSUME MaxRollbacks = 0
  PROVE  Spec => []MailsAlternate
<1>1. MailsInv => MailsAlternate
  BY DEF MailsInv
<1>2. QED
  BY <1>1, MailsHold, PTL
=============================================================================
