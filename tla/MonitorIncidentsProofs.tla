----------------------- MODULE MonitorIncidentsProofs -----------------------
(* What holds of checks, incidents and links for any number of threads,    *)
(* monitors and incidents, and any overlap of their sessions.              *)
EXTENDS MonitorIncidents, TLAPS

\* A flushed column holds what the database had or what was assigned.
LEMMA ColumnWrites ==
  ASSUME NEW db, NEW loaded, NEW new
  PROVE  Column(db, loaded, new) \in {db, new}
BY DEF Column

\* Inserting a missing row yields a row that is there, linked as it was if it
\* was there before.
LEMMA EnsuredRow ==
  ASSUME NEW row \in StateRow
  PROVE  /\ Ensured(row) \in StateRow
         /\ Ensured(row).link \in {row.link, None}
         /\ Ensured(row).status \in {row.status, "none"}
         /\ Ensured(row).failures \in {row.failures, 0}
         /\ row.status # "absent" => Ensured(row) = row
BY BoundsAssumption DEF Ensured, FreshState, StateRow, None

\* Synchronising a paused monitor keeps the row a row, and its link.
LEMMA AfterPauseRow ==
  ASSUME NEW db \in StateRow, NEW seen \in StateRow
  PROVE  /\ AfterPause(db, seen) \in StateRow
         /\ AfterPause(db, seen).link = db.link
         /\ AfterPause(db, seen).status \in {db.status, "paused"}
<1> DEFINE status == Column(db.status, seen.status, "paused")
           failures == Column(db.failures, seen.failures, 0)
<1>1. status \in {db.status, "paused"} /\ failures \in {db.failures, 0}
  BY DEF Column
<1>2. db.failures \in 0 .. MaxFailures /\ 0 \in 0 .. MaxFailures
  BY BoundsAssumption DEF StateRow
<1>3. failures \in 0 .. MaxFailures
  BY <1>1, <1>2
<1>4. status \in {"absent", "none", "up", "down", "paused"}
  BY <1>1 DEF StateRow
<1> HIDE DEF status, failures
<1>5. [db EXCEPT !.status = status, !.failures = failures] \in StateRow
  BY <1>3, <1>4 DEF StateRow
<1>6. /\ [db EXCEPT !.status = status, !.failures = failures].link = db.link
      /\ [db EXCEPT !.status = status, !.failures = failures].status = status
  BY DEF StateRow
<1>7. QED
  BY <1>1, <1>5, <1>6 DEF AfterPause, status, failures

\* Recording an outcome keeps the row a row, and its link; it says down only if
\* the row did already or the transition is seen as one.
LEMMA AfterOutcomeRow ==
  ASSUME NEW db \in StateRow, NEW seen \in StateRow, NEW ok \in BOOLEAN,
         ~ok => seen.failures < MaxFailures
  PROVE  /\ AfterOutcome(db, seen, ok) \in StateRow
         /\ AfterOutcome(db, seen, ok).link = db.link
         /\ AfterOutcome(db, seen, ok).alert = db.alert
         /\ AfterOutcome(db, seen, ok).status = "down"
              => db.status = "down" \/ WentDown(seen, AfterOutcome(db, seen, ok))
<1> DEFINE verdict == IF ok THEN "up" ELSE "down"
           status == Column(db.status, seen.status, verdict)
           failures == Column(db.failures, seen.failures,
                              IF ok THEN 0 ELSE seen.failures + 1)
<1>1. /\ status \in {db.status, "up", "down"}
      /\ status = "down" => db.status = "down" \/ seen.status # "down"
  BY DEF Column
<1>2. /\ db.failures \in 0 .. MaxFailures /\ seen.failures \in 0 .. MaxFailures
      /\ 0 \in 0 .. MaxFailures
  BY BoundsAssumption DEF StateRow
<1>3. failures \in 0 .. MaxFailures
  BY <1>2, BoundsAssumption DEF Column
<1>4. status \in {"absent", "none", "up", "down", "paused"}
  BY <1>1 DEF StateRow
<1> HIDE DEF verdict, status, failures
<1>5. [db EXCEPT !.status = status, !.failures = failures] \in StateRow
  BY <1>3, <1>4 DEF StateRow
<1>6. /\ [db EXCEPT !.status = status, !.failures = failures].link = db.link
      /\ [db EXCEPT !.status = status, !.failures = failures].alert = db.alert
      /\ [db EXCEPT !.status = status, !.failures = failures].status = status
  BY DEF StateRow
<1>7. AfterOutcome(db, seen, ok) = [db EXCEPT !.status = status, !.failures = failures]
  BY DEF AfterOutcome, status, failures, verdict
<1>8. QED
  BY <1>1, <1>5, <1>6, <1>7 DEF WentDown

\* The alert flag stays a flag.
LEMMA AlertAfterType ==
  ASSUME NEW seen \in StateRow, NEW row \in StateRow
  PROVE  AlertAfter(seen, row) \in BOOLEAN
<1>1. row.alert \in BOOLEAN
  BY DEF StateRow
<1>2. CASE MailFor(seen, row) = "opened"
  BY <1>2 DEF AlertAfter
<1>3. CASE MailFor(seen, row) = "resolved"
  BY <1>3 DEF AlertAfter
<1>4. CASE MailFor(seen, row) # "opened" /\ MailFor(seen, row) # "resolved"
  BY <1>1, <1>4 DEF AlertAfter
<1>5. QED
  BY <1>2, <1>3, <1>4

\* The mail log stays a mail log.
LEMMA SendMailType ==
  ASSUME told \in [Monitor -> Letter], NEW m \in Monitor, NEW kind \in MailKind,
         SendMail(m, kind)
  PROVE  told' \in [Monitor -> Letter]
BY DEF SendMail, Posted, Letter, MailKind

LEMMA MailForType ==
  ASSUME NEW seen, NEW row
  PROVE  MailFor(seen, row) \in MailKind
BY DEF MailFor, MailKind

\* Acknowledging, resolving and reopening keep the row a row of its monitor.
LEMMA IncidentRows ==
  ASSUME NEW db \in IncidentRow, NEW seen \in IncidentRow
  PROVE  /\ Acknowledged(db, seen) \in IncidentRow
         /\ Acknowledged(db, seen).of = db.of
         /\ db.status \in OpenStatuses => Acknowledged(db, seen).status \in OpenStatuses
         /\ Resolved(db, seen) \in IncidentRow
         /\ Resolved(db, seen).of = db.of
         /\ Reopened(db, seen) \in IncidentRow
         /\ Reopened(db, seen).of = db.of
         /\ db.status \in OpenStatuses => Reopened(db, seen).status \in OpenStatuses
BY DEF Acknowledged, Resolved, Reopened, Column, IncidentRow, LoggedStatus, OpenStatuses

-----------------------------------------------------------------------------
(* Type correctness *)

LEMMA IdleRow ==
  /\ NoState \in StateRow /\ FreshState \in StateRow
  /\ NoIncident \in IncidentRow
  /\ Idle \in SessionRow /\ SessionRowOK(Idle)
<1>1. FreshState \in StateRow
  BY BoundsAssumption DEF FreshState, StateRow
<1>2. NoState \in StateRow
  BY <1>1 DEF NoState, StateRow
<1>3. NoIncident \in IncidentRow
  BY DEF NoIncident, IncidentRow, LoggedStatus
<1>4. Idle \in SessionRow
  BY <1>2, <1>3 DEF Idle, SessionRow
<1>5. SessionRowOK(Idle)
  BY DEF Idle, SessionRowOK, IncidentOps
<1>6. QED
  BY <1>1, <1>2, <1>3, <1>4, <1>5

LEMMA NewRow ==
  ASSUME NEW m \in Monitor
  PROVE  /\ NewIncident(m) \in IncidentRow
         /\ NewIncident(m).status = "open" /\ NewIncident(m).of = m
BY IdleRow DEF NewIncident, NoIncident, IncidentRow, LoggedStatus

\* What a session row may become.
LEMMA SessionStep ==
  ASSUME session \in [Session -> SessionRow], SessionOK,
         NEW p \in Session, NEW row \in SessionRow, SessionRowOK(row),
         session' = [session EXCEPT ![p] = row]
  PROVE  session' \in [Session -> SessionRow] /\ SessionOK'
<1>1. session' \in [Session -> SessionRow]
  OBVIOUS
<1>2. \A q \in Session : session'[q] = IF q = p THEN row ELSE session[q]
  OBVIOUS
<1>3. \A q \in Session : SessionRowOK(session'[q])
  BY <1>2 DEF SessionOK
<1>4. QED
  BY <1>1, <1>3 DEF SessionOK, SessionRowOK

LEMMA EndStep ==
  ASSUME session \in [Session -> SessionRow], SessionOK, NEW p \in Session, End(p)
  PROVE  session' \in [Session -> SessionRow] /\ SessionOK'
BY IdleRow, SessionStep DEF End

\* What the session of a check starts with, and turns into after its probe.
LEMMA CheckRows ==
  ASSUME NEW m \in Monitor, NEW seen \in StateRow
  PROVE  /\ [Idle EXCEPT !.at = "probing", !.mon = m] \in SessionRow
         /\ SessionRowOK([Idle EXCEPT !.at = "probing", !.mon = m])
         /\ [Idle EXCEPT !.at = "syncing", !.mon = m, !.seen = seen] \in SessionRow
         /\ SessionRowOK([Idle EXCEPT !.at = "syncing", !.mon = m, !.seen = seen])
BY IdleRow DEF SessionRow, SessionRowOK, IncidentOps

LEMMA RecordingRow ==
  ASSUME NEW row \in SessionRow, row.mon \in Monitor, NEW ok \in BOOLEAN,
         NEW seen \in StateRow, ~ok => seen.failures < MaxFailures
  PROVE  /\ [row EXCEPT !.at = "recording", !.ok = ok, !.seen = seen] \in SessionRow
         /\ SessionRowOK([row EXCEPT !.at = "recording", !.ok = ok, !.seen = seen])
<1> DEFINE new == [row EXCEPT !.at = "recording", !.ok = ok, !.seen = seen]
<1>1. new \in SessionRow
  BY DEF SessionRow
<1>2. new.at = "recording" /\ new.ok = ok /\ new.seen = seen /\ new.mon = row.mon
  BY DEF SessionRow
<1>3. QED
  BY <1>1, <1>2 DEF SessionRowOK, IncidentOps

\* What a recording session works on.
LEMMA Recording ==
  ASSUME TypeOK, NEW p \in Session, session[p].at = "recording"
  PROVE  LET m == session[p].mon IN
         /\ m \in Monitor
         /\ SeenRow(p) \in StateRow /\ Refreshed(p) \in StateRow
         /\ Refreshed(p).link \in {state[m].link, None}
         /\ state[m].status # "absent" => Refreshed(p).link = state[m].link
         /\ Refreshed(p).status = "down"
              => state[m].status = "down" \/ WentDown(SeenRow(p), Refreshed(p))
<1> DEFINE m == session[p].mon
           seen == session[p].seen
<1>1. m \in Monitor /\ (~session[p].ok => seen.failures < MaxFailures)
  BY DEF TypeOK, SessionOK, SessionRowOK
<1>2. session[p] \in SessionRow
  BY DEF TypeOK
<1>3. seen \in StateRow /\ session[p].ok \in BOOLEAN
  BY <1>2 DEF SessionRow
<1>4. state[m] \in StateRow
  BY <1>1 DEF TypeOK
<1>5. /\ Ensured(seen) \in StateRow
      /\ ~session[p].ok => Ensured(seen).failures < MaxFailures
  <2>1. seen.failures \in Nat
    BY <1>3 DEF StateRow
  <2>2. QED
    BY <1>1, <1>3, <2>1, EnsuredRow, BoundsAssumption
<1>6. /\ Ensured(state[m]) \in StateRow
      /\ Ensured(state[m]).link \in {state[m].link, None}
      /\ Ensured(state[m]).status \in {state[m].status, "none"}
      /\ state[m].status # "absent" => Ensured(state[m]).link = state[m].link
  BY <1>4, EnsuredRow
<1> HIDE DEF m, seen
<1>7. /\ AfterOutcome(Ensured(state[m]), Ensured(seen), session[p].ok) \in StateRow
      /\ AfterOutcome(Ensured(state[m]), Ensured(seen), session[p].ok).link
           = Ensured(state[m]).link
      /\ AfterOutcome(Ensured(state[m]), Ensured(seen), session[p].ok).status = "down"
           => Ensured(state[m]).status = "down"
              \/ WentDown(Ensured(seen),
                          AfterOutcome(Ensured(state[m]), Ensured(seen), session[p].ok))
  BY <1>3, <1>5, <1>6, AfterOutcomeRow
<1>8. QED
  BY <1>1, <1>5, <1>6, <1>7 DEF SeenRow, Refreshed, m, seen

\* Each outcome of an incident transition keeps the tables typed.
LEMMA TransitionType ==
  ASSUME TypeOK, NEW m \in Monitor, NEW seen \in StateRow, NEW row \in StateRow,
         OpenIncident(m, seen, row) \/ CloseIncident(m, seen, row)
           \/ KeepIncident(m, seen, row)
  PROVE  /\ state' \in [Monitor -> StateRow]
         /\ incident' \in [IncidentId -> IncidentRow]
<1>1. AlertAfter(seen, row) \in BOOLEAN
  BY AlertAfterType
<1>2. CASE OpenIncident(m, seen, row)
  <2>1. PICK i \in IncidentId :
          /\ incident' = [incident EXCEPT ![i] = NewIncident(m)]
          /\ state' = [state EXCEPT ![m] = [row EXCEPT !.link = i,
                                                       !.alert = AlertAfter(seen, row)]]
    BY <1>2 DEF OpenIncident
  <2>2. [row EXCEPT !.link = i, !.alert = AlertAfter(seen, row)] \in StateRow
    BY <1>1 DEF StateRow
  <2>3. QED
    BY <2>1, <2>2, NewRow DEF TypeOK
<1>3. CASE CloseIncident(m, seen, row)
  <2>1. /\ row.link \in IncidentId
        /\ incident' = [incident EXCEPT
             ![row.link] = IF @.status \in OpenStatuses THEN Resolved(@, @) ELSE @]
        /\ state' = [state EXCEPT ![m] = [row EXCEPT !.link = None,
                                                     !.alert = AlertAfter(seen, row)]]
    BY <1>3 DEF CloseIncident, StateRow
  <2>2. [row EXCEPT !.link = None, !.alert = AlertAfter(seen, row)] \in StateRow
    BY <1>1 DEF StateRow
  <2>3. incident[row.link] \in IncidentRow
    BY <2>1 DEF TypeOK
  <2>4. Resolved(incident[row.link], incident[row.link]) \in IncidentRow
    BY <2>3, IncidentRows
  <2>5. QED
    BY <2>1, <2>2, <2>4 DEF TypeOK
<1>4. CASE KeepIncident(m, seen, row)
  <2>1. [row EXCEPT !.alert = AlertAfter(seen, row)] \in StateRow
    BY <1>1 DEF StateRow
  <2>2. QED
    BY <1>4, <2>1 DEF KeepIncident, TypeOK
<1>5. QED
  BY <1>2, <1>3, <1>4

LEMMA TypeInit == Init => TypeOK
<1> SUFFICES ASSUME Init PROVE TypeOK
  OBVIOUS
<1>1. /\ monitor \in [Monitor -> MonitorStatus]
      /\ state \in [Monitor -> StateRow]
      /\ incident \in [IncidentId -> IncidentRow]
      /\ session \in [Session -> SessionRow]
      /\ SessionOK
  BY IdleRow DEF Init, MonitorStatus, SessionOK
<1>2. NoMail \in Letter
  BY DEF NoMail, Letter, MailKind
<1>3. told \in [Monitor -> Letter]
  BY <1>2 DEF Init
<1>4. rollbacks \in 0 .. MaxRollbacks
  BY BoundsAssumption DEF Init
<1>5. QED
  BY <1>1, <1>3, <1>4, SettingsAssumption DEF Init, TypeOK

\* The actions that end a check.
LEMMA TypeCheckEnd ==
  ASSUME TypeOK, NEW p \in Checker,
         RecordCheck(p) \/ LoseCheck(p) \/ SyncPaused(p) \/ AbortCheck(p)
  PROVE  TypeOK'
<1>1. p \in Session /\ session[p] \in SessionRow
  BY DEF Session, TypeOK
<1>2. End(p)
  BY DEF RecordCheck, LoseCheck, SyncPaused, AbortCheck
<1>3. session' \in [Session -> SessionRow] /\ SessionOK'
  BY <1>1, <1>2, EndStep DEF TypeOK
<1>4. CASE RecordCheck(p)
  <2> DEFINE m == session[p].mon
  <2>1. m \in Monitor /\ SeenRow(p) \in StateRow /\ Refreshed(p) \in StateRow
    BY <1>1, <1>4, Recording DEF RecordCheck
  <2>2. state' \in [Monitor -> StateRow] /\ incident' \in [IncidentId -> IncidentRow]
    BY <1>4, <2>1, TransitionType DEF RecordCheck
  <2>3. told' \in [Monitor -> Letter]
    <3>1. SendMail(m, MailFor(SeenRow(p), Refreshed(p)))
      BY <1>4 DEF RecordCheck
    <3>2. MailFor(SeenRow(p), Refreshed(p)) \in MailKind
      BY MailForType
    <3> HIDE DEF m
    <3>3. QED
      BY <2>1, <3>1, <3>2, SendMailType DEF TypeOK
  <2>4. QED
    BY <1>3, <1>4, <2>2, <2>3 DEF RecordCheck, TypeOK
<1>5. CASE LoseCheck(p)
  <2> DEFINE m == session[p].mon
  <2>1. m \in Monitor
    BY <1>1, <1>5, Recording DEF LoseCheck
  <2>2. told' \in [Monitor -> Letter]
    <3>1. SendMail(m, MailFor(SeenRow(p), Refreshed(p)))
      BY <1>5 DEF LoseCheck
    <3>2. MailFor(SeenRow(p), Refreshed(p)) \in MailKind
      BY MailForType
    <3> HIDE DEF m
    <3>3. QED
      BY <2>1, <3>1, <3>2, SendMailType DEF TypeOK
  <2>3. rollbacks' \in 0 .. MaxRollbacks
    BY <1>5, BoundsAssumption DEF LoseCheck, TypeOK
  <2>4. QED
    BY <1>3, <1>5, <2>2, <2>3 DEF LoseCheck, TypeOK
<1>6. CASE SyncPaused(p)
  <2> DEFINE m == session[p].mon
  <2>1. m \in Monitor
    BY <1>1, <1>6 DEF SyncPaused, TypeOK, SessionOK, SessionRowOK
  <2>2. state[m] \in StateRow /\ session[p].seen \in StateRow
    BY <1>1, <2>1 DEF TypeOK, SessionRow
  <2>3. AfterPause(Ensured(state[m]), SeenRow(p)) \in StateRow
    BY <2>2, EnsuredRow, AfterPauseRow DEF SeenRow
  <2>4. state' = [state EXCEPT ![m] = AfterPause(Ensured(state[m]), SeenRow(p))]
    BY <1>6 DEF SyncPaused
  <2>5. state' \in [Monitor -> StateRow]
    BY <2>1, <2>3, <2>4 DEF TypeOK
  <2>6. QED
    BY <1>3, <1>6, <2>5 DEF SyncPaused, TypeOK
<1>7. CASE AbortCheck(p)
  BY <1>3, <1>7 DEF AbortCheck, TypeOK
<1>8. QED
  BY <1>4, <1>5, <1>6, <1>7

\* The actions that begin or continue a check.
LEMMA TypeCheckBegin ==
  ASSUME TypeOK, NEW p \in Checker, NEW m \in Monitor, NEW ok \in BOOLEAN,
         StartCheck(p, m) \/ StartPausedCheck(p, m) \/ FinishProbe(p, ok)
  PROVE  TypeOK'
<1>1. p \in Session
  BY DEF Session
<1>2. CASE StartCheck(p, m)
  <2>1. session' \in [Session -> SessionRow] /\ SessionOK'
    BY <1>1, <1>2, IdleRow, CheckRows, SessionStep DEF StartCheck, Begin, TypeOK
  <2>2. QED
    BY <1>2, <2>1 DEF StartCheck, TypeOK
<1>3. CASE StartPausedCheck(p, m)
  <2>1. state[m] \in StateRow
    BY DEF TypeOK
  <2>2. session' \in [Session -> SessionRow] /\ SessionOK'
    BY <1>1, <1>3, <2>1, CheckRows, SessionStep DEF StartPausedCheck, Begin, TypeOK
  <2>3. QED
    BY <1>3, <2>2 DEF StartPausedCheck, TypeOK
<1>4. CASE FinishProbe(p, ok)
  <2> DEFINE k == session[p].mon
             new == [session[p] EXCEPT !.at = "recording", !.ok = ok, !.seen = state[k]]
  <2>1. k \in Monitor /\ session[p] \in SessionRow
    BY <1>1, <1>4 DEF FinishProbe, TypeOK, SessionOK, SessionRowOK
  <2>2. state[k] \in StateRow /\ (~ok => state[k].failures < MaxFailures)
    BY <1>4, <2>1 DEF FinishProbe, TypeOK
  <2>3. new \in SessionRow /\ SessionRowOK(new)
    BY <2>1, <2>2, RecordingRow
  <2>4. session' = [session EXCEPT ![p] = new]
    BY <1>4 DEF FinishProbe
  <2> HIDE DEF new
  <2>5. session' \in [Session -> SessionRow] /\ SessionOK'
    BY <1>1, <2>3, <2>4, SessionStep DEF TypeOK
  <2>6. QED
    BY <1>4, <2>5 DEF FinishProbe, TypeOK
<1>5. QED
  BY <1>2, <1>3, <1>4

\* The actions that begin a request, or are one.
LEMMA TypeRequest ==
  ASSUME TypeOK, NEW q \in Admin, Request(q)
  PROVE  TypeOK'
<1>1. q \in Session
  BY DEF Session
<1>2. ASSUME NEW paused \in BOOLEAN, CreateMonitor(q, paused)
      PROVE  TypeOK'
  <2>1. PICK m \in Monitor :
          /\ monitor' = [monitor EXCEPT ![m] = IF paused THEN "paused" ELSE "active"]
          /\ state' = [state EXCEPT ![m] =
                         IF paused THEN AfterPause(Ensured(state[m]), Ensured(state[m]))
                                   ELSE Ensured(state[m])]
          /\ told' = [told EXCEPT ![m] = Inherited(state[m])]
    BY <1>2 DEF CreateMonitor
  <2>2. state[m] \in StateRow
    BY DEF TypeOK
  <2>3. /\ Ensured(state[m]) \in StateRow
        /\ AfterPause(Ensured(state[m]), Ensured(state[m])) \in StateRow
    BY <2>2, EnsuredRow, AfterPauseRow
  <2>4. state' \in [Monitor -> StateRow] /\ monitor' \in [Monitor -> MonitorStatus]
    BY <2>1, <2>3 DEF TypeOK, MonitorStatus
  <2>5. Inherited(state[m]) \in Letter
    BY DEF Inherited, Posted, NoMail, Letter, MailKind
  <2>6. told' \in [Monitor -> Letter]
    BY <2>1, <2>5 DEF TypeOK
  <2>7. QED
    BY <1>2, <2>4, <2>6 DEF CreateMonitor, TypeOK, SessionOK, SessionRowOK
<1>3. ASSUME NEW m \in Monitor, NEW want \in BOOLEAN, LoadMonitor(q, m, want)
      PROVE  TypeOK'
  <2> DEFINE was == monitor[m] = "paused"
  <2>1. /\ [Idle EXCEPT !.at = "patching", !.mon = m, !.want = want, !.was = was]
              \in SessionRow
        /\ SessionRowOK([Idle EXCEPT !.at = "patching", !.mon = m, !.want = want,
                                     !.was = was])
    BY IdleRow DEF SessionRow, SessionRowOK, IncidentOps
  <2>2. session' \in [Session -> SessionRow] /\ SessionOK'
    BY <1>1, <1>3, <2>1, SessionStep DEF LoadMonitor, Begin, TypeOK
  <2>3. QED
    BY <1>3, <2>2 DEF LoadMonitor, TypeOK
<1>4. ASSUME NEW m \in Monitor, LoadForDelete(q, m)
      PROVE  TypeOK'
  <2>1. /\ [Idle EXCEPT !.at = "deleting", !.mon = m] \in SessionRow
        /\ SessionRowOK([Idle EXCEPT !.at = "deleting", !.mon = m])
    BY IdleRow DEF SessionRow, SessionRowOK, IncidentOps
  <2>2. session' \in [Session -> SessionRow] /\ SessionOK'
    BY <1>1, <1>4, <2>1, SessionStep DEF LoadForDelete, Begin, TypeOK
  <2>3. QED
    BY <1>4, <2>2 DEF LoadForDelete, TypeOK
<1>5. ASSUME NEW op \in IncidentOps, NEW i \in IncidentId, LoadIncident(q, i, op)
      PROVE  TypeOK'
  <2>1. incident[i] \in IncidentRow
    BY DEF TypeOK
  <2>2. /\ [Idle EXCEPT !.at = op, !.inc = i, !.row = incident[i]] \in SessionRow
        /\ SessionRowOK([Idle EXCEPT !.at = op, !.inc = i, !.row = incident[i]])
    BY <2>1, IdleRow DEF SessionRow, SessionRowOK, IncidentOps
  <2>3. session' \in [Session -> SessionRow] /\ SessionOK'
    BY <1>1, <1>5, <2>2, SessionStep DEF LoadIncident, Begin, TypeOK
  <2>4. QED
    BY <1>5, <2>3 DEF LoadIncident, TypeOK
<1>6. ASSUME NEW r \in BOOLEAN, NEW s \in BOOLEAN, SetAlerts(q, r, s)
      PROVE  TypeOK'
  BY <1>6 DEF SetAlerts, TypeOK, SessionOK, SessionRowOK
<1>7. QED
  BY <1>2, <1>3, <1>4, <1>5, <1>6 DEF Request

\* The actions that end a request.
LEMMA TypeReply ==
  ASSUME TypeOK, NEW q \in Admin, Reply(q)
  PROVE  TypeOK'
<1>1. q \in Session /\ session[q] \in SessionRow
  BY DEF Session, TypeOK
<1>2. End(q)
  BY DEF Reply, PatchMonitor, DeleteMonitor, Acknowledge, Resolve, Reopen
<1>3. session' \in [Session -> SessionRow] /\ SessionOK'
  BY <1>1, <1>2, EndStep DEF TypeOK
<1>4. CASE PatchMonitor(q)
  <2> DEFINE m == session[q].mon
             paused == Column(monitor[m] = "paused", session[q].was, session[q].want)
  <2>1. m \in Monitor
    BY <1>1, <1>4 DEF PatchMonitor, TypeOK, SessionOK, SessionRowOK
  <2>2. state[m] \in StateRow
    BY <2>1 DEF TypeOK
  <2>3. /\ Ensured(state[m]) \in StateRow
        /\ AfterPause(Ensured(state[m]), Ensured(state[m])) \in StateRow
    BY <2>2, EnsuredRow, AfterPauseRow
  <2>4. CASE monitor[m] = "absent"
    BY <1>3, <1>4, <2>4 DEF PatchMonitor, TypeOK
  <2>5. CASE monitor[m] # "absent"
    <3>1. /\ monitor' = [monitor EXCEPT ![m] = IF paused THEN "paused" ELSE "active"]
          /\ state' = [state EXCEPT ![m] =
                         IF paused THEN AfterPause(Ensured(state[m]), Ensured(state[m]))
                                   ELSE Ensured(state[m])]
      BY <1>4, <2>5 DEF PatchMonitor
    <3> HIDE DEF m, paused
    <3>2. state' \in [Monitor -> StateRow] /\ monitor' \in [Monitor -> MonitorStatus]
      BY <2>1, <2>3, <3>1 DEF TypeOK, MonitorStatus
    <3>3. QED
      BY <1>3, <1>4, <3>2 DEF PatchMonitor, TypeOK
  <2>6. QED
    BY <2>4, <2>5
<1>5. CASE DeleteMonitor(q)
  BY <1>3, <1>5, IdleRow DEF DeleteMonitor, StateAfterDelete, TypeOK, MonitorStatus
<1>6. ASSUME session[q].at \in IncidentOps
      PROVE  /\ session[q].inc \in IncidentId
             /\ incident[session[q].inc] \in IncidentRow
             /\ session[q].row \in IncidentRow
  BY <1>1, <1>6 DEF TypeOK, SessionOK, SessionRowOK, SessionRow
<1>7. CASE Acknowledge(q)
  <2>1. incident' \in [IncidentId -> IncidentRow]
    BY <1>6, <1>7, IncidentRows DEF Acknowledge, IncidentOps, TypeOK
  <2>2. QED
    BY <1>3, <1>7, <2>1 DEF Acknowledge, TypeOK
<1>8. CASE Resolve(q)
  <2> DEFINE i == session[q].inc
             m == incident[i].of
  <2>1. incident' \in [IncidentId -> IncidentRow]
    BY <1>6, <1>8, IncidentRows DEF Resolve, IncidentOps, TypeOK
  <2>2. m \in Monitor => Unlinked(m, i) \in StateRow
    BY DEF Unlinked, TypeOK, StateRow
  <2>3. state' = [state EXCEPT ![m] = Unlinked(m, i)]
    BY <1>8 DEF Resolve
  <2> HIDE DEF m, i
  <2>4. state' \in [Monitor -> StateRow]
    BY <2>2, <2>3 DEF TypeOK
  <2>5. QED
    BY <1>3, <1>8, <2>1, <2>4 DEF Resolve, TypeOK
<1>9. CASE Reopen(q)
  <2>1. incident' \in [IncidentId -> IncidentRow]
    BY <1>6, <1>9, IncidentRows DEF Reopen, IncidentOps, TypeOK
  <2>2. QED
    BY <1>3, <1>9, <2>1 DEF Reopen, TypeOK
<1>10. QED
  BY <1>4, <1>5, <1>7, <1>8, <1>9 DEF Reply

LEMMA TypeRollback ==
  ASSUME TypeOK, NEW p \in Session, Rollback(p)
  PROVE  TypeOK'
<1>1. session' \in [Session -> SessionRow] /\ SessionOK'
  BY EndStep DEF Rollback, TypeOK
<1>2. rollbacks' \in 0 .. MaxRollbacks
  BY BoundsAssumption DEF Rollback, TypeOK
<1>3. QED
  BY <1>1, <1>2 DEF Rollback, TypeOK

LEMMA TypeNext == TypeOK /\ [Next]_vars => TypeOK'
<1> SUFFICES ASSUME TypeOK, [Next]_vars PROVE TypeOK'
  OBVIOUS
<1>1. ASSUME NEW p \in Checker, NEW m \in Monitor, StartCheck(p, m) \/ StartPausedCheck(p, m)
      PROVE  TypeOK'
  BY <1>1, TypeCheckBegin
<1>2. ASSUME NEW p \in Checker, CheckStep(p)
      PROVE  TypeOK'
  <2>1. ASSUME NEW ok \in BOOLEAN, FinishProbe(p, ok)
        PROVE  TypeOK'
    <3>1. session[p].mon \in Monitor
      BY <2>1 DEF FinishProbe, TypeOK, SessionOK, SessionRowOK, Session
    <3>2. QED
      BY <2>1, <3>1, TypeCheckBegin
  <2>2. QED
    BY <1>2, <2>1, TypeCheckEnd DEF CheckStep
<1>3. ASSUME NEW q \in Admin, Request(q) \/ Reply(q)
      PROVE  TypeOK'
  BY <1>3, TypeRequest, TypeReply
<1>4. CASE UNCHANGED vars
  BY <1>4 DEF vars, TypeOK, SessionOK, SessionRowOK
<1>5. QED
  BY <1>1, <1>2, <1>3, <1>4, TypeRollback DEF Next

\* Every reachable state is well typed: the rows, the counters, and what each
\* session has loaded.
THEOREM TypeCorrect == Spec => []TypeOK
BY TypeInit, TypeNext, PTL DEF Spec

-----------------------------------------------------------------------------
(* Links *)

\* A transition keeps every link sound: a new incident was nobody's before, a
\* resolved one is nobody's any more.
LEMMA TransitionLink ==
  ASSUME TypeOK, LinkSound, NEW m \in Monitor, NEW seen \in StateRow,
         NEW row \in StateRow, row.link \in {state[m].link, None},
         OpenIncident(m, seen, row) \/ CloseIncident(m, seen, row)
           \/ KeepIncident(m, seen, row)
  PROVE  LinkSound'
<1> SUFFICES ASSUME NEW k \in Monitor, state'[k].link # None
             PROVE  /\ incident'[state'[k].link].status \in OpenStatuses
                    /\ incident'[state'[k].link].of = k
  BY DEF LinkSound
<1>1. AlertAfter(seen, row) \in BOOLEAN
  BY AlertAfterType
<1>2. k # m => state'[k] = state[k]
  BY DEF OpenIncident, CloseIncident, KeepIncident, TypeOK
<1>3. state[k] \in StateRow /\ state[m] \in StateRow
  BY DEF TypeOK
<1>4. state[k].link \in IncidentId \cup {None}
  BY <1>3 DEF StateRow
<1>5. CASE OpenIncident(m, seen, row)
  <2>1. PICK i \in IncidentId :
          /\ FreshIncident(i)
          /\ incident' = [incident EXCEPT ![i] = NewIncident(m)]
          /\ state' = [state EXCEPT ![m] = [row EXCEPT !.link = i,
                                                       !.alert = AlertAfter(seen, row)]]
    BY <1>5 DEF OpenIncident
  <2>2. incident[i].status = "absent"
    BY <2>1 DEF FreshIncident, IncidentId
  <2>3. CASE k = m
    <3>1. state'[k].link = i
      BY <2>1, <2>3 DEF StateRow, TypeOK
    <3>2. incident'[i] = NewIncident(m)
      BY <2>1 DEF TypeOK
    <3>3. QED
      BY <2>3, <3>1, <3>2, NewRow DEF OpenStatuses
  <2>4. CASE k # m
    <3>1. state'[k].link = state[k].link
      BY <1>2, <2>4
    <3>2. /\ incident[state[k].link].status \in OpenStatuses
          /\ incident[state[k].link].of = k
      BY <3>1 DEF LinkSound
    <3>3. state[k].link # i
      BY <2>2, <3>2 DEF OpenStatuses
    <3>4. incident'[state[k].link] = incident[state[k].link]
      BY <1>4, <2>1, <3>1, <3>3 DEF TypeOK
    <3>5. QED
      BY <3>1, <3>2, <3>4
  <2>5. QED
    BY <2>3, <2>4
<1>6. CASE CloseIncident(m, seen, row)
  <2>1. /\ row.link # None /\ row.link = state[m].link
        /\ incident' = [incident EXCEPT
             ![row.link] = IF @.status \in OpenStatuses THEN Resolved(@, @) ELSE @]
        /\ state' = [state EXCEPT ![m] = [row EXCEPT !.link = None,
                                                     !.alert = AlertAfter(seen, row)]]
    BY <1>6 DEF CloseIncident
  <2>2. [row EXCEPT !.link = None, !.alert = AlertAfter(seen, row)].link = None
    BY DEF StateRow
  <2>3. k # m
    BY <2>1, <2>2 DEF TypeOK
  <2>4. state'[k].link = state[k].link
    BY <1>2, <2>3
  <2>5. /\ incident[state[k].link].status \in OpenStatuses
        /\ incident[state[k].link].of = k
        /\ incident[row.link].of = m
    BY <2>1, <2>4 DEF LinkSound
  <2>6. state[k].link # row.link
    BY <2>3, <2>5
  <2>7. incident'[state[k].link] = incident[state[k].link]
    BY <1>4, <2>1, <2>4, <2>6 DEF TypeOK
  <2>8. QED
    BY <2>4, <2>5, <2>7
<1>7. CASE KeepIncident(m, seen, row)
  <2>1. /\ incident' = incident
        /\ state' = [state EXCEPT ![m] = [row EXCEPT !.alert = AlertAfter(seen, row)]]
    BY <1>7 DEF KeepIncident
  <2>2. [row EXCEPT !.alert = AlertAfter(seen, row)].link = row.link
    BY DEF StateRow
  <2>3. state'[k].link = state[k].link
    BY <1>2, <2>1, <2>2 DEF TypeOK
  <2>4. QED
    BY <2>1, <2>3 DEF LinkSound
<1>8. QED
  BY <1>5, <1>6, <1>7

\* A step that changes the state of one monitor, but no incident, and gives it
\* the link it had or none, keeps the links sound.
LEMMA SameLinks ==
  ASSUME TypeOK, LinkSound, NEW m \in Monitor, NEW row \in StateRow,
         row.link \in {state[m].link, None},
         state' = [state EXCEPT ![m] = row], UNCHANGED incident
  PROVE  LinkSound'
BY DEF LinkSound, TypeOK

\* A step that changes the incident an administrator has loaded, but no link,
\* keeps the links sound if an open incident stays open.
LEMMA SameIncident ==
  ASSUME TypeOK, LinkSound, NEW i \in IncidentId, NEW row \in IncidentRow,
         incident[i].status \in OpenStatuses => row.status \in OpenStatuses,
         row.of = incident[i].of,
         incident' = [incident EXCEPT ![i] = row], UNCHANGED state
  PROVE  LinkSound'
<1> SUFFICES ASSUME NEW k \in Monitor, state[k].link # None
             PROVE  /\ incident'[state[k].link].status \in OpenStatuses
                    /\ incident'[state[k].link].of = k
  BY DEF LinkSound
<1>1. state[k].link \in IncidentId
  BY DEF TypeOK, StateRow
<1>2. /\ incident[state[k].link].status \in OpenStatuses
      /\ incident[state[k].link].of = k
  BY DEF LinkSound
<1>3. QED
  BY <1>1, <1>2 DEF TypeOK

LEMMA LinkCheck ==
  ASSUME TypeOK, LinkSound, NEW p \in Checker, CheckStep(p)
  PROVE  LinkSound'
<1>1. p \in Session /\ session[p] \in SessionRow
  BY DEF Session, TypeOK
<1>2. CASE RecordCheck(p)
  <2>1. session[p].at = "recording"
    BY <1>2 DEF RecordCheck
  <2> DEFINE m == session[p].mon
  <2>2. /\ m \in Monitor /\ SeenRow(p) \in StateRow /\ Refreshed(p) \in StateRow
        /\ Refreshed(p).link \in {state[m].link, None}
    BY <1>1, <2>1, Recording
  <2>3. \/ OpenIncident(m, SeenRow(p), Refreshed(p))
        \/ CloseIncident(m, SeenRow(p), Refreshed(p))
        \/ KeepIncident(m, SeenRow(p), Refreshed(p))
    BY <1>2 DEF RecordCheck
  <2> HIDE DEF m
  <2>4. QED
    BY <2>2, <2>3, TransitionLink
<1>3. CASE SyncPaused(p)
  <2> DEFINE m == session[p].mon
             row == AfterPause(Ensured(state[m]), SeenRow(p))
  <2>1. m \in Monitor
    BY <1>1, <1>3 DEF SyncPaused, TypeOK, SessionOK, SessionRowOK
  <2>2. state[m] \in StateRow /\ session[p].seen \in StateRow
    BY <1>1, <2>1 DEF TypeOK, SessionRow
  <2>3. row \in StateRow /\ row.link \in {state[m].link, None}
    BY <2>2, EnsuredRow, AfterPauseRow DEF SeenRow
  <2>4. state' = [state EXCEPT ![m] = row] /\ UNCHANGED incident
    BY <1>3 DEF SyncPaused
  <2> HIDE DEF m, row
  <2>5. QED
    BY <2>1, <2>3, <2>4, SameLinks
<1>4. CASE \/ \E ok \in BOOLEAN : FinishProbe(p, ok)
           \/ LoseCheck(p) \/ AbortCheck(p)
  BY <1>4 DEF FinishProbe, LoseCheck, AbortCheck, LinkSound
<1>5. QED
  BY <1>2, <1>3, <1>4 DEF CheckStep

LEMMA LinkRequest ==
  ASSUME TypeOK, LinkSound, NEW q \in Admin, Request(q)
  PROVE  LinkSound'
<1>1. ASSUME NEW paused \in BOOLEAN, CreateMonitor(q, paused)
      PROVE  LinkSound'
  <2>1. PICK m \in Monitor :
          state' = [state EXCEPT ![m] =
                      IF paused THEN AfterPause(Ensured(state[m]), Ensured(state[m]))
                                ELSE Ensured(state[m])]
    BY <1>1 DEF CreateMonitor
  <2> DEFINE row == IF paused THEN AfterPause(Ensured(state[m]), Ensured(state[m]))
                              ELSE Ensured(state[m])
  <2>2. state[m] \in StateRow
    BY DEF TypeOK
  <2>3. row \in StateRow /\ row.link \in {state[m].link, None}
    BY <2>2, EnsuredRow, AfterPauseRow
  <2>4. UNCHANGED incident
    BY <1>1 DEF CreateMonitor
  <2> HIDE DEF row
  <2>5. state' = [state EXCEPT ![m] = row]
    BY <2>1 DEF row
  <2>6. QED
    BY <2>3, <2>4, <2>5, SameLinks
<1>2. CASE \/ \E m \in Monitor, want \in BOOLEAN : LoadMonitor(q, m, want)
           \/ \E m \in Monitor : LoadForDelete(q, m)
           \/ \E op \in IncidentOps, i \in IncidentId : LoadIncident(q, i, op)
           \/ \E r, s \in BOOLEAN : SetAlerts(q, r, s)
  BY <1>2 DEF LoadMonitor, LoadForDelete, LoadIncident, SetAlerts, LinkSound
<1>3. QED
  BY <1>1, <1>2 DEF Request

LEMMA LinkReply ==
  ASSUME TypeOK, LinkSound, NEW q \in Admin, Reply(q)
  PROVE  LinkSound'
<1>1. q \in Session /\ session[q] \in SessionRow
  BY DEF Session, TypeOK
<1>2. CASE PatchMonitor(q)
  <2> DEFINE m == session[q].mon
             paused == Column(monitor[m] = "paused", session[q].was, session[q].want)
             row == IF paused THEN AfterPause(Ensured(state[m]), Ensured(state[m]))
                              ELSE Ensured(state[m])
  <2>1. m \in Monitor
    BY <1>1, <1>2 DEF PatchMonitor, TypeOK, SessionOK, SessionRowOK
  <2>2. state[m] \in StateRow
    BY <2>1 DEF TypeOK
  <2>3. row \in StateRow /\ row.link \in {state[m].link, None}
    BY <2>2, EnsuredRow, AfterPauseRow
  <2>4. CASE monitor[m] = "absent"
    BY <1>2, <2>4 DEF PatchMonitor, LinkSound
  <2>5. CASE monitor[m] # "absent"
    <3>1. state' = [state EXCEPT ![m] = row] /\ UNCHANGED incident
      BY <1>2, <2>5 DEF PatchMonitor
    <3> HIDE DEF m, paused, row
    <3>2. QED
      BY <2>1, <2>3, <3>1, SameLinks
  <2>6. QED
    BY <2>4, <2>5
<1>3. CASE DeleteMonitor(q)
  <2>1. session[q].mon \in Monitor
    BY <1>1, <1>3 DEF DeleteMonitor, TypeOK, SessionOK, SessionRowOK
  <2>2. NoState.link = None
    BY DEF NoState, FreshState
  <2>3. QED
    BY <1>3, <2>1, <2>2, IdleRow, SameLinks DEF DeleteMonitor, StateAfterDelete
<1>4. ASSUME session[q].at \in IncidentOps
      PROVE  /\ session[q].inc \in IncidentId
             /\ incident[session[q].inc] \in IncidentRow
             /\ session[q].row \in IncidentRow
  BY <1>1, <1>4 DEF TypeOK, SessionOK, SessionRowOK, SessionRow
<1>5. CASE Acknowledge(q)
  <2> DEFINE i == session[q].inc
             row == Acknowledged(incident[i], session[q].row)
  <2>1. i \in IncidentId /\ incident[i] \in IncidentRow /\ session[q].row \in IncidentRow
    BY <1>4, <1>5 DEF Acknowledge, IncidentOps
  <2>2. /\ row \in IncidentRow /\ row.of = incident[i].of
        /\ incident[i].status \in OpenStatuses => row.status \in OpenStatuses
    BY <2>1, IncidentRows
  <2>3. incident' = [incident EXCEPT ![i] = row] /\ UNCHANGED state
    BY <1>5 DEF Acknowledge
  <2> HIDE DEF i, row
  <2>4. QED
    BY <2>1, <2>2, <2>3, SameIncident
<1>6. CASE Reopen(q)
  <2> DEFINE i == session[q].inc
             row == Reopened(incident[i], session[q].row)
  <2>1. i \in IncidentId /\ incident[i] \in IncidentRow /\ session[q].row \in IncidentRow
    BY <1>4, <1>6 DEF Reopen, IncidentOps
  <2>2. /\ row \in IncidentRow /\ row.of = incident[i].of
        /\ incident[i].status \in OpenStatuses => row.status \in OpenStatuses
    BY <2>1, IncidentRows
  <2>3. incident' = [incident EXCEPT ![i] = row] /\ UNCHANGED state
    BY <1>6 DEF Reopen
  <2> HIDE DEF i, row
  <2>4. QED
    BY <2>1, <2>2, <2>3, SameIncident
<1>7. CASE Resolve(q)
  <2> DEFINE i == session[q].inc
             m == incident[i].of
  <2>1. i \in IncidentId
    BY <1>4, <1>7 DEF Resolve, IncidentOps
  <2>2. /\ incident' = [incident EXCEPT ![i] = Resolved(@, session[q].row)]
        /\ state' = [state EXCEPT ![m] = Unlinked(m, i)]
    BY <1>7 DEF Resolve
  <2> HIDE DEF i
  <2> SUFFICES ASSUME NEW k \in Monitor, state'[k].link # None
               PROVE  /\ incident'[state'[k].link].status \in OpenStatuses
                      /\ incident'[state'[k].link].of = k
    BY DEF LinkSound
  <2>3. state[k] \in StateRow
    BY DEF TypeOK
  <2>4. state[k].link # None /\ state'[k].link = state[k].link /\ state[k].link # i
    <3>1. CASE k = m
      <4>1. state'[k] = Unlinked(m, i)
        BY <2>2, <3>1 DEF TypeOK
      <4>2. state[k].link # i
        BY <2>3, <3>1, <4>1 DEF Unlinked, StateRow
      <4>3. QED
        BY <3>1, <4>1, <4>2 DEF Unlinked
    <3>2. CASE k # m
      <4>1. state'[k] = state[k]
        BY <2>2, <3>2 DEF TypeOK
      <4>2. incident[state[k].link].of = k
        BY <4>1 DEF LinkSound
      <4>3. QED
        BY <3>2, <4>1, <4>2
    <3>3. QED
      BY <3>1, <3>2
  <2>5. state[k].link \in IncidentId
    BY <2>3, <2>4 DEF StateRow
  <2>6. incident'[state[k].link] = incident[state[k].link]
    BY <2>2, <2>4, <2>5 DEF TypeOK
  <2>7. QED
    BY <2>4, <2>6 DEF LinkSound
<1>8. QED
  BY <1>2, <1>3, <1>5, <1>6, <1>7 DEF Reply

LEMMA LinkNext == TypeOK /\ LinkSound /\ [Next]_vars => LinkSound'
<1> SUFFICES ASSUME TypeOK, LinkSound, [Next]_vars PROVE LinkSound'
  OBVIOUS
<1>1. ASSUME NEW p \in Checker, NEW m \in Monitor, StartCheck(p, m) \/ StartPausedCheck(p, m)
      PROVE  LinkSound'
  BY <1>1 DEF StartCheck, StartPausedCheck, LinkSound
<1>2. ASSUME NEW p \in Session, Rollback(p)
      PROVE  LinkSound'
  BY <1>2 DEF Rollback, LinkSound
<1>3. CASE UNCHANGED vars
  BY <1>3 DEF vars, LinkSound
<1>4. QED
  BY <1>1, <1>2, <1>3, LinkCheck, LinkRequest, LinkReply DEF Next

LEMMA LinkInit == Init => LinkSound
BY DEF Init, LinkSound, FreshState, NoState

\* However checks and requests overlap, a linked incident is an unresolved one
\* of the monitor that links it.
THEOREM LinksSound == Spec => []LinkSound
<1>1. Spec => []TypeOK
  BY TypeCorrect
<1>2. QED
  BY <1>1, LinkInit, LinkNext, PTL DEF Spec

-----------------------------------------------------------------------------
(* Outages *)

\* What a monitor may look like after its row was synchronised: it is not
\* turned down, and does not lose its link while it is.
LEMMA PausedRowDown ==
  ASSUME NEW row \in StateRow, NEW new \in StateRow,
         new \in {Ensured(row), AfterPause(Ensured(row), Ensured(row))}
           \/ (\E seen \in StateRow : new = AfterPause(Ensured(row), seen)),
         new.status = "down"
  PROVE  row.status = "down" /\ new.link = row.link
<1>1. Ensured(row) \in StateRow
  BY EnsuredRow
<1>2. new.status \in {Ensured(row).status, "paused"} /\ new.link = Ensured(row).link
  BY <1>1, AfterPauseRow
<1>3. Ensured(row).status = "down"
  BY <1>2
<1>4. QED
  BY <1>2, <1>3, EnsuredRow DEF Ensured, FreshState

\* The two ways to be down after a step: with an incident, or as before, unless
\* the incident was resolved by hand.
DownBefore(m) == /\ state[m].status = "down"
                 /\ state'[m].link = state[m].link \/ \E q \in Admin : Resolve(q)

LEMMA DownCheck ==
  ASSUME TypeOK, NEW p \in Checker, CheckStep(p),
         NEW m \in Monitor, state'[m].status = "down", state'[m].link = None
  PROVE  DownBefore(m)
<1>1. p \in Session /\ session[p] \in SessionRow /\ state[m] \in StateRow
  BY DEF Session, TypeOK
<1>2. CASE state'[m] = state[m]
  BY <1>2 DEF DownBefore
<1>3. CASE RecordCheck(p) /\ state'[m] # state[m]
  <2> DEFINE k == session[p].mon
             seen == SeenRow(p)
             row == Refreshed(p)
  <2>1. /\ k \in Monitor /\ seen \in StateRow /\ row \in StateRow
        /\ state[k].status # "absent" => row.link = state[k].link
        /\ row.status = "down" => state[k].status = "down" \/ WentDown(seen, row)
    BY <1>1, <1>3, Recording DEF RecordCheck
  <2>2. OpenIncident(k, seen, row) \/ CloseIncident(k, seen, row) \/ KeepIncident(k, seen, row)
    BY <1>3 DEF RecordCheck
  <2> HIDE DEF k, seen, row
  <2>3. k = m
    BY <1>3, <2>1, <2>2 DEF OpenIncident, CloseIncident, KeepIncident, TypeOK
  <2>4. ~OpenIncident(k, seen, row)
    <3> SUFFICES ASSUME OpenIncident(k, seen, row) PROVE FALSE
      OBVIOUS
    <3>1. PICK i \in IncidentId :
            state' = [state EXCEPT ![k] = [row EXCEPT !.link = i,
                                                      !.alert = AlertAfter(seen, row)]]
      BY DEF OpenIncident
    <3>2. state'[m].link = i
      BY <2>1, <2>3, <3>1 DEF StateRow, TypeOK
    <3>3. QED
      BY <3>2 DEF IncidentId, None
  <2>5. ~CloseIncident(k, seen, row)
    <3> SUFFICES ASSUME CloseIncident(k, seen, row) PROVE FALSE
      OBVIOUS
    <3>1. row.status = "up"
      BY DEF CloseIncident, Recovered
    <3>2. state'[m].status = row.status
      BY <2>1, <2>3 DEF CloseIncident, StateRow, TypeOK
    <3>3. QED
      BY <3>1, <3>2
  <2>6. KeepIncident(k, seen, row)
    BY <2>2, <2>4, <2>5
  <2>7. state'[m].link = row.link /\ state'[m].status = row.status
    BY <2>1, <2>3, <2>6 DEF KeepIncident, StateRow, TypeOK
  <2>8. ~WentDown(seen, row)
    BY <2>6, <2>7 DEF KeepIncident
  <2>9. QED
    BY <2>1, <2>3, <2>7, <2>8 DEF DownBefore
<1>4. CASE SyncPaused(p) /\ state'[m] # state[m]
  <2> DEFINE k == session[p].mon
             new == AfterPause(Ensured(state[k]), SeenRow(p))
  <2>1. k \in Monitor
    BY <1>1, <1>4 DEF SyncPaused, TypeOK, SessionOK, SessionRowOK
  <2>2. state[k] \in StateRow /\ session[p].seen \in StateRow
    BY <1>1, <2>1 DEF TypeOK, SessionRow
  <2>3. SeenRow(p) \in StateRow /\ new \in StateRow
    BY <2>2, EnsuredRow, AfterPauseRow DEF SeenRow
  <2>4. state' = [state EXCEPT ![k] = new]
    BY <1>4 DEF SyncPaused
  <2>5. k = m /\ state'[m] = new
    BY <1>4, <2>1, <2>4 DEF TypeOK
  <2>6. QED
    BY <2>2, <2>3, <2>5, PausedRowDown DEF DownBefore
<1>5. CASE \/ \E ok \in BOOLEAN : FinishProbe(p, ok)
           \/ LoseCheck(p) \/ AbortCheck(p)
  BY <1>2, <1>5 DEF FinishProbe, LoseCheck, AbortCheck
<1>6. QED
  BY <1>2, <1>3, <1>4, <1>5 DEF CheckStep

LEMMA DownAdmin ==
  ASSUME TypeOK, NEW q \in Admin, Request(q) \/ Reply(q),
         NEW m \in Monitor, state'[m].status = "down"
  PROVE  DownBefore(m)
<1>1. q \in Session /\ session[q] \in SessionRow /\ state[m] \in StateRow
  BY DEF Session, TypeOK
<1>2. CASE state'[m] = state[m]
  BY <1>2 DEF DownBefore
<1>3. ASSUME NEW paused \in BOOLEAN, CreateMonitor(q, paused), state'[m] # state[m]
      PROVE  DownBefore(m)
  <2> DEFINE Row(k) == IF paused THEN AfterPause(Ensured(state[k]), Ensured(state[k]))
                                 ELSE Ensured(state[k])
  <2>1. PICK k \in Monitor : state' = [state EXCEPT ![k] = Row(k)]
    BY <1>3 DEF CreateMonitor
  <2>2. k = m /\ state'[m] = Row(m)
    BY <1>3, <2>1 DEF TypeOK
  <2>3. Row(m) \in StateRow
    BY <1>1, EnsuredRow, AfterPauseRow
  <2>4. QED
    BY <1>1, <2>2, <2>3, PausedRowDown DEF DownBefore
<1>4. CASE PatchMonitor(q) /\ state'[m] # state[m]
  <2> DEFINE k == session[q].mon
             paused == Column(monitor[k] = "paused", session[q].was, session[q].want)
             Row == IF paused THEN AfterPause(Ensured(state[k]), Ensured(state[k]))
                              ELSE Ensured(state[k])
  <2>1. k \in Monitor
    BY <1>1, <1>4 DEF PatchMonitor, TypeOK, SessionOK, SessionRowOK
  <2>2. monitor[k] # "absent"
    BY <1>4 DEF PatchMonitor
  <2>3. state' = [state EXCEPT ![k] = Row]
    BY <1>4, <2>2 DEF PatchMonitor
  <2>4. k = m /\ state'[m] = Row
    BY <1>4, <2>1, <2>3 DEF TypeOK
  <2>5. Row \in StateRow
    BY <1>1, <2>4, EnsuredRow, AfterPauseRow
  <2>6. Row \in {Ensured(state[m]), AfterPause(Ensured(state[m]), Ensured(state[m]))}
    BY <2>4
  <2> HIDE DEF Row
  <2>7. QED
    BY <1>1, <2>4, <2>5, <2>6, PausedRowDown DEF DownBefore
<1>5. CASE DeleteMonitor(q) /\ state'[m] # state[m]
  <2>1. state'[m] = NoState
    BY <1>1, <1>5 DEF DeleteMonitor, StateAfterDelete, TypeOK
  <2>2. QED
    BY <2>1 DEF NoState, FreshState
<1>6. CASE Resolve(q) /\ state'[m] # state[m]
  <2> DEFINE i == session[q].inc
             k == incident[i].of
  <2>1. state' = [state EXCEPT ![k] = Unlinked(k, i)]
    BY <1>6 DEF Resolve
  <2>2. k = m /\ state'[m] = Unlinked(m, i)
    BY <1>6, <2>1 DEF TypeOK
  <2>3. state'[m].status = state[m].status
    BY <1>1, <2>2 DEF Unlinked, StateRow
  <2>4. QED
    BY <1>6, <2>3 DEF DownBefore
<1>7. CASE \/ \E k \in Monitor, want \in BOOLEAN : LoadMonitor(q, k, want)
           \/ \E k \in Monitor : LoadForDelete(q, k)
           \/ \E op \in IncidentOps, i \in IncidentId : LoadIncident(q, i, op)
           \/ \E r, s \in BOOLEAN : SetAlerts(q, r, s)
           \/ Acknowledge(q) \/ Reopen(q)
  BY <1>2, <1>7 DEF LoadMonitor, LoadForDelete, LoadIncident, SetAlerts, Acknowledge, Reopen
<1>8. QED
  BY <1>2, <1>3, <1>4, <1>5, <1>6, <1>7 DEF Request, Reply

LEMMA DownNext ==
  ASSUME TypeOK, [Next]_vars, NEW m \in Monitor,
         state'[m].status = "down", state'[m].link = None
  PROVE  DownBefore(m)
<1>1. CASE UNCHANGED state
  BY <1>1 DEF DownBefore
<1>2. ASSUME NEW p \in Checker, NEW k \in Monitor, StartCheck(p, k) \/ StartPausedCheck(p, k)
      PROVE  DownBefore(m)
  BY <1>1, <1>2 DEF StartCheck, StartPausedCheck
<1>3. ASSUME NEW p \in Session, Rollback(p)
      PROVE  DownBefore(m)
  BY <1>1, <1>3 DEF Rollback
<1>4. CASE UNCHANGED vars
  BY <1>1, <1>4 DEF vars
<1>5. QED
  BY <1>2, <1>3, <1>4, DownCheck, DownAdmin DEF Next

\* A monitor has an incident from the commit that turns it down, whatever
\* overlaps with the check that does it.
THEOREM OutagesOpenIncidents == Spec => OutageOpensIncident
<1>1. TypeOK /\ [Next]_vars
        => [\A m \in Monitor :
              state[m].status # "down" /\ state'[m].status = "down"
                => state'[m].link # None]_vars
  BY DownNext DEF DownBefore
<1>2. Spec => []TypeOK
  BY TypeCorrect
<1>3. QED
  BY <1>1, <1>2, PTL DEF Spec, OutageOpensIncident

-----------------------------------------------------------------------------
(* Outages nobody resolves by hand *)

\* An operation that does not happen has no session.
NoResolver == \A q \in Session : session[q].at # "resolve"

LEMMA ResolverNext ==
  ASSUME "resolve" \notin AdminOps, TypeOK, NoResolver, [Next]_vars
  PROVE  NoResolver'
<1> SUFFICES ASSUME NEW r \in Session PROVE session'[r].at # "resolve"
  BY DEF NoResolver
<1>1. Idle.at # "resolve"
  BY DEF Idle
<1>2. ASSUME NEW p \in Session, End(p) PROVE session'[r].at # "resolve"
  BY <1>1, <1>2 DEF End, TypeOK, NoResolver
<1>3. ASSUME NEW p \in Session, NEW row, row.at # "resolve", Begin(p, row)
      PROVE  session'[r].at # "resolve"
  BY <1>3 DEF Begin, TypeOK, NoResolver
<1>4. Checker \subseteq Session /\ Admin \subseteq Session
  BY DEF Session
<1>5. ASSUME NEW p \in Checker, NEW m \in Monitor, StartCheck(p, m) \/ StartPausedCheck(p, m)
      PROVE  session'[r].at # "resolve"
  <2>1. /\ [Idle EXCEPT !.at = "probing", !.mon = m].at # "resolve"
        /\ [Idle EXCEPT !.at = "syncing", !.mon = m, !.seen = state[m]].at # "resolve"
    BY DEF Idle
  <2>2. QED
    BY <1>3, <1>4, <1>5, <2>1 DEF StartCheck, StartPausedCheck
<1>6. ASSUME NEW p \in Checker, NEW ok \in BOOLEAN, FinishProbe(p, ok)
      PROVE  session'[r].at # "resolve"
  <2> DEFINE new == [session[p] EXCEPT !.at = "recording", !.ok = ok,
                                       !.seen = state[session[p].mon]]
  <2>1. session[p] \in SessionRow
    BY <1>4 DEF TypeOK
  <2>2. new.at # "resolve"
    BY <2>1 DEF SessionRow
  <2>3. session' = [session EXCEPT ![p] = new]
    BY <1>6 DEF FinishProbe
  <2> HIDE DEF new
  <2>4. QED
    BY <1>3, <1>4, <2>2, <2>3 DEF Begin
<1>7. ASSUME NEW p \in Checker, CheckStep(p) PROVE session'[r].at # "resolve"
  BY <1>2, <1>4, <1>6, <1>7
     DEF CheckStep, RecordCheck, LoseCheck, SyncPaused, AbortCheck
<1>8. ASSUME NEW q \in Admin, Request(q) PROVE session'[r].at # "resolve"
  <2>1. ASSUME NEW m \in Monitor, NEW want \in BOOLEAN, LoadMonitor(q, m, want)
        PROVE  session'[r].at # "resolve"
    <3>1. [Idle EXCEPT !.at = "patching", !.mon = m, !.want = want,
                       !.was = (monitor[m] = "paused")].at # "resolve"
      BY DEF Idle
    <3>2. QED
      BY <1>3, <1>4, <2>1, <3>1 DEF LoadMonitor
  <2>2. ASSUME NEW m \in Monitor, LoadForDelete(q, m)
        PROVE  session'[r].at # "resolve"
    <3>1. [Idle EXCEPT !.at = "deleting", !.mon = m].at # "resolve"
      BY DEF Idle
    <3>2. QED
      BY <1>3, <1>4, <2>2, <3>1 DEF LoadForDelete
  <2>3. ASSUME NEW op \in AdminOps, NEW i \in IncidentId, LoadIncident(q, i, op)
        PROVE  session'[r].at # "resolve"
    <3>1. [Idle EXCEPT !.at = op, !.inc = i, !.row = incident[i]].at # "resolve"
      BY DEF Idle
    <3>2. QED
      BY <1>3, <1>4, <2>3, <3>1 DEF LoadIncident
  <2>4. CASE UNCHANGED session
    BY <2>4 DEF NoResolver
  <2>5. QED
    BY <1>8, <2>1, <2>2, <2>3, <2>4 DEF Request, CreateMonitor, SetAlerts
<1>9. ASSUME NEW q \in Admin, Reply(q) PROVE session'[r].at # "resolve"
  BY <1>2, <1>4, <1>9 DEF Reply, PatchMonitor, DeleteMonitor, Acknowledge, Resolve, Reopen
<1>10. ASSUME NEW p \in Session, Rollback(p) PROVE session'[r].at # "resolve"
  BY <1>2, <1>10 DEF Rollback
<1>11. CASE UNCHANGED vars
  BY <1>11 DEF vars, NoResolver
<1>12. QED
  BY <1>5, <1>7, <1>8, <1>9, <1>10, <1>11 DEF Next

LEMMA DownLinkedNext ==
  ASSUME TypeOK, NoResolver, DownHasIncident, [Next]_vars
  PROVE  DownHasIncident'
<1> SUFFICES ASSUME NEW m \in Monitor, state'[m].status = "down", state'[m].link = None
             PROVE  FALSE
  BY DEF DownHasIncident
<1>1. DownBefore(m)
  BY DownNext
<1>2. ~\E q \in Admin : Resolve(q)
  BY DEF NoResolver, Resolve, Session
<1>3. QED
  BY <1>1, <1>2 DEF DownBefore, DownHasIncident

LEMMA DownLinkedInit == Init => NoResolver /\ DownHasIncident
BY DEF Init, NoResolver, Idle, DownHasIncident, FreshState, NoState

\* If incidents are not resolved by hand, a monitor that is down is linked to
\* an incident, in every reachable state.
THEOREM DownMonitorsHaveIncidents ==
  ASSUME "resolve" \notin AdminOps
  PROVE  Spec => []DownHasIncident
<1>1. TypeOK /\ NoResolver /\ DownHasIncident /\ [Next]_vars
        => NoResolver' /\ DownHasIncident'
  BY ResolverNext, DownLinkedNext
<1>2. Spec => []TypeOK
  BY TypeCorrect
<1>3. QED
  BY <1>1, <1>2, DownLinkedInit, PTL DEF Spec

-----------------------------------------------------------------------------
(* One incident per outage *)

\* A request that changes an incident has loaded one that is there.
LoadedIncidents ==
  \A q \in Session : session[q].at \in IncidentOps => incident[session[q].inc].status # "absent"

\* No change makes an incident disappear, or appear.
LEMMA ChangedStatus ==
  ASSUME NEW db \in IncidentRow, NEW seen \in IncidentRow
  PROVE  /\ Acknowledged(db, seen).status \in {db.status, "acknowledged"}
         /\ Resolved(db, seen).status \in {db.status, "resolved"}
         /\ Reopened(db, seen).status \in {db.status, "open"}
BY DEF Acknowledged, Resolved, Reopened, Column, IncidentRow

\* What an administrator's change leaves of the incident it has loaded.
LEMMA RequestChange ==
  ASSUME TypeOK, NEW q \in Admin, Acknowledge(q) \/ Resolve(q) \/ Reopen(q)
  PROVE  /\ session[q].at \in IncidentOps /\ session[q].inc \in IncidentId
         /\ \A i \in IncidentId : i # session[q].inc => incident'[i] = incident[i]
         /\ incident[session[q].inc].status # "absent"
              => incident'[session[q].inc].status # "absent"
<1> DEFINE i == session[q].inc
<1>1. q \in Session /\ session[q] \in SessionRow /\ session[q].at \in IncidentOps
  BY DEF Session, TypeOK, Acknowledge, Resolve, Reopen, IncidentOps
<1>2. i \in IncidentId
  BY <1>1 DEF TypeOK, SessionOK, SessionRowOK
<1>3. incident[i] \in IncidentRow /\ session[q].row \in IncidentRow
  BY <1>1, <1>2 DEF TypeOK, SessionRow
<1>4. PICK row \in {Acknowledged(incident[i], session[q].row), Resolved(incident[i], session[q].row),
                    Reopened(incident[i], session[q].row)} :
        incident' = [incident EXCEPT ![i] = row]
  BY DEF Acknowledge, Resolve, Reopen
<1>5. row.status \in {incident[i].status, "acknowledged", "resolved", "open"}
  BY <1>3, ChangedStatus
<1> HIDE DEF i
<1>6. incident'[i] = row /\ \A j \in IncidentId : j # i => incident'[j] = incident[j]
  BY <1>2, <1>4 DEF TypeOK
<1>7. QED
  BY <1>1, <1>2, <1>5, <1>6 DEF i

\* What a check leaves of the incidents: it opens a new one, for its monitor ...
LEMMA CheckChange ==
  ASSUME TypeOK, NEW m \in Monitor, NEW seen, NEW row,
         OpenIncident(m, seen, row) \/ CloseIncident(m, seen, row)
           \/ KeepIncident(m, seen, row),
         NEW i \in IncidentId
  PROVE  /\ incident[i].status # "absent" => incident'[i].status # "absent"
         /\ incident[i].status = "absent" /\ incident'[i].status # "absent"
              => OpenIncident(m, seen, row) /\ incident'[i].of = m
<1>1. CASE OpenIncident(m, seen, row)
  <2>1. PICK j \in IncidentId : incident' = [incident EXCEPT ![j] = NewIncident(m)]
    BY <1>1 DEF OpenIncident
  <2>2. CASE i = j
    <3>1. incident'[i] = NewIncident(m)
      BY <2>1, <2>2 DEF TypeOK
    <3>2. QED
      BY <1>1, <3>1, NewRow
  <2>3. CASE i # j
    <3>1. incident'[i] = incident[i]
      BY <2>1, <2>3 DEF TypeOK
    <3>2. QED
      BY <3>1
  <2>4. QED
    BY <2>2, <2>3
<1>2. CASE CloseIncident(m, seen, row)
  <2> DEFINE new == IF incident[row.link].status \in OpenStatuses
                    THEN Resolved(incident[row.link], incident[row.link]) ELSE incident[row.link]
  <2>1. incident' = [incident EXCEPT ![row.link] = new]
    BY <1>2 DEF CloseIncident
  <2>2. CASE i = row.link
    <3>1. incident[i] \in IncidentRow
      BY DEF TypeOK
    <3>2. incident'[i] = new
      BY <2>1, <2>2 DEF TypeOK
    <3>3. new.status # "absent" <=> incident[i].status # "absent"
      BY <2>2, <3>1, ChangedStatus DEF OpenStatuses
    <3>4. QED
      BY <3>2, <3>3
  <2>3. CASE i # row.link
    <3>1. incident'[i] = incident[i]
      BY <2>1, <2>3 DEF TypeOK
    <3>2. QED
      BY <3>1
  <2>4. QED
    BY <2>2, <2>3
<1>3. CASE KeepIncident(m, seen, row)
  BY <1>3 DEF KeepIncident
<1>4. QED
  BY <1>1, <1>2, <1>3

\* ... and nothing else does.
LEMMA NewIncidents ==
  ASSUME TypeOK, LoadedIncidents, [Next]_vars, NEW i \in IncidentId
  PROVE  /\ incident[i].status # "absent" => incident'[i].status # "absent"
         /\ incident[i].status = "absent" /\ incident'[i].status # "absent"
              => \E p \in Checker :
                   /\ RecordCheck(p)
                   /\ OpenIncident(session[p].mon, SeenRow(p), Refreshed(p))
                   /\ incident'[i].of = session[p].mon
<1>1. CASE UNCHANGED incident
  BY <1>1
<1>2. ASSUME NEW p \in Checker, RecordCheck(p)
      PROVE  /\ incident[i].status # "absent" => incident'[i].status # "absent"
             /\ incident[i].status = "absent" /\ incident'[i].status # "absent"
                  => /\ OpenIncident(session[p].mon, SeenRow(p), Refreshed(p))
                     /\ incident'[i].of = session[p].mon
  <2>1. session[p].mon \in Monitor
    BY <1>2, Recording DEF RecordCheck, Session
  <2>2. \/ OpenIncident(session[p].mon, SeenRow(p), Refreshed(p))
        \/ CloseIncident(session[p].mon, SeenRow(p), Refreshed(p))
        \/ KeepIncident(session[p].mon, SeenRow(p), Refreshed(p))
    BY <1>2 DEF RecordCheck
  <2>3. QED
    BY <2>1, <2>2, CheckChange
<1>3. ASSUME NEW q \in Admin, Acknowledge(q) \/ Resolve(q) \/ Reopen(q)
      PROVE  incident[i].status # "absent" <=> incident'[i].status # "absent"
  <2>1. q \in Session
    BY DEF Session
  <2>2. QED
    BY <1>3, <2>1, RequestChange DEF LoadedIncidents
<1>4. ASSUME NEW p \in Checker, CheckStep(p)
      PROVE  RecordCheck(p) \/ UNCHANGED incident
  BY <1>4 DEF CheckStep, FinishProbe, LoseCheck, SyncPaused, AbortCheck
<1>5. ASSUME NEW q \in Admin, Request(q) \/ Reply(q)
      PROVE  Acknowledge(q) \/ Resolve(q) \/ Reopen(q) \/ UNCHANGED incident
  BY <1>5 DEF Request, CreateMonitor, LoadMonitor, LoadForDelete, LoadIncident, SetAlerts,
              Reply, PatchMonitor, DeleteMonitor
<1>6. ASSUME NEW p \in Checker, NEW m \in Monitor, StartCheck(p, m) \/ StartPausedCheck(p, m)
      PROVE  UNCHANGED incident
  BY <1>6 DEF StartCheck, StartPausedCheck
<1>7. ASSUME NEW p \in Session, Rollback(p) PROVE UNCHANGED incident
  BY <1>7 DEF Rollback
<1>8. CASE UNCHANGED vars
  BY <1>1, <1>8 DEF vars
<1>9. QED
  BY <1>1, <1>2, <1>3, <1>4, <1>5, <1>6, <1>7, <1>8 DEF Next

\* A session works on an incident because it did before, or has just loaded it.
SameOrLoaded(r) ==
  \/ session'[r] = session[r]
  \/ \E q \in Admin, op \in IncidentOps, i \in IncidentId :
       /\ LoadIncident(q, i, op)
       /\ session'[r].at = op /\ session'[r].inc = i /\ session'[r].row = incident[i]

LEMMA IncidentSessions ==
  ASSUME TypeOK, [Next]_vars, NEW r \in Session, session'[r].at \in IncidentOps
  PROVE  SameOrLoaded(r)
<1>1. Idle.at \notin IncidentOps
  BY DEF Idle, IncidentOps
<1>2. ASSUME NEW p \in Session, End(p) PROVE SameOrLoaded(r)
  BY <1>1, <1>2 DEF End, TypeOK, SameOrLoaded
<1>3. ASSUME NEW p \in Session, NEW row, row.at \notin IncidentOps, Begin(p, row)
      PROVE  SameOrLoaded(r)
  BY <1>3 DEF Begin, TypeOK, SameOrLoaded
<1>4. Checker \subseteq Session /\ Admin \subseteq Session
  BY DEF Session
<1>5. ASSUME NEW p \in Checker, NEW m \in Monitor, StartCheck(p, m) \/ StartPausedCheck(p, m)
      PROVE  SameOrLoaded(r)
  <2>1. /\ [Idle EXCEPT !.at = "probing", !.mon = m].at \notin IncidentOps
        /\ [Idle EXCEPT !.at = "syncing", !.mon = m, !.seen = state[m]].at \notin IncidentOps
    BY DEF Idle, IncidentOps
  <2>2. QED
    BY <1>3, <1>4, <1>5, <2>1 DEF StartCheck, StartPausedCheck
<1>6. ASSUME NEW p \in Checker, NEW ok \in BOOLEAN, FinishProbe(p, ok) PROVE SameOrLoaded(r)
  <2> DEFINE new == [session[p] EXCEPT !.at = "recording", !.ok = ok,
                                       !.seen = state[session[p].mon]]
  <2>1. session[p] \in SessionRow
    BY <1>4 DEF TypeOK
  <2>2. new.at \notin IncidentOps
    BY <2>1 DEF SessionRow, IncidentOps
  <2>3. session' = [session EXCEPT ![p] = new]
    BY <1>6 DEF FinishProbe
  <2> HIDE DEF new
  <2>4. QED
    BY <1>3, <1>4, <2>2, <2>3 DEF Begin
<1>7. ASSUME NEW p \in Checker, CheckStep(p) PROVE SameOrLoaded(r)
  <2>1. QED
    BY <1>2, <1>4, <1>6, <1>7
       DEF CheckStep, RecordCheck, LoseCheck, SyncPaused, AbortCheck
<1>8. ASSUME NEW q \in Admin, Request(q) PROVE SameOrLoaded(r)
  <2>1. ASSUME NEW m \in Monitor, NEW want \in BOOLEAN, LoadMonitor(q, m, want) PROVE SameOrLoaded(r)
    <3>1. [Idle EXCEPT !.at = "patching", !.mon = m, !.want = want,
                       !.was = (monitor[m] = "paused")].at \notin IncidentOps
      BY DEF Idle, IncidentOps
    <3>2. QED
      BY <1>3, <1>4, <2>1, <3>1 DEF LoadMonitor
  <2>2. ASSUME NEW m \in Monitor, LoadForDelete(q, m) PROVE SameOrLoaded(r)
    <3>1. [Idle EXCEPT !.at = "deleting", !.mon = m].at \notin IncidentOps
      BY DEF Idle, IncidentOps
    <3>2. QED
      BY <1>3, <1>4, <2>2, <3>1 DEF LoadForDelete
  <2>3. ASSUME NEW op \in IncidentOps, NEW i \in IncidentId, LoadIncident(q, i, op) PROVE SameOrLoaded(r)
    <3> DEFINE row == [Idle EXCEPT !.at = op, !.inc = i, !.row = incident[i]]
    <3>1. row.at = op /\ row.inc = i /\ row.row = incident[i]
      BY DEF Idle
    <3>2. session'[r] = session[r] \/ session'[r] = row
      BY <1>4, <2>3 DEF LoadIncident, Begin, TypeOK
    <3> HIDE DEF row
    <3>3. QED
      BY <2>3, <3>1, <3>2 DEF SameOrLoaded
  <2>4. CASE UNCHANGED session
    BY <2>4 DEF SameOrLoaded
  <2>5. \/ \E m \in Monitor, want \in BOOLEAN : LoadMonitor(q, m, want)
        \/ \E m \in Monitor : LoadForDelete(q, m)
        \/ \E op \in IncidentOps, i \in IncidentId : LoadIncident(q, i, op)
        \/ UNCHANGED session
    BY <1>8 DEF Request, CreateMonitor, SetAlerts
  <2>6. QED
    BY <2>1, <2>2, <2>3, <2>4, <2>5
<1>9. ASSUME NEW q \in Admin, Reply(q) PROVE SameOrLoaded(r)
  <2>1. QED
    BY <1>2, <1>4, <1>9 DEF Reply, PatchMonitor, DeleteMonitor, Acknowledge, Resolve, Reopen
<1>10. ASSUME NEW p \in Session, Rollback(p) PROVE SameOrLoaded(r)
  BY <1>2, <1>10 DEF Rollback
<1>11. CASE UNCHANGED vars
  BY <1>11 DEF vars, SameOrLoaded
<1>12. QED
  BY <1>5, <1>7, <1>8, <1>9, <1>10, <1>11 DEF Next

LEMMA LoadedNext ==
  ASSUME TypeOK, LoadedIncidents, [Next]_vars
  PROVE  LoadedIncidents'
<1> SUFFICES ASSUME NEW r \in Session, session'[r].at \in IncidentOps
             PROVE  incident'[session'[r].inc].status # "absent"
  BY DEF LoadedIncidents
<1>1. CASE session'[r] = session[r]
  <2>1. session[r].inc \in IncidentId /\ incident[session[r].inc].status # "absent"
    BY <1>1 DEF LoadedIncidents, TypeOK, SessionOK, SessionRowOK
  <2>2. incident'[session[r].inc].status # "absent"
    BY <2>1, NewIncidents
  <2>3. QED
    BY <1>1, <2>2
<1>2. ASSUME NEW q \in Admin, NEW op \in IncidentOps, NEW i \in IncidentId,
             LoadIncident(q, i, op), session'[r].inc = i
      PROVE  incident'[session'[r].inc].status # "absent"
  BY <1>2 DEF LoadIncident
<1>3. QED
  BY <1>1, <1>2, IncidentSessions DEF SameOrLoaded

LEMMA LoadedInit == Init => LoadedIncidents
BY DEF Init, LoadedIncidents, Idle, IncidentOps

\* If incidents are not resolved by hand, an incident is opened only for a
\* monitor that was not down before: an outage has one, however many checks of it
\* fail at the same time and whatever else administrators do to its incident.
THEOREM OneIncidentEach ==
  ASSUME "resolve" \notin AdminOps
  PROVE  Spec => OneIncidentPerOutage
<1>1. TypeOK /\ NoResolver /\ DownHasIncident /\ LoadedIncidents /\ [Next]_vars
        => NoResolver' /\ DownHasIncident' /\ LoadedIncidents'
  BY ResolverNext, DownLinkedNext, LoadedNext
<1>2. TypeOK /\ DownHasIncident /\ LoadedIncidents /\ [Next]_vars
        => [\A i \in IncidentId :
              incident[i].status = "absent" /\ incident'[i].status # "absent"
                => state[incident'[i].of].status # "down"]_vars
  <2> SUFFICES ASSUME TypeOK, DownHasIncident, LoadedIncidents, [Next]_vars,
                      NEW i \in IncidentId,
                      incident[i].status = "absent", incident'[i].status # "absent"
               PROVE  state[incident'[i].of].status # "down"
    OBVIOUS
  <2>1. PICK p \in Checker : /\ RecordCheck(p)
                             /\ OpenIncident(session[p].mon, SeenRow(p), Refreshed(p))
                             /\ incident'[i].of = session[p].mon
    BY NewIncidents
  <2> DEFINE m == session[p].mon
  <2>2. m \in Monitor /\ (state[m].status # "absent" => Refreshed(p).link = state[m].link)
    BY <2>1, Recording DEF RecordCheck, Session
  <2>3. Refreshed(p).link = None
    BY <2>1 DEF OpenIncident
  <2>4. QED
    BY <2>1, <2>2, <2>3 DEF DownHasIncident
<1>3. QED
  BY <1>1, <1>2, TypeCorrect, DownLinkedInit, LoadedInit, PTL DEF Spec, OneIncidentPerOutage
=============================================================================
