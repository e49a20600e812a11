---------------------- MODULE OverlappingSessionsProofs ----------------------
(***************************************************************************)
(* What is left of the agreement of the tables when sessions overlap: by   *)
(* which steps, and in which situation, an incident, a state row and a     *)
(* monitor may come to contradict each other, and how far the incidents    *)
(* are kept as the ledger promises.                                        *)
(***************************************************************************)
EXTENDS AlertMailsProofs

-----------------------------------------------------------------------------
(* Rows *)

\* A column is flushed when the row is as it was loaded.
LEMMA FreshColumn == ASSUME NEW db, NEW new PROVE Column(db, db, new) = new
BY DEF Column

LEMMA BlankRow ==
  /\ NoState.status = "absent" /\ NoState.link = None /\ NoState.failures = 0
  /\ FreshState.status = "none" /\ FreshState.link = None /\ FreshState.failures = 0
  /\ Ensured(NoState) = FreshState
BY DEF NoState, FreshState, Ensured

\* The rows of an incident that was loaded just now.
LEMMA CurrentChange ==
  ASSUME NEW row \in IncidentRow
  PROVE  /\ Acknowledged(row, row).status = "acknowledged"
         /\ Resolved(row, row).status = "resolved" /\ Reopened(row, row).status = "open"
         /\ Coherent(row) /\ row.status # "resolved" => Coherent(Acknowledged(row, row))
         /\ Coherent(Resolved(row, row)) /\ Coherent(Reopened(row, row))
<1>1. /\ Acknowledged(row, row) = [row EXCEPT !.status = "acknowledged", !.acked = TRUE,
                                              !.logged = "acknowledged"]
      /\ Resolved(row, row) = [row EXCEPT !.status = "resolved", !.closed = TRUE,
                                          !.logged = "resolved"]
      /\ Reopened(row, row) = [row EXCEPT !.status = "open", !.acked = FALSE,
                                          !.closed = FALSE, !.logged = "open"]
  BY FreshColumn DEF Acknowledged, Resolved, Reopened
<1> QED
  BY <1>1 DEF Coherent, IncidentRow

LEMMA NewIsCoherent == ASSUME NEW m PROVE Coherent(NewIncident(m)) /\ Coherent(NoIncident)
BY DEF Coherent, NewIncident, NoIncident

-----------------------------------------------------------------------------
(* Incidents *)

\* An incident that is acknowledged or resolved by hand was not resolved when it
\* was loaded.
LoadedOpen ==
  \A q \in Session : session[q].at \in {"acknowledge", "resolve"}
                       => session[q].row.status # "resolved"

LEMMA LoadedOpenNext ==
  ASSUME TypeOK, LoadedOpen, [Next]_vars
  PROVE  LoadedOpen'
<1> SUFFICES ASSUME NEW r \in Session, session'[r].at \in {"acknowledge", "resolve"}
             PROVE  session'[r].row.status # "resolved"
  BY DEF LoadedOpen
<1>1. SameOrLoaded(r)
  BY IncidentSessions DEF IncidentOps
<1>2. CASE session'[r] = session[r]
  BY <1>2 DEF LoadedOpen
<1>3. ASSUME NEW q \in Admin, NEW op \in IncidentOps, NEW i \in IncidentId,
             LoadIncident(q, i, op), session'[r].at = op, session'[r].row = incident[i]
      PROVE  session'[r].row.status # "resolved"
  BY <1>3 DEF LoadIncident, Accepts
<1> QED
  BY <1>1, <1>2, <1>3 DEF SameOrLoaded

LEMMA LoadedOpenInit == Init => LoadedOpen
BY DEF Init, LoadedOpen, Idle

\* A check leaves every incident as it was, or as one story.
LEMMA CheckCoherent ==
  ASSUME TypeOK, NEW p \in Checker, RecordCheck(p),
         NEW i \in IncidentId, Coherent(incident[i])
  PROVE  Coherent(incident'[i])
<1> DEFINE m == session[p].mon
           seen == SeenRow(p)
           row == Refreshed(p)
<1>1. row \in StateRow
  BY Recording DEF RecordCheck, Session
<1>2. OpenIncident(m, seen, row) \/ CloseIncident(m, seen, row) \/ KeepIncident(m, seen, row)
  BY DEF RecordCheck
<1> HIDE DEF m, seen, row
<1>3. CASE OpenIncident(m, seen, row)
  <2>1. PICK j \in IncidentId : incident' = [incident EXCEPT ![j] = NewIncident(m)]
    BY <1>3 DEF OpenIncident
  <2> QED
    BY <2>1, NewIsCoherent DEF TypeOK
<1>4. CASE CloseIncident(m, seen, row)
  <2> DEFINE j == row.link
             new == IF incident[j].status \in OpenStatuses
                    THEN Resolved(incident[j], incident[j]) ELSE incident[j]
  <2>1. incident' = [incident EXCEPT ![j] = new]
    BY <1>4 DEF CloseIncident
  <2>2. CASE i = j
    <3>1. incident[i] \in IncidentRow
      BY DEF TypeOK
    <3>2. Coherent(new)
      BY <2>2, <3>1, CurrentChange
    <3>3. incident'[i] = new
      BY <2>1, <2>2 DEF TypeOK
    <3> QED
      BY <3>2, <3>3
  <2>3. CASE i # j
    <3>1. incident'[i] = incident[i]
      BY <2>1, <2>3 DEF TypeOK
    <3> QED
      BY <3>1
  <2> QED
    BY <2>2, <2>3
<1>5. CASE KeepIncident(m, seen, row)
  BY <1>5 DEF KeepIncident
<1> QED
  BY <1>2, <1>3, <1>4, <1>5

\* A change of an incident that was loaded as it still is, or was not resolved
\* then, leaves one story.
LEMMA StaleChange ==
  ASSUME NEW db \in IncidentRow, Coherent(db), NEW seen \in IncidentRow
  PROVE  /\ seen.status # "resolved" => Coherent(Resolved(db, seen))
         /\ seen.status = db.status /\ seen.status # "resolved"
              => Coherent(Acknowledged(db, seen))
         /\ seen.status = db.status /\ seen.closed = db.closed
              => Coherent(Reopened(db, seen))
<1>1. ASSUME seen.status # "resolved" PROVE Coherent(Resolved(db, seen))
  <2>1. Resolved(db, seen) = Resolved(db, db)
    BY <1>1 DEF Resolved, Column
  <2> QED
    BY <2>1, CurrentChange
<1>2. ASSUME seen.status = db.status, seen.status # "resolved"
      PROVE  Coherent(Acknowledged(db, seen))
  <2>1. Acknowledged(db, seen) = Acknowledged(db, db)
    BY <1>2 DEF Acknowledged
  <2> QED
    BY <1>2, <2>1, CurrentChange
<1>3. ASSUME seen.status = db.status, seen.closed = db.closed
      PROVE  Coherent(Reopened(db, seen))
  <2> DEFINE acked == Column(db.acked, seen.acked, FALSE)
  <2>1. Reopened(db, seen) = [db EXCEPT !.status = "open", !.acked = acked,
                                        !.closed = FALSE, !.logged = "open"]
    BY <1>3, FreshColumn DEF Reopened
  <2> HIDE DEF acked
  <2> QED
    BY <2>1 DEF Coherent, IncidentRow
<1> QED
  BY <1>1, <1>2, <1>3

LEMMA RequestCoherent ==
  ASSUME TypeOK, LoadedOpen, NEW q \in Admin, Acknowledge(q) \/ Resolve(q) \/ Reopen(q),
         NEW i \in IncidentId, Coherent(incident[i]), ~Coherent(incident'[i])
  PROVE  /\ session[q].at \in {"acknowledge", "reopen"} /\ session[q].inc = i
         /\ \/ session[q].row.status # incident[i].status
            \/ session[q].row.closed # incident[i].closed
         /\ session'[q].at = "idle"
<1> DEFINE db == incident[i]
           seen == session[q].row
<1>1. q \in Session /\ session[q] \in SessionRow /\ session'[q] = Idle
  BY DEF Session, TypeOK, Acknowledge, Resolve, Reopen, End
<1>2. i = session[q].inc
  BY RequestChange
<1>3. db \in IncidentRow /\ seen \in IncidentRow
  BY <1>1 DEF TypeOK, SessionRow
<1>4. session[q].at \in {"acknowledge", "resolve"} => seen.status # "resolved"
  BY <1>1 DEF LoadedOpen
<1>5. \/ session[q].at = "acknowledge" /\ incident'[i] = Acknowledged(db, seen)
      \/ session[q].at = "resolve" /\ incident'[i] = Resolved(db, seen)
      \/ session[q].at = "reopen" /\ incident'[i] = Reopened(db, seen)
  BY <1>2 DEF Acknowledge, Resolve, Reopen, TypeOK
<1> HIDE DEF db, seen
<1>6. Coherent(db) /\ ~Coherent(incident'[i])
  BY DEF db
<1>7. /\ session[q].at \in {"acknowledge", "reopen"}
      /\ seen.status # db.status \/ seen.closed # db.closed
  BY <1>3, <1>4, <1>5, <1>6, StaleChange
<1> QED
  BY <1>1, <1>2, <1>7 DEF db, seen, Idle

\* An incident comes to contradict itself only by an acknowledgement or a reopening
\* of what was loaded in another status, or otherwise closed: no resolution and
\* no recovery does it, however many sessions overlap.
THEOREM IncidentsCoherentUnlessStale == Spec => CoherentUnlessStale
<1>1. TypeOK /\ LoadedOpen /\ [Next]_vars
        => [\A i \in IncidentId : Coherent(incident[i]) /\ ~Coherent(incident'[i]) =>
              \E q \in Admin :
                /\ session[q].at \in {"acknowledge", "reopen"} /\ session[q].inc = i
                /\ \/ session[q].row.status # incident[i].status
                   \/ session[q].row.closed # incident[i].closed
                /\ session'[q].at = "idle"]_vars
  <2> SUFFICES ASSUME TypeOK, LoadedOpen, [Next]_vars,
                      NEW i \in IncidentId, Coherent(incident[i]), ~Coherent(incident'[i])
               PROVE  \E q \in Admin : Acknowledge(q) \/ Resolve(q) \/ Reopen(q)
    BY RequestCoherent
  <2>1. incident' # incident
    OBVIOUS
  <2>2. ASSUME NEW p \in Checker, CheckStep(p) PROVE RecordCheck(p)
    BY <2>1, <2>2 DEF CheckStep, FinishProbe, LoseCheck, SyncPaused, AbortCheck
  <2>3. ASSUME NEW q \in Admin, Request(q) \/ Reply(q)
        PROVE  Acknowledge(q) \/ Resolve(q) \/ Reopen(q)
    BY <2>1, <2>3 DEF Request, CreateMonitor, LoadMonitor, LoadForDelete, LoadIncident,
                      SetAlerts, Reply, PatchMonitor, DeleteMonitor
  <2>4. \A p \in Checker : ~CheckStep(p)
    BY <2>2, CheckCoherent
  <2>5. /\ ~UNCHANGED vars /\ \A p \in Session : ~Rollback(p)
        /\ \A p \in Checker, m \in Monitor : ~StartCheck(p, m) /\ ~StartPausedCheck(p, m)
    BY <2>1 DEF vars, Rollback, StartCheck, StartPausedCheck
  <2> QED
    BY <2>3, <2>4, <2>5 DEF Next
<1>2. TypeOK /\ LoadedOpen /\ [Next]_vars => LoadedOpen'
  BY LoadedOpenNext
<1> QED
  BY <1>1, <1>2, LoadedOpenInit, TypeCorrect, PTL DEF Spec, CoherentUnlessStale

-----------------------------------------------------------------------------
(* State rows: what a step does to one of them *)

Ends(p) == session'[p].at = "idle"

\* A check records its outcome in the row of m ...
Outcomes(p, m) ==
  /\ p \in Checker /\ RecordCheck(p) /\ Records(p, m) /\ UNCHANGED monitor
  /\ state'[m].status = Refreshed(p).status /\ state'[m].failures = Refreshed(p).failures
\* ... or synchronises it ...
Syncs(p, m) ==
  /\ p \in Checker /\ SyncPaused(p) /\ session[p].mon = m /\ Ends(p) /\ UNCHANGED monitor
  /\ state'[m] = AfterPause(Ensured(state[m]), SeenRow(p))
\* ... or a request creates, pauses, resumes or edits m ...
Maintains(m) ==
  \E paused \in BOOLEAN :
    /\ monitor'[m] = IF paused THEN "paused" ELSE "active"
    /\ state'[m] = IF paused THEN AfterPause(Ensured(state[m]), Ensured(state[m]))
                             ELSE Ensured(state[m])
\* ... or deletes it ...
Deletes(m) == monitor'[m] = "absent" /\ state'[m] = NoState
\* ... or no more than its link, and not the monitor, is changed.
Spares(m) ==
  /\ monitor'[m] = monitor[m]
  /\ state'[m].status = state[m].status /\ state'[m].failures = state[m].failures

LEMMA CheckWrites ==
  ASSUME TypeOK, NEW p \in Checker, CheckStep(p), NEW m \in Monitor
  PROVE  Outcomes(p, m) \/ Syncs(p, m) \/ Spares(m)
<1>1. p \in Session /\ session[p] \in SessionRow
  BY DEF Session, TypeOK
<1>2. End(p) => Ends(p)
  BY <1>1 DEF End, Ends, Idle, TypeOK
<1>3. CASE RecordCheck(p)
  <2> DEFINE k == session[p].mon
  <2>1. k \in Monitor /\ SeenRow(p) \in StateRow /\ Refreshed(p) \in StateRow
    BY <1>1, <1>3, Recording DEF RecordCheck
  <2>2. /\ OpenIncident(k, SeenRow(p), Refreshed(p)) \/ CloseIncident(k, SeenRow(p), Refreshed(p))
             \/ KeepIncident(k, SeenRow(p), Refreshed(p))
        /\ session[p].at = "recording" /\ Ends(p) /\ UNCHANGED monitor
    BY <1>2, <1>3 DEF RecordCheck
  <2>3. /\ \A j \in Monitor : j # k => state'[j] = state[j]
        /\ state'[k].status = Refreshed(p).status /\ state'[k].failures = Refreshed(p).failures
    BY <2>1, <2>2, TransitionRow
  <2>4. CASE m = k
    BY <1>3, <2>2, <2>3, <2>4 DEF Outcomes, Records, Ends
  <2>5. CASE m # k
    BY <2>2, <2>3, <2>5 DEF Spares
  <2> QED
    BY <2>4, <2>5
<1>4. CASE SyncPaused(p)
  <2> DEFINE k == session[p].mon
  <2>1. k \in Monitor
    BY <1>1, <1>4 DEF SyncPaused, TypeOK, SessionOK, SessionRowOK
  <2>2. /\ state' = [state EXCEPT ![k] = AfterPause(Ensured(state[k]), SeenRow(p))]
        /\ Ends(p) /\ UNCHANGED monitor
    BY <1>2, <1>4 DEF SyncPaused
  <2>3. CASE m = k
    BY <1>4, <2>1, <2>2, <2>3 DEF Syncs, TypeOK
  <2>4. CASE m # k
    <3>1. state'[m] = state[m]
      BY <2>2, <2>4 DEF TypeOK
    <3> QED
      BY <2>2, <3>1 DEF Spares
  <2> QED
    BY <2>3, <2>4
<1>5. CASE \/ \E ok \in BOOLEAN : FinishProbe(p, ok)
           \/ LoseCheck(p) \/ AbortCheck(p)
  BY <1>5 DEF FinishProbe, LoseCheck, AbortCheck, Spares
<1> QED
  BY <1>3, <1>4, <1>5 DEF CheckStep

LEMMA RequestWrites ==
  ASSUME TypeOK, NEW q \in Admin, Request(q) \/ Reply(q), NEW m \in Monitor
  PROVE  Maintains(m) \/ Deletes(m) \/ Spares(m)
<1>1. q \in Session
  BY DEF Session
<1>2. state[m] \in StateRow
  BY DEF TypeOK
<1>3. ASSUME NEW paused \in BOOLEAN, CreateMonitor(q, paused)
      PROVE  Maintains(m) \/ Spares(m)
  <2>1. PICK k \in Monitor :
          /\ monitor' = [monitor EXCEPT ![k] = IF paused THEN "paused" ELSE "active"]
          /\ state' = [state EXCEPT ![k] =
               IF paused THEN AfterPause(Ensured(state[k]), Ensured(state[k]))
                         ELSE Ensured(state[k])]
    BY <1>3 DEF CreateMonitor
  <2>2. CASE m = k
    BY <2>1, <2>2 DEF Maintains, TypeOK
  <2>3. CASE m # k
    BY <2>1, <2>3 DEF Spares, TypeOK
  <2> QED
    BY <2>2, <2>3
<1>4. CASE PatchMonitor(q)
  <2> DEFINE k == session[q].mon
             paused == Column(monitor[k] = "paused", session[q].was, session[q].want)
  <2>1. session[q] \in SessionRow
    BY <1>1 DEF TypeOK
  <2>2. paused \in BOOLEAN
    BY <2>1 DEF Column, SessionRow
  <2>3. CASE monitor[k] = "absent"
    BY <1>4, <2>3 DEF PatchMonitor, Spares
  <2>4. CASE monitor[k] # "absent"
    <3>1. /\ monitor' = [monitor EXCEPT ![k] = IF paused THEN "paused" ELSE "active"]
          /\ state' = [state EXCEPT ![k] =
               IF paused THEN AfterPause(Ensured(state[k]), Ensured(state[k]))
                         ELSE Ensured(state[k])]
      BY <1>4, <2>4 DEF PatchMonitor
    <3> HIDE DEF k, paused
    <3>2. CASE m = k
      BY <2>2, <3>1, <3>2 DEF Maintains, TypeOK
    <3>3. CASE m # k
      BY <3>1, <3>3 DEF Spares, TypeOK
    <3> QED
      BY <3>2, <3>3
  <2> QED
    BY <2>3, <2>4
<1>5. CASE DeleteMonitor(q)
  <2> DEFINE k == session[q].mon
  <2>1. monitor' = [monitor EXCEPT ![k] = "absent"] /\ state' = [state EXCEPT ![k] = NoState]
    BY <1>5 DEF DeleteMonitor, StateAfterDelete
  <2>2. CASE m = k
    BY <2>1, <2>2 DEF Deletes, TypeOK
  <2>3. CASE m # k
    BY <2>1, <2>3 DEF Spares, TypeOK
  <2> QED
    BY <2>2, <2>3
<1>6. CASE Resolve(q)
  <2> DEFINE i == session[q].inc
             k == incident[i].of
  <2>1. state' = [state EXCEPT ![k] = Unlinked(k, i)] /\ UNCHANGED monitor
    BY <1>6 DEF Resolve
  <2>2. CASE m = k
    <3>1. state'[m] = Unlinked(m, i)
      BY <2>1, <2>2 DEF TypeOK
    <3>2. state'[m].status = state[m].status /\ state'[m].failures = state[m].failures
      BY <1>2, <3>1 DEF Unlinked, StateRow
    <3> QED
      BY <2>1, <3>2 DEF Spares
  <2>3. CASE m # k
    <3>1. state'[m] = state[m]
      BY <2>1, <2>3 DEF TypeOK
    <3> QED
      BY <2>1, <3>1 DEF Spares
  <2> QED
    BY <2>2, <2>3
<1>7. CASE UNCHANGED <<monitor, state>>
  BY <1>7 DEF Spares
<1> QED
  BY <1>3, <1>4, <1>5, <1>6, <1>7
     DEF Request, LoadMonitor, LoadForDelete, LoadIncident, SetAlerts, Reply, Acknowledge, Reopen

LEMMA StateWrites ==
  ASSUME TypeOK, [Next]_vars, NEW m \in Monitor
  PROVE  \/ \E p \in Checker : Outcomes(p, m) \/ Syncs(p, m)
         \/ Maintains(m) \/ Deletes(m) \/ Spares(m)
<1>1. UNCHANGED <<monitor, state>> => Spares(m)
  BY DEF Spares
<1>2. ASSUME NEW p \in Checker, NEW k \in Monitor, StartCheck(p, k) \/ StartPausedCheck(p, k)
      PROVE  UNCHANGED <<monitor, state>>
  BY <1>2 DEF StartCheck, StartPausedCheck
<1>3. ASSUME NEW p \in Session, Rollback(p) PROVE UNCHANGED <<monitor, state>>
  BY <1>3 DEF Rollback
<1>4. UNCHANGED vars => UNCHANGED <<monitor, state>>
  BY DEF vars
<1> QED
  BY <1>1, <1>2, <1>3, <1>4, CheckWrites, RequestWrites DEF Next

-----------------------------------------------------------------------------
(* State rows: their columns, their monitors *)

\* An outcome that is written over the columns that were loaded sets both.
LEMMA OutcomeFits ==
  ASSUME NEW db \in StateRow, NEW seen \in StateRow, NEW ok \in BOOLEAN,
         db.status = seen.status, db.failures = seen.failures
  PROVE  FailuresFit(AfterOutcome(Ensured(db), Ensured(seen), ok))
<1> DEFINE new == IF ok THEN "up" ELSE "down"
           count == IF ok THEN 0 ELSE Ensured(seen).failures + 1
<1>1. Ensured(db).status = Ensured(seen).status /\ Ensured(db).failures = Ensured(seen).failures
  BY DEF Ensured
<1>2. Ensured(db) \in StateRow /\ Ensured(seen) \in StateRow
  BY EnsuredRow
<1>3. Ensured(seen).failures \in Nat
  BY <1>2 DEF StateRow
<1>4. AfterOutcome(Ensured(db), Ensured(seen), ok)
        = [Ensured(db) EXCEPT !.status = new, !.failures = count]
  BY <1>1, FreshColumn DEF AfterOutcome
<1>5. count > 0 <=> new = "down"
  BY <1>3
<1> HIDE DEF new, count
<1>6. /\ [Ensured(db) EXCEPT !.status = new, !.failures = count].status = new
      /\ [Ensured(db) EXCEPT !.status = new, !.failures = count].failures = count
  BY <1>2 DEF StateRow
<1> QED
  BY <1>4, <1>5, <1>6 DEF FailuresFit

\* So does a pause.
LEMMA PauseSets ==
  ASSUME NEW db \in StateRow, NEW seen \in StateRow,
         db.status = seen.status, db.failures = seen.failures
  PROVE  /\ AfterPause(Ensured(db), Ensured(seen)).status = "paused"
         /\ FailuresFit(AfterPause(Ensured(db), Ensured(seen)))
<1>1. Ensured(db).status = Ensured(seen).status /\ Ensured(db).failures = Ensured(seen).failures
  BY DEF Ensured
<1>2. Ensured(db) \in StateRow
  BY EnsuredRow
<1>3. AfterPause(Ensured(db), Ensured(seen))
        = [Ensured(db) EXCEPT !.status = "paused", !.failures = 0]
  BY <1>1, FreshColumn DEF AfterPause
<1> QED
  BY <1>2, <1>3 DEF StateRow, FailuresFit

\* A request leaves a row that is there, as it was or paused.
LEMMA MaintainedRow ==
  ASSUME TypeOK, NEW m \in Monitor, Maintains(m)
  PROVE  /\ monitor'[m] # "absent" /\ state'[m].status # "absent"
         /\ monitor'[m] = "paused" => state'[m].status = "paused"
         /\ state'[m].status \in {state[m].status, "none", "paused"}
         /\ FailuresFit(state[m]) => FailuresFit(state'[m])
<1>1. PICK paused \in BOOLEAN :
        /\ monitor'[m] = IF paused THEN "paused" ELSE "active"
        /\ state'[m] = IF paused THEN AfterPause(Ensured(state[m]), Ensured(state[m]))
                                 ELSE Ensured(state[m])
  BY DEF Maintains
<1>2. state[m] \in StateRow
  BY DEF TypeOK
<1>3. CASE paused
  BY <1>1, <1>2, <1>3, PauseSets
<1>4. CASE ~paused
  <2>1. CASE state[m].status = "absent"
    <3>1. state'[m] = FreshState
      BY <1>1, <1>4, <2>1 DEF Ensured
    <3> QED
      BY <1>1, <1>4, <3>1 DEF FreshState, FailuresFit
  <2>2. CASE state[m].status # "absent"
    BY <1>1, <1>4, <2>2 DEF Ensured
  <2> QED
    BY <2>1, <2>2
<1> QED
  BY <1>3, <1>4

\* What a session that synchronises the row of m may write into it.
LEMMA SyncedRow ==
  ASSUME TypeOK, NEW m \in Monitor, NEW p \in Checker, Syncs(p, m)
  PROVE  /\ p \in Session /\ session[p].seen \in StateRow /\ state[m] \in StateRow
         /\ session[p].at = "syncing" /\ RowAsLoaded(p)
         /\ state'[m].status \in {Ensured(state[m]).status, "paused"}
<1>1. p \in Session /\ session[p] \in SessionRow
  BY DEF Session, TypeOK
<1>2. session[p].seen \in StateRow /\ state[m] \in StateRow
  BY <1>1 DEF SessionRow, TypeOK
<1>3. SeenRow(p) \in StateRow /\ Ensured(state[m]) \in StateRow
  BY <1>2, EnsuredRow DEF SeenRow
<1> QED
  BY <1>1, <1>2, <1>3, AfterPauseRow DEF Syncs, SyncPaused

\* What a recording session works on.
LEMMA OutcomeRow ==
  ASSUME TypeOK, NEW m \in Monitor, NEW p \in Checker, Outcomes(p, m)
  PROVE  /\ p \in Session /\ session[p].ok \in BOOLEAN
         /\ session[p].seen \in StateRow /\ state[m] \in StateRow
         /\ session[p].at = "recording" /\ session[p].mon = m
         /\ RowAsLoaded(p) /\ CommitReached(p)
         /\ Refreshed(p)
              = AfterOutcome(Ensured(state[m]), Ensured(session[p].seen), session[p].ok)
<1>1. p \in Session /\ session[p] \in SessionRow
  BY DEF Session, TypeOK
<1>2. session[p].at = "recording" /\ session[p].mon = m
  BY DEF Outcomes, Records
<1> QED
  BY <1>1, <1>2 DEF SessionRow, TypeOK, Outcomes, RecordCheck, Refreshed, SeenRow

\* consecutive_failures and last_status part only by a check of which one of the
\* two was changed since it was loaded, however many sessions overlap.
THEOREM FailuresFitUnlessStaleHolds == Spec => FailuresFitUnlessStale
<1>1. TypeOK /\ [Next]_vars
        => [\A m \in Monitor : FailuresFit(state[m]) /\ ~FailuresFit(state'[m]) =>
              \E p \in Checker :
                /\ session[p].at \in {"recording", "syncing"} /\ session[p].mon = m
                /\ \/ session[p].seen.status # state[m].status
                   \/ session[p].seen.failures # state[m].failures
                /\ session'[p].at = "idle"]_vars
  <2> SUFFICES ASSUME TypeOK, [Next]_vars, NEW m \in Monitor,
                      FailuresFit(state[m]), ~FailuresFit(state'[m])
               PROVE  \E p \in Checker :
                        /\ session[p].at \in {"recording", "syncing"} /\ session[p].mon = m
                        /\ \/ session[p].seen.status # state[m].status
                           \/ session[p].seen.failures # state[m].failures
                        /\ session'[p].at = "idle"
    OBVIOUS
  <2>1. ~Maintains(m) /\ ~Deletes(m) /\ ~Spares(m)
    BY MaintainedRow DEF Deletes, Spares, NoState, FreshState, FailuresFit
  <2>2. ASSUME NEW p \in Checker, Outcomes(p, m)
        PROVE  \/ session[p].seen.status # state[m].status
               \/ session[p].seen.failures # state[m].failures
    BY <2>2, OutcomeRow, OutcomeFits DEF Outcomes, FailuresFit
  <2>3. ASSUME NEW p \in Checker, Syncs(p, m)
        PROVE  \/ session[p].seen.status # state[m].status
               \/ session[p].seen.failures # state[m].failures
    BY <2>3, SyncedRow, PauseSets DEF Syncs, SeenRow
  <2> QED
    BY <2>1, <2>2, <2>3, StateWrites, SyncedRow, OutcomeRow DEF Outcomes, Records, Syncs, Ends
<1> QED
  BY <1>1, TypeCorrect, PTL DEF Spec, FailuresFitUnlessStale

\* A monitor that is there has a state row; so a check that found it paused has
\* loaded one.
MonitorHasState == \A m \in Monitor : monitor[m] # "absent" => state[m].status # "absent"
SyncsLoaded == \A p \in Session : session[p].at = "syncing" => session[p].seen.status # "absent"

LEMMA HasStateNext ==
  ASSUME TypeOK, MonitorHasState, [Next]_vars
  PROVE  MonitorHasState'
<1> SUFFICES ASSUME NEW m \in Monitor, monitor'[m] # "absent" PROVE state'[m].status # "absent"
  BY DEF MonitorHasState
<1>1. ASSUME NEW p \in Checker, Outcomes(p, m) PROVE state'[m].status # "absent"
  <2>1. /\ state'[m].status = AfterOutcome(Ensured(state[m]), Ensured(session[p].seen),
                                           session[p].ok).status
        /\ state[m] \in StateRow /\ session[p].ok \in BOOLEAN
    BY <1>1, OutcomeRow DEF Outcomes
  <2>2. Ensured(state[m]).status # "absent" /\ Ensured(state[m]) \in StateRow
    BY <2>1, EnsuredRow DEF Ensured, FreshState
  <2>3. AfterOutcome(Ensured(state[m]), Ensured(session[p].seen), session[p].ok).status
          \in {Ensured(state[m]).status, "up", "down"}
    BY <2>2 DEF AfterOutcome, Column, StateRow
  <2> QED
    BY <2>1, <2>2, <2>3
<1>2. ASSUME NEW p \in Checker, Syncs(p, m) PROVE state'[m].status # "absent"
  BY <1>2, SyncedRow DEF Ensured, FreshState
<1>3. Maintains(m) => state'[m].status # "absent"
  BY MaintainedRow
<1>4. Spares(m) => state'[m].status # "absent"
  BY DEF Spares, MonitorHasState
<1> QED
  BY <1>1, <1>2, <1>3, <1>4, StateWrites DEF Deletes

LEMMA SyncsLoadedNext ==
  ASSUME TypeOK, MonitorHasState, SyncsLoaded, [Next]_vars
  PROVE  SyncsLoaded'
<1> SUFFICES ASSUME NEW r \in Session, session'[r].at = "syncing"
             PROVE  session'[r].seen.status # "absent"
  BY DEF SyncsLoaded
<1>1. Checker \subseteq Session /\ Admin \subseteq Session
  BY DEF Session
<1>2. session'[r] = session[r] => session'[r].seen.status # "absent"
  BY DEF SyncsLoaded
<1>3. ASSUME NEW p \in Session, NEW row, row.at # "syncing",
             session' = [session EXCEPT ![p] = row]
      PROVE  session'[r] = session[r]
  BY <1>3 DEF TypeOK
<1>4. ASSUME NEW p \in Session, End(p) PROVE session'[r] = session[r]
  BY <1>3, <1>4 DEF End, Idle
<1>5. ASSUME NEW p \in Checker, NEW m \in Monitor, StartCheck(p, m)
      PROVE  session'[r] = session[r]
  <2>1. [Idle EXCEPT !.at = "probing", !.mon = m].at # "syncing"
    BY DEF Idle
  <2> QED
    BY <1>1, <1>3, <1>5, <2>1 DEF StartCheck, Begin
<1>6. ASSUME NEW p \in Checker, NEW m \in Monitor, StartPausedCheck(p, m)
      PROVE  session'[r].seen.status # "absent"
  <2> DEFINE row == [Idle EXCEPT !.at = "syncing", !.mon = m, !.seen = state[m]]
  <2>1. row.seen.status # "absent"
    BY <1>6 DEF StartPausedCheck, MonitorHasState, Idle
  <2>2. session' = [session EXCEPT ![p] = row]
    BY <1>6 DEF StartPausedCheck, Begin
  <2> HIDE DEF row
  <2>3. session'[r] = session[r] \/ session'[r] = row
    BY <1>1, <2>2 DEF TypeOK
  <2> QED
    BY <1>2, <2>1, <2>3
<1>7. ASSUME NEW p \in Checker, NEW ok \in BOOLEAN, FinishProbe(p, ok)
      PROVE  session'[r] = session[r]
  <2> DEFINE row == [session[p] EXCEPT !.at = "recording", !.ok = ok,
                                       !.seen = state[session[p].mon]]
  <2>1. row.at # "syncing"
    BY <1>1 DEF TypeOK, SessionRow
  <2>2. session' = [session EXCEPT ![p] = row]
    BY <1>7 DEF FinishProbe
  <2> HIDE DEF row
  <2> QED
    BY <1>1, <1>3, <2>1, <2>2
<1>8. ASSUME NEW p \in Checker, CheckStep(p) PROVE session'[r] = session[r]
  BY <1>1, <1>4, <1>7, <1>8 DEF CheckStep, RecordCheck, LoseCheck, SyncPaused, AbortCheck
<1>9. ASSUME NEW q \in Admin, Request(q) PROVE session'[r] = session[r]
  <2>1. ASSUME NEW m \in Monitor, NEW want \in BOOLEAN, LoadMonitor(q, m, want)
        PROVE  session'[r] = session[r]
    <3>1. [Idle EXCEPT !.at = "patching", !.mon = m, !.want = want,
                       !.was = (monitor[m] = "paused")].at # "syncing"
      BY DEF Idle
    <3> QED
      BY <1>1, <1>3, <2>1, <3>1 DEF LoadMonitor, Begin
  <2>2. ASSUME NEW m \in Monitor, LoadForDelete(q, m) PROVE session'[r] = session[r]
    <3>1. [Idle EXCEPT !.at = "deleting", !.mon = m].at # "syncing"
      BY DEF Idle
    <3> QED
      BY <1>1, <1>3, <2>2, <3>1 DEF LoadForDelete, Begin
  <2>3. ASSUME NEW op \in IncidentOps, NEW i \in IncidentId, LoadIncident(q, i, op)
        PROVE  session'[r] = session[r]
    <3>1. [Idle EXCEPT !.at = op, !.inc = i, !.row = incident[i]].at # "syncing"
      BY DEF Idle, IncidentOps
    <3> QED
      BY <1>1, <1>3, <2>3, <3>1 DEF LoadIncident, Begin
  <2> QED
    BY <1>9, <2>1, <2>2, <2>3 DEF Request, CreateMonitor, SetAlerts
<1>10. ASSUME NEW q \in Admin, Reply(q) PROVE session'[r] = session[r]
  BY <1>1, <1>4, <1>10 DEF Reply, PatchMonitor, DeleteMonitor, Acknowledge, Resolve, Reopen
<1>11. ASSUME NEW p \in Session, Rollback(p) PROVE session'[r] = session[r]
  BY <1>4, <1>11 DEF Rollback
<1>12. UNCHANGED vars => session'[r] = session[r]
  BY DEF vars
<1> QED
  BY <1>2, <1>5, <1>6, <1>8, <1>9, <1>10, <1>11, <1>12 DEF Next

\* A state row outlives its monitor, or its monitor it, only by a scheduled check
\* that looked for the row when both had been deleted.
THEOREM StatesHaveMonitorsUnlessOutlived == Spec => StateUnlessOutlived
<1>1. Init => MonitorHasState /\ SyncsLoaded
  BY DEF Init, MonitorHasState, SyncsLoaded, FreshState, Idle
<1>2. TypeOK /\ MonitorHasState /\ SyncsLoaded /\ [Next]_vars => MonitorHasState' /\ SyncsLoaded'
  BY HasStateNext, SyncsLoadedNext
<1>3. TypeOK /\ MonitorHasState /\ SyncsLoaded /\ [Next]_vars
        => [\A m \in Monitor : StateHasMonitor(m) /\ ~StateHasMonitor(m)' =>
              \E p \in Scheduled :
                Records(p, m) /\ session[p].seen.status = "absent" /\ monitor[m] = "absent"]_vars
  <2> SUFFICES ASSUME TypeOK, MonitorHasState, MonitorHasState', SyncsLoaded, [Next]_vars,
                      NEW m \in Monitor, StateHasMonitor(m), ~StateHasMonitor(m)'
               PROVE  \E p \in Scheduled :
                        Records(p, m) /\ session[p].seen.status = "absent" /\ monitor[m] = "absent"
    BY HasStateNext
  <2>1. monitor'[m] = "absent" /\ state'[m].status # "absent"
    BY DEF StateHasMonitor, MonitorHasState
  <2>2. ~Maintains(m) /\ ~Deletes(m) /\ ~Spares(m)
    BY <2>1, MaintainedRow DEF Deletes, Spares, StateHasMonitor, NoState, FreshState
  <2>3. ASSUME NEW p \in Checker, Outcomes(p, m) \/ Syncs(p, m)
        PROVE  /\ monitor[m] = "absent" /\ p \in Session
               /\ session[p].mon = m /\ session[p].seen.status = "absent"
    <3>1. monitor' = monitor /\ session[p].mon = m /\ RowAsLoaded(p) /\ p \in Session
      BY <2>3, OutcomeRow, SyncedRow DEF Outcomes, Syncs
    <3> QED
      BY <2>1, <3>1 DEF StateHasMonitor, RowAsLoaded
  <2>4. ASSUME NEW p \in Checker, Syncs(p, m) PROVE FALSE
    BY <2>3, <2>4, SyncedRow DEF SyncsLoaded
  <2>5. ASSUME NEW p \in Checker, Outcomes(p, m) PROVE p \in Scheduled /\ Records(p, m)
    BY <2>3, <2>5, OutcomeRow DEF CommitReached, Outcomes
  <2> QED
    BY <2>2, <2>3, <2>4, <2>5, StateWrites
<1> QED
  BY <1>1, <1>2, <1>3, TypeCorrect, PTL DEF Spec, StateUnlessOutlived

\* A paused monitor stops showing as paused only by the outcome of a check that
\* had begun to probe it.
THEOREM PausedShownUnlessProbed == Spec => PausedUnlessProbed
<1>1. TypeOK /\ [Next]_vars
        => [\A m \in Monitor : ShowsPaused(m) /\ ~ShowsPaused(m)' =>
              \E p \in Checker : Records(p, m) /\ monitor[m] = "paused"]_vars
  <2> SUFFICES ASSUME TypeOK, [Next]_vars, NEW m \in Monitor,
                      ShowsPaused(m), ~ShowsPaused(m)'
               PROVE  \E p \in Checker : Records(p, m) /\ monitor[m] = "paused"
    OBVIOUS
  <2>1. monitor'[m] = "paused" /\ state'[m].status # "paused"
    BY DEF ShowsPaused
  <2>2. ~Maintains(m) /\ ~Deletes(m) /\ ~Spares(m)
    BY <2>1, MaintainedRow DEF Deletes, Spares, ShowsPaused
  <2>3. ASSUME NEW p \in Checker, Syncs(p, m) PROVE FALSE
    <3>1. monitor[m] = "paused" /\ state[m].status = "paused"
      BY <2>1, <2>3 DEF Syncs, ShowsPaused
    <3> QED
      BY <2>1, <2>3, <3>1, SyncedRow DEF Ensured
  <2>4. ASSUME NEW p \in Checker, Outcomes(p, m) PROVE Records(p, m) /\ monitor[m] = "paused"
    BY <2>1, <2>4 DEF Outcomes
  <2> QED
    BY <2>2, <2>3, <2>4, StateWrites
<1> QED
  BY <1>1, TypeCorrect, PTL DEF Spec, PausedUnlessProbed

\* A check that had found the monitor down, and turns it up, resolves its incident.
LEMMA SeenDownCloses ==
  ASSUME TypeOK, LinkSound, NEW m \in Monitor, NEW p \in Checker, Outcomes(p, m),
         state[m].status = "down", state'[m].status = "up", state[m].link # None,
         session[p].seen.status = "down"
  PROVE  ClosesIncident(m)
<1> DEFINE row == Refreshed(p)
           seen == SeenRow(p)
           i == state[m].link
<1>1. /\ p \in Session /\ session[p].mon = m /\ session[p].at = "recording"
      /\ session[p].seen \in StateRow
  BY OutcomeRow
<1>2. /\ row \in StateRow /\ seen \in StateRow /\ row.link = i /\ row.status = "up"
  BY <1>1, Recording DEF Outcomes
<1>3. seen.status = "down"
  BY <1>1, EnsuredRow DEF SeenRow
<1>4. OpenIncident(m, seen, row) \/ CloseIncident(m, seen, row) \/ KeepIncident(m, seen, row)
  BY <1>1 DEF Outcomes, RecordCheck
<1>5. i \in IncidentId /\ i # None
  BY DEF TypeOK, StateRow
<1> HIDE DEF row, seen, i
<1>6. CloseIncident(m, seen, row)
  BY <1>2, <1>3, <1>4, <1>5 DEF OpenIncident, KeepIncident, WentDown, Recovered
<1>7. /\ incident' = [incident EXCEPT
           ![i] = IF @.status \in OpenStatuses THEN Resolved(@, @) ELSE @]
      /\ state' = [state EXCEPT ![m] = [row EXCEPT !.link = None, !.alert = AlertAfter(seen, row)]]
  BY <1>2, <1>6 DEF CloseIncident
<1>8. incident[i].status \in OpenStatuses /\ incident[i] \in IncidentRow
  BY <1>5 DEF LinkSound, TypeOK, i
<1>9. incident'[i].status = "resolved"
  BY <1>5, <1>7, <1>8, CurrentChange DEF TypeOK
<1>10. state'[m].link = None
  BY <1>2, <1>7 DEF TypeOK, StateRow
<1> QED
  BY <1>9, <1>10 DEF ClosesIncident, i

\* A monitor comes up again without its incident being resolved only by a check
\* that had found it unchecked or paused.
THEOREM RecoveriesCloseUnlessUnseen == Spec => RecoveryUnlessUnseen
<1>1. TypeOK /\ LinkSound /\ [Next]_vars
        => [\A m \in Monitor :
              /\ state[m].status = "down" /\ state'[m].status = "up" /\ state[m].link # None
              /\ ~ClosesIncident(m)
              => \E p \in Checker :
                   Records(p, m) /\ session[p].seen.status \in {"none", "paused"}]_vars
  <2> SUFFICES ASSUME TypeOK, LinkSound, [Next]_vars, NEW m \in Monitor,
                      state[m].status = "down", state'[m].status = "up",
                      state[m].link # None, ~ClosesIncident(m)
               PROVE  \E p \in Checker :
                        Records(p, m) /\ session[p].seen.status \in {"none", "paused"}
    OBVIOUS
  <2>1. ~Maintains(m) /\ ~Deletes(m) /\ ~Spares(m)
    BY MaintainedRow DEF Deletes, Spares, NoState, FreshState
  <2>2. ASSUME NEW p \in Checker, Syncs(p, m) PROVE FALSE
    BY <2>2, SyncedRow DEF Ensured
  <2>3. ASSUME NEW p \in Checker, Outcomes(p, m)
        PROVE  Records(p, m) /\ session[p].seen.status \in {"none", "paused"}
    <3>1. /\ session[p].seen \in StateRow /\ state[m] \in StateRow
          /\ session[p].mon = m /\ RowAsLoaded(p)
          /\ state'[m].status
               = AfterOutcome(Ensured(state[m]), Ensured(session[p].seen), session[p].ok).status
      BY <2>3, OutcomeRow DEF Outcomes
    <3>2. session[p].seen.status # "absent"
      BY <3>1 DEF RowAsLoaded
    <3>3. Ensured(state[m]) = state[m] /\ Ensured(session[p].seen) = session[p].seen
      BY <3>1, <3>2 DEF Ensured
    <3>4. state'[m].status = Column("down", session[p].seen.status,
                                    IF session[p].ok THEN "up" ELSE "down")
      BY <3>1, <3>3 DEF AfterOutcome, StateRow
    <3>5. session[p].seen.status # "up"
      BY <3>4 DEF Column
    <3>6. session[p].seen.status # "down"
      BY <2>3, SeenDownCloses
    <3> QED
      BY <2>3, <3>1, <3>2, <3>5, <3>6 DEF StateRow, Outcomes
  <2> QED
    BY <2>1, <2>2, <2>3, StateWrites
<1> QED
  BY <1>1, TypeCorrect, LinksSound, PTL DEF Spec, RecoveryUnlessUnseen

-----------------------------------------------------------------------------
(* The ledger: what a step does to the tables *)

SameMonitors == \A m \in Monitor : monitor'[m] = "absent" <=> monitor[m] = "absent"
SameLinkColumn == \A m \in Monitor : state'[m].link = state[m].link

\* An incident is opened for a monitor that has none ...
Opens(m, i) ==
  /\ monitor[m] # "absent" /\ state[m].link = None /\ incident[i].status = "absent"
  /\ incident' = [incident EXCEPT ![i] = NewIncident(m)]
  /\ \A k \in Monitor : state'[k].link = IF k = m THEN i ELSE state[k].link
  /\ SameMonitors
\* ... or resolved, and is nobody's any more ...
Closes(i) ==
  /\ incident[i].status \in OpenStatuses
  /\ incident' = [incident EXCEPT ![i] = Resolved(incident[i], incident[i])]
  /\ \A k \in Monitor : state'[k].link = IF state[k].link = i THEN None ELSE state[k].link
  /\ SameMonitors
\* ... or acknowledged or reopened ...
Acknowledges(i) ==
  /\ incident[i].status \in OpenStatuses
  /\ incident' = [incident EXCEPT ![i] = Acknowledged(incident[i], incident[i])]
  /\ SameLinkColumn /\ SameMonitors
Reopens(i) ==
  /\ incident[i].status # "absent"
  /\ incident' = [incident EXCEPT ![i] = Reopened(incident[i], incident[i])]
  /\ SameLinkColumn /\ SameMonitors
\* ... or a monitor comes or goes, or neither.
Adds(m) ==
  /\ monitor[m] = "absent" /\ monitor'[m] # "absent"
  /\ \A k \in Monitor : k # m => monitor'[k] = monitor[k]
  /\ SameLinkColumn /\ UNCHANGED incident
Removes(m) ==
  /\ monitor[m] # "absent" /\ monitor'[m] = "absent"
  /\ \A k \in Monitor : k # m => monitor'[k] = monitor[k]
  /\ \A k \in Monitor : state'[k].link = IF k = m THEN None ELSE state[k].link
  /\ UNCHANGED incident
Keeps == SameLinkColumn /\ SameMonitors /\ UNCHANGED incident

Effect ==
  \/ \E m \in Monitor, i \in IncidentId : Opens(m, i)
  \/ \E i \in IncidentId : Closes(i) \/ Acknowledges(i) \/ Reopens(i)
  \/ \E m \in Monitor : Adds(m) \/ Removes(m)
  \/ Keeps

\* A step of the checks or requests on the row of one monitor, whose link stays.
LEMMA OneRowKeeps ==
  ASSUME TypeOK, NEW m \in Monitor,
         \A k \in Monitor : k # m => state'[k] = state[k] /\ monitor'[k] = monitor[k],
         state'[m].link = state[m].link, monitor'[m] = "absent" <=> monitor[m] = "absent",
         UNCHANGED incident
  PROVE  Keeps
BY DEF Keeps, SameLinkColumn, SameMonitors

\* The transition of a check on a monitor that is there and keeps its link.
LEMMA TransitionEffect ==
  ASSUME TypeOK, LinkSound, NEW m \in Monitor, NEW seen \in StateRow, NEW row \in StateRow,
         row.link = state[m].link, monitor[m] # "absent", UNCHANGED monitor,
         OpenIncident(m, seen, row) \/ CloseIncident(m, seen, row)
           \/ KeepIncident(m, seen, row)
  PROVE  Effect
<1>1. \A k \in Monitor : k # m => state'[k] = state[k]
  BY TransitionRow
<1>2. SameMonitors
  BY DEF SameMonitors
<1>3. CASE OpenIncident(m, seen, row)
  <2>1. PICK i \in IncidentId :
          /\ FreshIncident(i)
          /\ incident' = [incident EXCEPT ![i] = NewIncident(m)]
          /\ state' = [state EXCEPT ![m] = [row EXCEPT !.link = i, !.alert = AlertAfter(seen, row)]]
    BY <1>3 DEF OpenIncident
  <2>2. incident[i].status = "absent"
    BY <2>1 DEF FreshIncident, IncidentId
  <2>3. state'[m].link = i
    BY <2>1 DEF StateRow, TypeOK
  <2>4. row.link = None
    BY <1>3 DEF OpenIncident
  <2>5. Opens(m, i)
    BY <1>1, <1>2, <2>1, <2>2, <2>3, <2>4 DEF Opens
  <2> QED
    BY <2>5 DEF Effect
<1>4. CASE CloseIncident(m, seen, row)
  <2> DEFINE i == row.link
  <2>1. /\ i # None /\ i \in IncidentId
        /\ incident' = [incident EXCEPT
             ![i] = IF @.status \in OpenStatuses THEN Resolved(@, @) ELSE @]
        /\ state' = [state EXCEPT ![m] = [row EXCEPT !.link = None,
                                                     !.alert = AlertAfter(seen, row)]]
    BY <1>4 DEF CloseIncident, StateRow
  <2>2. incident[i].status \in OpenStatuses /\ incident[i].of = m
    BY <2>1 DEF LinkSound
  <2>3. incident' = [incident EXCEPT ![i] = Resolved(incident[i], incident[i])]
    BY <2>1, <2>2
  <2>4. state'[m].link = None
    BY <2>1 DEF StateRow, TypeOK
  <2>5. \A k \in Monitor : k # m => state[k].link # i
    BY <2>1, <2>2 DEF LinkSound
  <2>6. Closes(i)
    BY <1>1, <1>2, <2>2, <2>3, <2>4, <2>5 DEF Closes
  <2> QED
    BY <2>1, <2>6 DEF Effect
<1>5. CASE KeepIncident(m, seen, row)
  <2>1. /\ incident' = incident
        /\ state' = [state EXCEPT ![m] = [row EXCEPT !.alert = AlertAfter(seen, row)]]
    BY <1>5 DEF KeepIncident
  <2>2. state'[m].link = state[m].link
    BY <2>1 DEF StateRow, TypeOK
  <2>3. Keeps
    BY <1>1, <2>1, <2>2, OneRowKeeps
  <2> QED
    BY <2>3 DEF Effect
<1> QED
  BY <1>3, <1>4, <1>5

LEMMA LedgerInit == Init => Ledger!Init
<1> SUFFICES ASSUME Init PROVE Ledger!Init
  OBVIOUS
<1>1. /\ \A i \in IncidentId : incident[i].status = "absent"
      /\ \A m \in Monitor : state[m].link = None
  BY BlankRow DEF Init, NoIncident
<1> QED
  BY <1>1 DEF Ledger!Init

\* Each effect of a step is a step of the ledger, or none.
LEMMA LedgerStep ==
  ASSUME TypeOK, Effect
  PROVE  [Ledger!Next]_(Ledger!vars)
<1> DEFINE status == [i \in IncidentId |-> incident[i].status]
           current == [m \in Monitor |-> state[m].link]
           live == {m \in Monitor : monitor[m] # "absent"}
<1>1. SameMonitors => live' = live
  BY DEF SameMonitors
<1>2. SameLinkColumn => current' = current
  BY DEF SameLinkColumn
<1>3. ASSUME NEW i \in IncidentId, NEW row, incident' = [incident EXCEPT ![i] = row]
      PROVE  status' = [status EXCEPT ![i] = row.status]
  <2>1. \A j \in IncidentId : incident'[j] = IF j = i THEN row ELSE incident[j]
    BY <1>3 DEF TypeOK
  <2> QED
    BY <2>1
<1>4. ASSUME NEW m \in Monitor, NEW i \in IncidentId, Opens(m, i) PROVE Ledger!Open(m, i)
  <2> DEFINE row == NewIncident(m)
  <2>1. row.status = "open" /\ incident' = [incident EXCEPT ![i] = row]
    BY <1>4, NewRow DEF Opens
  <2> HIDE DEF row
  <2>2. status' = [status EXCEPT ![i] = "open"]
    BY <1>3, <2>1
  <2>3. current' = [current EXCEPT ![m] = i]
    BY <1>4 DEF Opens
  <2> QED
    BY <1>1, <1>4, <2>2, <2>3 DEF Opens, Ledger!Open
<1>5. ASSUME NEW i \in IncidentId, Closes(i) PROVE Ledger!Close(i)
  <2>1. status' = [status EXCEPT ![i] = "resolved"]
    BY <1>3, <1>5, CurrentChange DEF Closes, TypeOK
  <2>2. current' = [m \in Monitor |-> IF current[m] = i THEN None ELSE current[m]]
    BY <1>5 DEF Closes
  <2> QED
    BY <1>1, <1>5, <2>1, <2>2 DEF Closes, OpenStatuses, Ledger!Close
<1>6. ASSUME NEW i \in IncidentId, Acknowledges(i) PROVE Ledger!Acknowledge(i)
  <2>1. status' = [status EXCEPT ![i] = "acknowledged"]
    BY <1>3, <1>6, CurrentChange DEF Acknowledges, TypeOK
  <2> QED
    BY <1>1, <1>2, <1>6, <2>1 DEF Acknowledges, OpenStatuses, Ledger!Acknowledge
<1>7. ASSUME NEW i \in IncidentId, Reopens(i) PROVE Ledger!Reopen(i)
  <2>1. status' = [status EXCEPT ![i] = "open"]
    BY <1>3, <1>7, CurrentChange DEF Reopens, TypeOK
  <2> QED
    BY <1>1, <1>2, <1>7, <2>1 DEF Reopens, Ledger!Reopen
<1>8. ASSUME NEW m \in Monitor, Adds(m) PROVE Ledger!Add(m)
  <2>1. live' = live \cup {m} /\ m \notin live /\ status' = status
    BY <1>8 DEF Adds
  <2> QED
    BY <1>2, <1>8, <2>1 DEF Adds, Ledger!Add
<1>9. ASSUME NEW m \in Monitor, Removes(m) PROVE Ledger!Remove(m)
  <2>1. live' = live \ {m} /\ m \in live /\ status' = status
    BY <1>9 DEF Removes
  <2>2. current' = [current EXCEPT ![m] = None]
    BY <1>9 DEF Removes
  <2> QED
    BY <2>1, <2>2 DEF Ledger!Remove
<1>10. CASE Keeps
  BY <1>1, <1>2, <1>10 DEF Keeps, Ledger!vars
<1> QED
  BY <1>4, <1>5, <1>6, <1>7, <1>8, <1>9, <1>10 DEF Effect, Ledger!Next

-----------------------------------------------------------------------------
(* The ledger: sessions that overlap *)

\* If monitors are not deleted, that of a check stays; and what an administrator
\* is about to resolve was not resolved when it was loaded.
SafeRow(row) ==
  /\ row.at \notin {"deleting", "acknowledge"}
  /\ row.at \in {"probing", "recording", "syncing"} => monitor[row.mon] # "absent"
  /\ row.at = "resolve" => row.row.status # "resolved"
SafeSessions == \A p \in Session : SafeRow(session[p])

LEMMA MonitorsStay ==
  ASSUME TypeOK, SafeSessions, [Next]_vars, NEW m \in Monitor, monitor[m] # "absent"
  PROVE  monitor'[m] # "absent"
<1>1. CASE UNCHANGED monitor
  BY <1>1
<1>2. ASSUME NEW p \in Checker, NEW k \in Monitor, StartCheck(p, k) \/ StartPausedCheck(p, k)
      PROVE  UNCHANGED monitor
  BY <1>2 DEF StartCheck, StartPausedCheck
<1>3. ASSUME NEW p \in Checker, CheckStep(p) PROVE UNCHANGED monitor
  BY <1>3 DEF CheckStep, FinishProbe, RecordCheck, LoseCheck, SyncPaused, AbortCheck
<1>4. ASSUME NEW q \in Admin, Request(q) PROVE monitor'[m] # "absent"
  <2>1. ASSUME NEW paused \in BOOLEAN, CreateMonitor(q, paused) PROVE monitor'[m] # "absent"
    <3>1. PICK k \in Monitor :
            monitor' = [monitor EXCEPT ![k] = IF paused THEN "paused" ELSE "active"]
      BY <2>1 DEF CreateMonitor
    <3> QED
      BY <3>1 DEF TypeOK
  <2>2. UNCHANGED monitor \/ \E paused \in BOOLEAN : CreateMonitor(q, paused)
    BY <1>4 DEF Request, LoadMonitor, LoadForDelete, LoadIncident, SetAlerts
  <2> QED
    BY <2>1, <2>2
<1>5. ASSUME NEW q \in Admin, Reply(q) PROVE monitor'[m] # "absent"
  <2>1. ~DeleteMonitor(q)
    BY DEF DeleteMonitor, SafeSessions, SafeRow, Session
  <2>2. CASE PatchMonitor(q)
    BY <2>2 DEF PatchMonitor, TypeOK
  <2>3. CASE UNCHANGED monitor
    BY <2>3
  <2> QED
    BY <1>5, <2>1, <2>2, <2>3 DEF Reply, Acknowledge, Resolve, Reopen
<1>6. ASSUME NEW p \in Session, Rollback(p) PROVE UNCHANGED monitor
  BY <1>6 DEF Rollback
<1>7. UNCHANGED vars => UNCHANGED monitor
  BY DEF vars
<1> QED
  BY <1>1, <1>2, <1>3, <1>4, <1>5, <1>6, <1>7 DEF Next

LEMMA SafeNext ==
  ASSUME "acknowledge" \notin AdminOps, "delete" \notin AdminOps,
         TypeOK, SafeSessions, [Next]_vars
  PROVE  SafeSessions'
<1>1. Checker \subseteq Session /\ Admin \subseteq Session
  BY DEF Session
<1>2. TypeOK'
  BY TypeNext
<1>3. ASSUME NEW row \in SessionRow, SessionRowOK(row), SafeRow(row) PROVE SafeRow(row)'
  <2>1. row.at \in {"probing", "recording", "syncing"} => row.mon \in Monitor
    BY <1>3 DEF SessionRowOK
  <2>2. row.at \in {"probing", "recording", "syncing"} => monitor'[row.mon] # "absent"
    BY <1>3, <2>1, MonitorsStay DEF SafeRow
  <2> QED
    BY <1>3, <2>2 DEF SafeRow
<1>4. ASSUME NEW p \in Session, NEW row, SafeRow(row), session' = [session EXCEPT ![p] = row]
      PROVE  SafeSessions'
  <2> SUFFICES ASSUME NEW q \in Session PROVE SafeRow(session[q])'
    BY DEF SafeSessions
  <2>1. session'[q] \in SessionRow /\ SessionRowOK(session'[q])
    BY <1>2 DEF TypeOK, SessionOK, SessionRowOK
  <2>2. SafeRow(session'[q])
    BY <1>4 DEF TypeOK, SafeSessions
  <2>3. session'[q].at \in {"probing", "recording", "syncing"} => session'[q].mon \in Monitor
    BY <2>1 DEF SessionRowOK
  <2>4. session'[q].at \in {"probing", "recording", "syncing"}
          => monitor'[session'[q].mon] # "absent"
    BY <2>2, <2>3, MonitorsStay DEF SafeRow
  <2> QED
    BY <2>2, <2>4 DEF SafeRow
<1>5. ASSUME NEW p \in Session, End(p) PROVE SafeSessions'
  <2>1. SafeRow(Idle)
    BY DEF SafeRow, Idle
  <2> QED
    BY <1>4, <1>5, <2>1 DEF End
<1>6. ASSUME NEW p \in Checker, NEW m \in Monitor, StartCheck(p, m) \/ StartPausedCheck(p, m)
      PROVE  SafeSessions'
  <2>1. monitor[m] # "absent"
          => /\ SafeRow([Idle EXCEPT !.at = "probing", !.mon = m])
             /\ SafeRow([Idle EXCEPT !.at = "syncing", !.mon = m, !.seen = state[m]])
    BY DEF SafeRow, Idle
  <2> QED
    BY <1>1, <1>4, <1>6, <2>1 DEF StartCheck, StartPausedCheck, Begin
<1>7. ASSUME NEW p \in Checker, NEW ok \in BOOLEAN, FinishProbe(p, ok) PROVE SafeSessions'
  <2> DEFINE m == session[p].mon
             new == [session[p] EXCEPT !.at = "recording", !.ok = ok, !.seen = state[m]]
  <2>1. session[p] \in SessionRow /\ session[p].at = "probing" /\ SafeRow(session[p])
    BY <1>1, <1>7 DEF FinishProbe, TypeOK, SafeSessions
  <2>2. new.at = "recording" /\ new.mon = m
    BY <2>1 DEF SessionRow
  <2>3. session' = [session EXCEPT ![p] = new]
    BY <1>7 DEF FinishProbe
  <2>4. monitor[m] # "absent"
    BY <2>1 DEF SafeRow
  <2> HIDE DEF new
  <2>5. SafeRow(new)
    BY <2>2, <2>4 DEF SafeRow
  <2> QED
    BY <1>1, <1>4, <2>3, <2>5
<1>8. ASSUME NEW p \in Checker, CheckStep(p) PROVE SafeSessions'
  BY <1>1, <1>5, <1>7, <1>8 DEF CheckStep, RecordCheck, LoseCheck, SyncPaused, AbortCheck
<1>9. ASSUME UNCHANGED session PROVE SafeSessions'
  <2> SUFFICES ASSUME NEW q \in Session PROVE SafeRow(session[q])'
    BY DEF SafeSessions
  <2>1. SafeRow(session[q]) /\ session'[q] = session[q]
    BY <1>9 DEF SafeSessions
  <2>2. session[q] \in SessionRow /\ SessionRowOK(session[q])
    BY DEF TypeOK, SessionOK
  <2>3. session[q].at \in {"probing", "recording", "syncing"} => session[q].mon \in Monitor
    BY <2>2 DEF SessionRowOK
  <2>4. session[q].at \in {"probing", "recording", "syncing"}
          => monitor'[session[q].mon] # "absent"
    BY <2>1, <2>3, MonitorsStay DEF SafeRow
  <2> QED
    BY <2>1, <2>4 DEF SafeRow
<1>10. ASSUME NEW q \in Admin, Request(q) PROVE SafeSessions'
  <2>1. ASSUME NEW m \in Monitor, NEW want \in BOOLEAN, LoadMonitor(q, m, want)
        PROVE  SafeSessions'
    <3>1. SafeRow([Idle EXCEPT !.at = "patching", !.mon = m, !.want = want,
                               !.was = (monitor[m] = "paused")])
      BY DEF SafeRow, Idle
    <3> QED
      BY <1>1, <1>4, <2>1, <3>1 DEF LoadMonitor, Begin
  <2>2. ASSUME NEW op \in AdminOps \cap IncidentOps, NEW i \in IncidentId, LoadIncident(q, i, op)
        PROVE  SafeSessions'
    <3>1. op \in {"resolve", "reopen"}
      BY DEF IncidentOps
    <3>2. Accepts(op, incident[i]) /\ session' = [session EXCEPT ![q] =
            [Idle EXCEPT !.at = op, !.inc = i, !.row = incident[i]]]
      BY <2>2 DEF LoadIncident, Begin
    <3>3. SafeRow([Idle EXCEPT !.at = op, !.inc = i, !.row = incident[i]])
      BY <3>1, <3>2 DEF SafeRow, Idle, Accepts
    <3> QED
      BY <1>1, <1>4, <3>2, <3>3
  <2>3. \/ \E m \in Monitor, want \in BOOLEAN : LoadMonitor(q, m, want)
        \/ \E op \in AdminOps \cap IncidentOps, i \in IncidentId : LoadIncident(q, i, op)
        \/ UNCHANGED session
    BY <1>10 DEF Request, CreateMonitor, SetAlerts
  <2> QED
    BY <1>9, <2>1, <2>2, <2>3
<1>11. ASSUME NEW q \in Admin, Reply(q) PROVE SafeSessions'
  BY <1>1, <1>5, <1>11
     DEF Reply, PatchMonitor, DeleteMonitor, Acknowledge, Resolve, Reopen
<1>12. ASSUME NEW p \in Session, Rollback(p) PROVE SafeSessions'
  BY <1>5, <1>12 DEF Rollback
<1>13. UNCHANGED vars => UNCHANGED session
  BY DEF vars
<1> QED
  BY <1>6, <1>8, <1>9, <1>10, <1>11, <1>12, <1>13 DEF Next

\* What is written into a state row has the link it had.
LEMMA WrittenLink ==
  ASSUME NEW row \in StateRow, row.status = "absent" => row = NoState, NEW seen \in StateRow
  PROVE  Ensured(row).link = row.link /\ AfterPause(Ensured(row), seen).link = row.link
<1>1. Ensured(row) \in StateRow /\ Ensured(row).link = row.link
  BY EnsuredRow, BlankRow DEF Ensured
<1> QED
  BY <1>1, AfterPauseRow

\* A stale change of an incident is one of the ledger too, or shows only in its
\* other columns.
StatusesKept == /\ SameLinkColumn /\ SameMonitors
                /\ \A i \in IncidentId : incident'[i].status = incident[i].status
ReopensStale(i) ==
  /\ incident[i].status # "absent" /\ SameLinkColumn /\ SameMonitors
  /\ \A j \in IncidentId : incident'[j].status = IF j = i THEN "open" ELSE incident[j].status

LEMMA ResolveOverlap ==
  ASSUME TypeOK, LinkSound, LoadedIncidents, SafeSessions, NEW q \in Admin, Resolve(q)
  PROVE  Effect \/ StatusesKept
<1> DEFINE i == session[q].inc
           m == incident[i].of
           db == incident[i]
           new == Resolved(db, session[q].row)
<1>1. /\ q \in Session /\ session[q].at = "resolve" /\ session[q].at \in IncidentOps
      /\ session[q].row.status # "resolved"
  BY DEF Session, Resolve, IncidentOps, SafeSessions, SafeRow
<1>2. /\ i \in IncidentId /\ db \in IncidentRow /\ db.status # "absent"
  BY <1>1 DEF TypeOK, SessionOK, SessionRowOK, LoadedIncidents
<1>3. new = Resolved(db, db) /\ new.status = "resolved"
  BY <1>1, <1>2, CurrentChange DEF Resolved, Column
<1>4. /\ incident' = [incident EXCEPT ![i] = new]
      /\ state' = [state EXCEPT ![m] = Unlinked(m, i)] /\ UNCHANGED monitor
  BY DEF Resolve
<1> HIDE DEF new, i
<1>5. ASSUME NEW k \in Monitor
      PROVE  state'[k].link = IF state[k].link = i THEN None ELSE state[k].link
  <2>1. state[k] \in StateRow /\ i # None
    BY <1>2 DEF TypeOK, IncidentId, None
  <2>2. CASE k = m
    <3>1. state'[k] = Unlinked(k, i)
      BY <1>4, <2>2 DEF TypeOK
    <3> QED
      BY <2>1, <3>1 DEF Unlinked, StateRow
  <2>3. CASE k # m
    <3>1. state'[k] = state[k]
      BY <1>4, <2>3 DEF TypeOK
    <3>2. state[k].link # i
      BY <2>1, <2>3 DEF LinkSound, m, db
    <3> QED
      BY <3>1, <3>2
  <2> QED
    BY <2>2, <2>3
<1>6. SameMonitors
  BY <1>4 DEF SameMonitors
<1>7. CASE db.status \in OpenStatuses
  <2>1. Closes(i)
    BY <1>3, <1>4, <1>5, <1>6, <1>7 DEF Closes
  <2> QED
    BY <1>2, <2>1 DEF Effect
<1>8. CASE db.status = "resolved"
  <2>1. \A k \in Monitor : state[k].link # i
    BY <1>2, <1>8 DEF LinkSound, OpenStatuses, TypeOK, IncidentId, None
  <2>2. SameLinkColumn
    BY <1>5, <2>1 DEF SameLinkColumn
  <2>3. \A j \in IncidentId : incident'[j].status = incident[j].status
    BY <1>2, <1>3, <1>4, <1>8 DEF TypeOK
  <2> QED
    BY <1>6, <2>2, <2>3 DEF StatusesKept
<1> QED
  BY <1>2, <1>7, <1>8 DEF IncidentRow, LoggedStatus, OpenStatuses

LEMMA ReopenOverlap ==
  ASSUME TypeOK, LoadedIncidents, NEW q \in Admin, Reopen(q)
  PROVE  StatusesKept \/ \E i \in IncidentId : ReopensStale(i)
<1> DEFINE i == session[q].inc
           new == Reopened(incident[i], session[q].row)
<1>1. q \in Session /\ session[q].at \in IncidentOps /\ session[q] \in SessionRow
  BY DEF Session, Reopen, IncidentOps, TypeOK
<1>2. /\ i \in IncidentId /\ incident[i] \in IncidentRow /\ incident[i].status # "absent"
      /\ session[q].row \in IncidentRow
  BY <1>1 DEF TypeOK, SessionOK, SessionRowOK, LoadedIncidents, SessionRow
<1>3. new.status \in {incident[i].status, "open"}
  BY <1>2, ChangedStatus
<1>4. incident' = [incident EXCEPT ![i] = new] /\ UNCHANGED <<monitor, state>>
  BY DEF Reopen
<1> HIDE DEF new, i
<1>5. SameLinkColumn /\ SameMonitors
  BY <1>4 DEF SameLinkColumn, SameMonitors
<1>6. \A j \in IncidentId : incident'[j] = IF j = i THEN new ELSE incident[j]
  BY <1>2, <1>4 DEF TypeOK
<1> QED
  BY <1>2, <1>3, <1>5, <1>6 DEF StatusesKept, ReopensStale

OverlapInv == AbsentIsBlank /\ LoadedIncidents /\ SafeSessions

LEMMA CheckOverlap ==
  ASSUME TypeOK, LinkSound, OverlapInv, NEW p \in Checker, CheckStep(p)
  PROVE  Effect
<1>1. p \in Session /\ session[p] \in SessionRow
  BY DEF Session, TypeOK
<1>2. CASE RecordCheck(p)
  <2> DEFINE m == session[p].mon
             seen == SeenRow(p)
             row == Refreshed(p)
  <2>1. /\ m \in Monitor /\ seen \in StateRow /\ row \in StateRow
        /\ row.link \in {state[m].link, None}
        /\ state[m].status # "absent" => row.link = state[m].link
    BY <1>1, <1>2, Recording DEF RecordCheck
  <2>2. row.link = state[m].link
    BY <2>1, BlankRow DEF OverlapInv, AbsentIsBlank
  <2>3. /\ OpenIncident(m, seen, row) \/ CloseIncident(m, seen, row) \/ KeepIncident(m, seen, row)
        /\ session[p].at = "recording" /\ UNCHANGED monitor
    BY <1>2 DEF RecordCheck
  <2>4. monitor[m] # "absent"
    BY <1>1, <2>3 DEF OverlapInv, SafeSessions, SafeRow
  <2> HIDE DEF m, seen, row
  <2> QED
    BY <2>1, <2>2, <2>3, <2>4, TransitionEffect
<1>3. CASE SyncPaused(p)
  <2> DEFINE m == session[p].mon
             new == AfterPause(Ensured(state[m]), SeenRow(p))
  <2>1. m \in Monitor
    BY <1>1, <1>3 DEF SyncPaused, TypeOK, SessionOK, SessionRowOK
  <2>2. /\ state[m] \in StateRow /\ SeenRow(p) \in StateRow
        /\ state[m].status = "absent" => state[m] = NoState
    BY <1>1, <2>1, EnsuredRow DEF TypeOK, SessionRow, SeenRow, OverlapInv, AbsentIsBlank
  <2>3. new.link = state[m].link
    BY <2>2, WrittenLink
  <2>4. state' = [state EXCEPT ![m] = new] /\ UNCHANGED <<monitor, incident>>
    BY <1>3 DEF SyncPaused
  <2> HIDE DEF m, new
  <2>5. Keeps
    BY <2>1, <2>3, <2>4, OneRowKeeps DEF TypeOK
  <2> QED
    BY <2>5 DEF Effect
<1>4. CASE \/ \E ok \in BOOLEAN : FinishProbe(p, ok)
           \/ LoseCheck(p) \/ AbortCheck(p)
  BY <1>4 DEF FinishProbe, LoseCheck, AbortCheck, Effect, Keeps, SameLinkColumn, SameMonitors
<1> QED
  BY <1>2, <1>3, <1>4 DEF CheckStep

LEMMA MonitorOverlap ==
  ASSUME TypeOK, OverlapInv, NEW q \in Admin,
         \/ \E paused \in BOOLEAN : CreateMonitor(q, paused)
         \/ PatchMonitor(q)
  PROVE  Effect
<1>1. ASSUME NEW k \in Monitor
      PROVE  /\ Ensured(state[k]).link = state[k].link
             /\ AfterPause(Ensured(state[k]), Ensured(state[k])).link = state[k].link
  <2>1. state[k] \in StateRow /\ (state[k].status = "absent" => state[k] = NoState)
    BY DEF TypeOK, OverlapInv, AbsentIsBlank
  <2> QED
    BY <2>1, EnsuredRow, WrittenLink
<1>2. ASSUME NEW paused \in BOOLEAN, CreateMonitor(q, paused) PROVE Effect
  <2> DEFINE Row(k) == IF paused THEN AfterPause(Ensured(state[k]), Ensured(state[k]))
                                 ELSE Ensured(state[k])
  <2>1. PICK m \in Monitor :
          /\ FreshMonitor(m)
          /\ monitor' = [monitor EXCEPT ![m] = IF paused THEN "paused" ELSE "active"]
          /\ state' = [state EXCEPT ![m] = Row(m)]
    BY <1>2 DEF CreateMonitor
  <2>2. monitor[m] = "absent"
    BY <2>1 DEF FreshMonitor, Monitor
  <2>3. Row(m).link = state[m].link
    BY <1>1
  <2> HIDE DEF Row
  <2>4. UNCHANGED incident
    BY <1>2 DEF CreateMonitor
  <2>5. Adds(m)
    BY <2>1, <2>2, <2>3, <2>4 DEF Adds, SameLinkColumn, TypeOK
  <2> QED
    BY <2>5 DEF Effect
<1>3. CASE PatchMonitor(q)
  <2> DEFINE m == session[q].mon
             paused == Column(monitor[m] = "paused", session[q].was, session[q].want)
             Row == IF paused THEN AfterPause(Ensured(state[m]), Ensured(state[m]))
                              ELSE Ensured(state[m])
  <2>1. m \in Monitor
    BY <1>3 DEF PatchMonitor, TypeOK, SessionOK, SessionRowOK, Session
  <2>2. CASE monitor[m] = "absent"
    BY <1>3, <2>2 DEF PatchMonitor, Effect, Keeps, SameLinkColumn, SameMonitors
  <2>3. CASE monitor[m] # "absent"
    <3>1. /\ monitor' = [monitor EXCEPT ![m] = IF paused THEN "paused" ELSE "active"]
          /\ state' = [state EXCEPT ![m] = Row] /\ UNCHANGED incident
      BY <1>3, <2>3 DEF PatchMonitor
    <3>2. Row.link = state[m].link
      BY <1>1, <2>1
    <3> HIDE DEF m, paused, Row
    <3>3. /\ state'[m] = Row /\ monitor'[m] # "absent"
          /\ \A k \in Monitor : k # m => state'[k] = state[k] /\ monitor'[k] = monitor[k]
      BY <2>1, <3>1 DEF TypeOK
    <3>4. Keeps
      BY <2>1, <2>3, <3>1, <3>2, <3>3, OneRowKeeps
    <3> QED
      BY <3>4 DEF Effect
  <2> QED
    BY <2>2, <2>3
<1> QED
  BY <1>2, <1>3

LEMMA OverlapEffect ==
  ASSUME TypeOK, LinkSound, OverlapInv, [Next]_vars
  PROVE  Effect \/ StatusesKept \/ \E i \in IncidentId : ReopensStale(i)
<1>1. UNCHANGED <<monitor, state, incident>> => Effect
  BY DEF Effect, Keeps, SameLinkColumn, SameMonitors
<1>2. ASSUME NEW p \in Checker, NEW m \in Monitor, StartCheck(p, m) \/ StartPausedCheck(p, m)
      PROVE  UNCHANGED <<monitor, state, incident>>
  BY <1>2 DEF StartCheck, StartPausedCheck
<1>3. ASSUME NEW q \in Admin, Request(q) \/ Reply(q)
      PROVE  \/ UNCHANGED <<monitor, state, incident>>
             \/ \E paused \in BOOLEAN : CreateMonitor(q, paused)
             \/ PatchMonitor(q) \/ Resolve(q) \/ Reopen(q)
  <2>1. ~DeleteMonitor(q) /\ ~Acknowledge(q)
    BY DEF DeleteMonitor, Acknowledge, OverlapInv, SafeSessions, SafeRow, Session
  <2> QED
    BY <1>3, <2>1 DEF Request, Reply, LoadMonitor, LoadForDelete, LoadIncident, SetAlerts
<1>4. ASSUME NEW p \in Session, Rollback(p) PROVE UNCHANGED <<monitor, state, incident>>
  BY <1>4 DEF Rollback
<1>5. UNCHANGED vars => UNCHANGED <<monitor, state, incident>>
  BY DEF vars
<1> QED
  BY <1>1, <1>2, <1>3, <1>4, <1>5, CheckOverlap, MonitorOverlap, ResolveOverlap, ReopenOverlap
     DEF Next, OverlapInv

LEMMA StaleLedgerStep ==
  ASSUME TypeOK, StatusesKept \/ \E i \in IncidentId : ReopensStale(i)
  PROVE  [Ledger!Next]_(Ledger!vars)
<1> DEFINE status == [i \in IncidentId |-> incident[i].status]
           current == [m \in Monitor |-> state[m].link]
           live == {m \in Monitor : monitor[m] # "absent"}
<1>1. live' = live /\ current' = current
  BY DEF SameMonitors, SameLinkColumn, StatusesKept, ReopensStale
<1>2. CASE StatusesKept
  <2>1. status' = status
    BY <1>2 DEF StatusesKept
  <2> QED
    BY <1>1, <2>1 DEF Ledger!vars
<1>3. ASSUME NEW i \in IncidentId, ReopensStale(i) PROVE Ledger!Reopen(i)
  <2>1. status' = [status EXCEPT ![i] = "open"] /\ status[i] # "absent"
    BY <1>3 DEF ReopensStale
  <2> QED
    BY <1>1, <2>1 DEF Ledger!Reopen
<1> QED
  BY <1>2, <1>3 DEF Ledger!Next

\* However many sessions overlap, checks, creations, pauses, resolutions and
\* reopenings implement the ledger too: only a stale acknowledgement and the
\* deletion of a monitor under a check break it.
THEOREM LedgerOverlapping ==
  ASSUME "acknowledge" \notin AdminOps, "delete" \notin AdminOps
  PROVE  Spec => LedgerSpec
<1>1. Init => SafeSessions
  BY DEF Init, SafeSessions, SafeRow, Idle
<1>2. TypeOK /\ SafeSessions /\ [Next]_vars => SafeSessions'
  BY SafeNext
<1>3. TypeOK /\ LoadedIncidents /\ [Next]_vars => LoadedIncidents'
  BY LoadedNext
<1>4. TypeOK /\ LinkSound /\ MailsInv /\ LoadedIncidents /\ SafeSessions /\ [Next]_vars
        => [Ledger!Next]_(Ledger!vars)
  BY OverlapEffect, LedgerStep, StaleLedgerStep DEF OverlapInv, MailsInv
<1> QED
  BY <1>1, <1>2, <1>3, <1>4, LoadedInit, LedgerInit, MailsHold, TypeCorrect, LinksSound, PTL
     DEF Spec, LedgerSpec, Ledger!Spec
=============================================================================
