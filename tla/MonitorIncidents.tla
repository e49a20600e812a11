-------------------------- MODULE MonitorIncidents --------------------------
(***************************************************************************)
(* Checks, incidents and alert mails of the service monitor, on its        *)
(* default database (SQLite).                                              *)
(*                                                                         *)
(* Every scheduled job and every request has a session of its own.  A      *)
(* session reads without a lock; its first INSERT, UPDATE or DELETE takes  *)
(* the writer lock of the database, which it keeps until it commits.  So   *)
(* an operation is two or three steps: it loads rows (and, for a check,    *)
(* waits for the probed service), then it does everything from its first   *)
(* write to its commit in one step, out of rows that may be stale by then. *)
(***************************************************************************)
EXTENDS Naturals, FiniteSets

CONSTANTS
  Scheduled,      \* threads of the scheduler, each runs one check at a time
  Manual,         \* threads serving POST /checks/run/{monitor_id}
  Admin,          \* threads serving the other administrator requests
  MonitorCount,   \* monitor ids are 1..MonitorCount
  IncidentCount,  \* incident ids are 1..IncidentCount
  AdminOps,       \* the administrator operations that happen
  SettingsAtStart,\* values the alert settings may have at first
  MaxOverlap,     \* how many sessions may be open at a time
  MaxFailures,    \* no check fails once the counter of failures is here
  MaxRollbacks    \* how many sessions may fail to commit

Checker == Scheduled \cup Manual
Session == Checker \cup Admin
Monitor == 1 .. MonitorCount
IncidentId == 1 .. IncidentCount
None == 0         \* the NULL of open_incident_id
Operations == {"create", "delete", "pause", "resume",
               "acknowledge", "resolve", "reopen", "settings"}

ASSUME ThreadsAssumption == /\ Scheduled \cap Manual = {}
                            /\ Checker \cap Admin = {}
                            /\ IsFiniteSet(Session)
ASSUME BoundsAssumption ==
  /\ MonitorCount \in Nat /\ IncidentCount \in Nat /\ MaxOverlap \in Nat
  /\ MaxFailures \in Nat /\ MaxRollbacks \in Nat
ASSUME OperationsAssumption == AdminOps \subseteq Operations
ASSUME SettingsAssumption == SettingsAtStart \subseteq BOOLEAN

VARIABLES
  monitor,        \* table monitors: is there a row, and is it paused
  state,          \* table monitor_states, one row per monitor
  incident,       \* table incidents, with the last status in its timeline
  alertsReady,    \* the effective alert configuration is enabled and complete
  sendResolved,   \* column send_resolved of the alert settings
  told,           \* per monitor, the last mail sent and how often in a row
  session,        \* what each open session has loaded
  rollbacks       \* sessions that failed to commit so far

vars == <<monitor, state, incident, alertsReady, sendResolved, told,
          session, rollbacks>>

-----------------------------------------------------------------------------
(* Rows *)

MonitorStatus == {"absent", "active", "paused"}

\* "absent" is the missing row, "none" the NULL of last_status.
StateRow == [status   : {"absent", "none", "up", "down", "paused"},
             failures : 0 .. MaxFailures,
             link     : IncidentId \cup {None},
             alert    : BOOLEAN]
FreshState == [status |-> "none", failures |-> 0, link |-> None, alert |-> FALSE]
NoState == [FreshState EXCEPT !.status = "absent"]

OpenStatuses == {"open", "acknowledged"}
LoggedStatus == {"absent", "open", "acknowledged", "resolved"}
IncidentRow == [status : LoggedStatus,
                of     : Monitor \cup {0},
                acked  : BOOLEAN,          \* acknowledged_at is set
                closed : BOOLEAN,          \* resolved_at is set
                logged : LoggedStatus]     \* the latest status in the timeline
NoIncident == [status |-> "absent", of |-> 0, acked |-> FALSE,
               closed |-> FALSE, logged |-> "absent"]
NewIncident(m) == [NoIncident EXCEPT !.status = "open", !.of = m, !.logged = "open"]

IncidentOps == {"acknowledge", "resolve", "reopen"}
SessionRow == [at   : {"idle", "probing", "recording", "syncing",
                       "patching", "deleting"} \cup IncidentOps,
               mon  : Monitor \cup {0},
               ok   : BOOLEAN,             \* outcome of the probe
               seen : StateRow,            \* monitor_states row as loaded
               inc  : IncidentId \cup {None},
               row  : IncidentRow,         \* incidents row as loaded
               want : BOOLEAN,             \* is_paused in the request
               was  : BOOLEAN]             \* is_paused as loaded
Idle == [at |-> "idle", mon |-> 0, ok |-> FALSE, seen |-> NoState, inc |-> None,
         row |-> NoIncident, want |-> FALSE, was |-> FALSE]

MailKind == {"none", "opened", "resolved"}
Letter == [kind : MailKind, times : 0 .. 2]
NoMail == [kind |-> "none", times |-> 0]

-----------------------------------------------------------------------------
(* What a flush writes *)

\* The ORM updates a column only when the value assigned to it differs from
\* the value that was loaded; otherwise the database keeps what it has.
Column(db, loaded, new) == IF new = loaded THEN db ELSE new

\* get_or_create_monitor_state: the row, inserted when it is missing.
Ensured(row) == IF row.status = "absent" THEN FreshState ELSE row

\* (faulty) Every column is written, stale or not.
AfterOutcomeOverwriting(db, seen, ok) ==
  [db EXCEPT !.status   = IF ok THEN "up" ELSE "down",
             !.failures = IF ok THEN 0 ELSE seen.failures + 1]
\* (faulty) A success takes one failure back, instead of all of them.
AfterOutcomeStepped(db, seen, ok) ==
  [db EXCEPT !.status   = IF ok THEN "up" ELSE "down",
             !.failures = IF ok THEN seen.failures - 1 ELSE seen.failures + 1]

\* update_monitor_state_from_outcome on a monitor that was not paused when it
\* was loaded, followed by the refresh: `db' is the row under the lock, `seen'
\* the row as it was loaded.
AfterOutcome(db, seen, ok) ==
  [db EXCEPT
     !.status   = Column(db.status, seen.status, IF ok THEN "up" ELSE "down"),
     !.failures = Column(db.failures, seen.failures,
                         IF ok THEN 0 ELSE seen.failures + 1)]

\* (faulty) Pausing keeps the failures, or resets only them.
AfterPauseCounting(db, seen) == [db EXCEPT !.status = "paused"]
AfterPauseUnmarked(db, seen) == [db EXCEPT !.failures = 0]

\* sync_paused_monitor_state on a paused monitor.
AfterPause(db, seen) ==
  [db EXCEPT !.status   = Column(db.status, seen.status, "paused"),
             !.failures = Column(db.failures, seen.failures, 0)]

\* (faulty) Only a monitor that was up goes down; only the first failed check
\* can be recovered from.
WentDownFromUp(seen, row) == row.status = "down" /\ seen.status = "up"
RecoveredAtOnce(seen, row) ==
  row.status = "up" /\ seen.status = "down" /\ seen.failures = 1

\* evaluate_monitor_transition: the previous status is the loaded one, the
\* new status is the refreshed one.
WentDown(seen, row)  == row.status = "down" /\ seen.status # "down"
Recovered(seen, row) == row.status = "up" /\ seen.status = "down"

\* (faulty) alert_open is taken from the row as loaded.
MailForStale(seen, row) ==
  IF alertsReady /\ WentDown(seen, row) /\ ~seen.alert THEN "opened"
  ELSE IF alertsReady /\ Recovered(seen, row) /\ seen.alert /\ sendResolved
       THEN "resolved"
       ELSE "none"

\* process_monitor_alert_transition: which mail is sent, if any.
MailFor(seen, row) ==
  IF alertsReady /\ WentDown(seen, row) /\ ~row.alert THEN "opened"
  ELSE IF alertsReady /\ Recovered(seen, row) /\ row.alert /\ sendResolved
       THEN "resolved"
       ELSE "none"

\* ... and alert_open after it: sending, well or badly, settles it.
AlertAfter(seen, row) ==
  CASE MailFor(seen, row) = "opened"   -> TRUE
    [] MailFor(seen, row) = "resolved" -> FALSE
    [] OTHER                           -> row.alert

Posted(letter, kind) ==
  [kind  |-> kind,
   times |-> IF letter.kind # kind THEN 1 ELSE 2]  \* 2 stands for "again"

\* A new monitor begins with no mail, or with that of a row it inherits.
Inherited(row) == IF row.alert THEN Posted(NoMail, "opened") ELSE NoMail

SendMail(m, kind) ==
  told' = IF kind = "none" THEN told ELSE [told EXCEPT ![m] = Posted(@, kind)]

\* acknowledge_incident, resolve_incident and reopen_incident on the row.
Acknowledged(db, seen) ==
  [db EXCEPT !.status = Column(db.status, seen.status, "acknowledged"),
             !.acked  = TRUE,
             !.logged = "acknowledged"]
Resolved(db, seen) ==
  [db EXCEPT !.status = Column(db.status, seen.status, "resolved"),
             !.closed = TRUE,
             !.logged = "resolved"]
\* (faulty) A reopened incident keeps its resolved_at.
ReopenedClosed(db, seen) ==
  [db EXCEPT !.status = Column(db.status, seen.status, "open"),
             !.acked  = Column(db.acked, seen.acked, FALSE),
             !.logged = "open"]
Reopened(db, seen) ==
  [db EXCEPT !.status = Column(db.status, seen.status, "open"),
             !.acked  = Column(db.acked, seen.acked, FALSE),
             !.closed = Column(db.closed, seen.closed, FALSE),
             !.logged = "open"]

\* (faulty) Nothing is refused.
AcceptsAll(op, row) == TRUE

\* The administrator may acknowledge or resolve what is not resolved, and
\* reopen anything; a refused request changes nothing.
Accepts(op, row) == op = "reopen" \/ row.status # "resolved"

-----------------------------------------------------------------------------
(* Sessions *)

Busy == {p \in Session : session[p].at # "idle"}
MayBegin(p) == session[p].at = "idle" /\ Cardinality(Busy) < MaxOverlap
Begin(p, row) == session' = [session EXCEPT ![p] = row]
End(p) == session' = [session EXCEPT ![p] = Idle]

\* A flush of a loaded row fails when the row is gone by now, the insert of a
\* missing row when somebody else inserted it.
RowAsLoaded(p) == (session[p].seen.status = "absent")
                    <=> (state[session[p].mon].status = "absent")

\* run_check refreshes the monitor before the commit, and fails without it;
\* a scheduled check commits all the same.
CommitReached(p) == p \in Scheduled \/ monitor[session[p].mon] # "absent"

\* Bound: the incident ids are enough for every check under way.
MayOpen(p) == /\ session[p].at = "recording" /\ ~session[p].ok
              /\ session[p].seen.status # "down"
UnusedIncidents == {i \in IncidentId : incident[i].status = "absent"}
IncidentsToSpare == Cardinality({p \in Checker : MayOpen(p)})
                      < Cardinality(UnusedIncidents)

FreshIncident(i) == \A j \in IncidentId : incident[j].status = "absent" <=> i <= j
FreshMonitor(m) == /\ \A k \in Monitor : m <= k => monitor[k] = "absent"
                   /\ m > 1 => monitor[m - 1] # "absent"

-----------------------------------------------------------------------------
(* Checks *)

Init ==
  /\ monitor = [m \in Monitor |-> IF m = 1 THEN "active" ELSE "absent"]
  /\ state = [m \in Monitor |-> IF m = 1 THEN FreshState ELSE NoState]
  /\ incident = [i \in IncidentId |-> NoIncident]
  /\ alertsReady \in SettingsAtStart
  /\ sendResolved \in SettingsAtStart
  /\ told = [m \in Monitor |-> NoMail]
  /\ session = [p \in Session |-> Idle]
  /\ rollbacks = 0

\* The scheduler runs at most one check of a monitor at a time.
NotRunning(p, m) == p \in Scheduled =>
                      \A q \in Scheduled : session[q].mon # m

\* execute_monitor_check finds the monitor active and starts the probe.
StartCheck(p, m) ==
  /\ MayBegin(p) /\ NotRunning(p, m)
  /\ monitor[m] = "active"
  /\ Begin(p, [Idle EXCEPT !.at = "probing", !.mon = m])
  /\ UNCHANGED <<monitor, state, incident, alertsReady, sendResolved, told, rollbacks>>

\* It finds the monitor paused, and loads its state to synchronise it.
StartPausedCheck(p, m) ==
  /\ MayBegin(p) /\ NotRunning(p, m)
  /\ monitor[m] = "paused"
  /\ Begin(p, [Idle EXCEPT !.at = "syncing", !.mon = m, !.seen = state[m]])
  /\ UNCHANGED <<monitor, state, incident, alertsReady, sendResolved, told, rollbacks>>

\* The probe ends, and record_check_result loads the state of the monitor.
FinishProbe(p, ok) ==
  LET m == session[p].mon IN
  /\ session[p].at = "probing"
  /\ ok \/ (state[m].failures < MaxFailures /\ IncidentsToSpare)
  /\ session' = [session EXCEPT ![p].at = "recording", ![p].ok = ok,
                                ![p].seen = state[m]]
  /\ UNCHANGED <<monitor, state, incident, alertsReady, sendResolved, told, rollbacks>>

\* (faulty) The link is the one that was loaded.
OpenIncidentStale(m, seen, row) ==
  /\ WentDown(seen, row) /\ seen.link = None
  /\ \E i \in IncidentId :
       /\ FreshIncident(i)
       /\ incident' = [incident EXCEPT ![i] = NewIncident(m)]
       /\ state' = [state EXCEPT ![m] = [row EXCEPT !.link = i,
                                                    !.alert = AlertAfter(seen, row)]]

\* process_monitor_incident_transition, then the alert: `row' is the refreshed
\* state of m.  An outage without a linked incident opens one ...
OpenIncident(m, seen, row) ==
  /\ WentDown(seen, row) /\ row.link = None
  /\ \E i \in IncidentId :
       /\ FreshIncident(i)
       /\ incident' = [incident EXCEPT ![i] = NewIncident(m)]
       /\ state' = [state EXCEPT ![m] = [row EXCEPT !.link = i,
                                                    !.alert = AlertAfter(seen, row)]]

\* ... a recovery resolves the linked incident and drops the link ...
CloseIncident(m, seen, row) ==
  /\ Recovered(seen, row) /\ row.link # None
  /\ incident' = [incident EXCEPT
       ![row.link] = IF @.status \in OpenStatuses THEN Resolved(@, @) ELSE @]
  /\ state' = [state EXCEPT ![m] = [row EXCEPT !.link = None,
                                               !.alert = AlertAfter(seen, row)]]

\* ... and everything else leaves the incident as it is, except for the text
\* of its timeline.
KeepIncident(m, seen, row) ==
  /\ ~(WentDown(seen, row) /\ row.link = None)
  /\ ~(Recovered(seen, row) /\ row.link # None)
  /\ state' = [state EXCEPT ![m] = [row EXCEPT !.alert = AlertAfter(seen, row)]]
  /\ UNCHANGED incident

\* The rows a recording session works on.
SeenRow(p) == Ensured(session[p].seen)
Refreshed(p) ==
  AfterOutcome(Ensured(state[session[p].mon]), SeenRow(p), session[p].ok)

\* record_check_result from its first write to the commit.
RecordCheck(p) ==
  LET m == session[p].mon IN
  /\ session[p].at = "recording" /\ RowAsLoaded(p) /\ CommitReached(p)
  /\ \/ OpenIncident(m, SeenRow(p), Refreshed(p))
     \/ CloseIncident(m, SeenRow(p), Refreshed(p))
     \/ KeepIncident(m, SeenRow(p), Refreshed(p))
  /\ SendMail(m, MailFor(SeenRow(p), Refreshed(p)))
  /\ End(p)
  /\ UNCHANGED <<monitor, alertsReady, sendResolved, rollbacks>>

\* The same, but the commit fails after the mail has left: the writes are
\* rolled back, the mail is not.
LoseCheck(p) ==
  /\ session[p].at = "recording" /\ RowAsLoaded(p)
  /\ \/ ~CommitReached(p) /\ UNCHANGED rollbacks
     \/ rollbacks < MaxRollbacks /\ rollbacks' = rollbacks + 1
  /\ SendMail(session[p].mon, MailFor(SeenRow(p), Refreshed(p)))
  /\ End(p)
  /\ UNCHANGED <<monitor, state, incident, alertsReady, sendResolved>>

\* sync_paused_monitor_state from a check of a paused monitor.
SyncPaused(p) ==
  LET m == session[p].mon IN
  /\ session[p].at = "syncing" /\ RowAsLoaded(p) /\ CommitReached(p)
  /\ state' = [state EXCEPT ![m] = AfterPause(Ensured(@), SeenRow(p))]
  /\ End(p)
  /\ UNCHANGED <<monitor, incident, alertsReady, sendResolved, told, rollbacks>>

\* A flush fails because the row it needs is gone (or is there after all).
AbortCheck(p) ==
  /\ \/ session[p].at \in {"recording", "syncing"} /\ ~RowAsLoaded(p)
     \/ session[p].at = "syncing" /\ ~CommitReached(p)
  /\ End(p)
  /\ UNCHANGED <<monitor, state, incident, alertsReady, sendResolved, told, rollbacks>>

-----------------------------------------------------------------------------
(* Administrator requests *)

\* POST /monitors: the database reuses the id after the last one, and a state
\* row somebody left there is kept.
CreateMonitor(q, paused) ==
  /\ MayBegin(q)
  /\ \E m \in Monitor :
       /\ FreshMonitor(m)
       /\ monitor' = [monitor EXCEPT ![m] = IF paused THEN "paused" ELSE "active"]
       /\ state' = [state EXCEPT ![m] = IF paused THEN AfterPause(Ensured(@), Ensured(@))
                                                  ELSE Ensured(@)]
       /\ told' = [told EXCEPT ![m] = Inherited(state[m])]
  /\ UNCHANGED <<incident, alertsReady, sendResolved, session, rollbacks>>

\* PATCH /monitors/{id} with is_paused, in two steps.
LoadMonitor(q, m, want) ==
  /\ MayBegin(q)
  /\ monitor[m] # "absent"
  /\ Begin(q, [Idle EXCEPT !.at = "patching", !.mon = m, !.want = want,
                           !.was = (monitor[m] = "paused")])
  /\ UNCHANGED <<monitor, state, incident, alertsReady, sendResolved, told, rollbacks>>

PatchMonitor(q) ==
  LET m == session[q].mon
      paused == Column(monitor[m] = "paused", session[q].was, session[q].want)
  IN
  /\ session[q].at = "patching"
  /\ IF monitor[m] = "absent"
     THEN UNCHANGED <<monitor, state>>   \* the UPDATE finds no row and fails
     ELSE /\ monitor' = [monitor EXCEPT ![m] = IF paused THEN "paused" ELSE "active"]
          /\ state' = [state EXCEPT ![m] = IF paused
                                           THEN AfterPause(Ensured(@), Ensured(@))
                                           ELSE Ensured(@)]
  /\ End(q)
  /\ UNCHANGED <<incident, alertsReady, sendResolved, told, rollbacks>>

\* DELETE /monitors/{id}: the ORM deletes the monitor and its state by key.
\* SQLite does not enforce foreign keys: the incidents stay as they are.
LoadForDelete(q, m) ==
  /\ MayBegin(q)
  /\ monitor[m] # "absent"
  /\ Begin(q, [Idle EXCEPT !.at = "deleting", !.mon = m])
  /\ UNCHANGED <<monitor, state, incident, alertsReady, sendResolved, told, rollbacks>>

\* (faulty) Nothing deletes the state with its monitor.
StateKept(m) == state
StateAfterDelete(m) == [state EXCEPT ![m] = NoState]

DeleteMonitor(q) ==
  LET m == session[q].mon IN
  /\ session[q].at = "deleting"
  /\ monitor' = [monitor EXCEPT ![m] = "absent"]
  /\ state' = StateAfterDelete(m)
  /\ End(q)
  /\ UNCHANGED <<incident, alertsReady, sendResolved, told, rollbacks>>

\* PATCH /incidents/{id}: load the incident, then change it.
LoadIncident(q, i, op) ==
  /\ MayBegin(q)
  /\ incident[i].status # "absent" /\ Accepts(op, incident[i])
  /\ Begin(q, [Idle EXCEPT !.at = op, !.inc = i, !.row = incident[i]])
  /\ UNCHANGED <<monitor, state, incident, alertsReady, sendResolved, told, rollbacks>>

Acknowledge(q) ==
  /\ session[q].at = "acknowledge"
  /\ incident' = [incident EXCEPT ![session[q].inc] = Acknowledged(@, session[q].row)]
  /\ End(q)
  /\ UNCHANGED <<monitor, state, alertsReady, sendResolved, told, rollbacks>>

\* (faulty) A manual resolution leaves the link.
StillLinked(m, i) == state[m]

\* resolve_incident also drops the link of the monitor, if it is to this one.
Unlinked(m, i) == IF state[m].link = i THEN [state[m] EXCEPT !.link = None] ELSE state[m]

Resolve(q) ==
  LET i == session[q].inc
      m == incident[i].of
  IN
  /\ session[q].at = "resolve"
  /\ incident' = [incident EXCEPT ![i] = Resolved(@, session[q].row)]
  /\ state' = [state EXCEPT ![m] = Unlinked(m, i)]
  /\ End(q)
  /\ UNCHANGED <<monitor, alertsReady, sendResolved, told, rollbacks>>

\* reopen_incident does not link the incident to its monitor again.
Reopen(q) ==
  /\ session[q].at = "reopen"
  /\ incident' = [incident EXCEPT ![session[q].inc] = Reopened(@, session[q].row)]
  /\ End(q)
  /\ UNCHANGED <<monitor, state, alertsReady, sendResolved, told, rollbacks>>

\* PATCH /settings/alerts.
SetAlerts(q, ready, resolvedToo) ==
  /\ MayBegin(q)
  /\ alertsReady' = ready /\ sendResolved' = resolvedToo
  /\ UNCHANGED <<monitor, state, incident, told, session, rollbacks>>

\* A session that fails before its first write, or whose writes are rolled
\* back with no mail sent: the writer lock was not to be had in time.
Rollback(p) ==
  /\ session[p].at # "idle" /\ rollbacks < MaxRollbacks
  /\ rollbacks' = rollbacks + 1
  /\ End(p)
  /\ UNCHANGED <<monitor, state, incident, alertsReady, sendResolved, told>>

-----------------------------------------------------------------------------
CheckStep(p) ==
  \/ \E ok \in BOOLEAN : FinishProbe(p, ok)
  \/ RecordCheck(p) \/ LoseCheck(p) \/ SyncPaused(p) \/ AbortCheck(p)

Request(q) ==
  \/ "create" \in AdminOps /\ \E paused \in BOOLEAN : CreateMonitor(q, paused)
  \/ "pause" \in AdminOps /\ \E m \in Monitor : LoadMonitor(q, m, TRUE)
  \/ "resume" \in AdminOps /\ \E m \in Monitor : LoadMonitor(q, m, FALSE)
  \/ "delete" \in AdminOps /\ \E m \in Monitor : LoadForDelete(q, m)
  \/ \E op \in AdminOps \cap IncidentOps, i \in IncidentId : LoadIncident(q, i, op)
  \/ "settings" \in AdminOps /\ \E r, s \in BOOLEAN : SetAlerts(q, r, s)

Reply(q) ==
  PatchMonitor(q) \/ DeleteMonitor(q) \/ Acknowledge(q) \/ Resolve(q) \/ Reopen(q)

Next ==
  \/ \E p \in Checker, m \in Monitor : StartCheck(p, m) \/ StartPausedCheck(p, m)
  \/ \E p \in Checker : CheckStep(p)
  \/ \E q \in Admin : Request(q) \/ Reply(q)
  \/ \E p \in Session : Rollback(p)

Spec == Init /\ [][Next]_vars

\* The interval trigger fires again and again, the HTTP client has a timeout
\* and the database a busy timeout: a scheduled check starts and ends.
Fairness == \A p \in Scheduled :
              /\ \A m \in Monitor : WF_vars(StartCheck(p, m))
              /\ WF_vars(CheckStep(p))
FairSpec == Spec /\ Fairness
-----------------------------------------------------------------------------
(* Properties *)

\* A session that checks or changes a monitor has one, a session that changes
\* an incident has one, and a failed check can still be counted.
SessionRowOK(row) ==
  /\ row.at \in {"probing", "recording", "syncing", "patching", "deleting"}
       => row.mon \in Monitor
  /\ row.at \in IncidentOps => row.inc \in IncidentId
  /\ row.at = "recording" /\ ~row.ok => row.seen.failures < MaxFailures

SessionOK == \A p \in Session : SessionRowOK(session[p])

\* The rows, the sessions and the counters have their types.
TypeOK ==
  /\ monitor \in [Monitor -> MonitorStatus]
  /\ state \in [Monitor -> StateRow]
  /\ incident \in [IncidentId -> IncidentRow]
  /\ alertsReady \in BOOLEAN /\ sendResolved \in BOOLEAN
  /\ told \in [Monitor -> Letter]
  /\ session \in [Session -> SessionRow]
  /\ rollbacks \in 0 .. MaxRollbacks
  /\ SessionOK

\* The columns of an incident tell one story: its timeline ends with the
\* status of the row, resolved_at is set exactly while it is resolved, and an
\* acknowledged incident says when.
Coherent(row) ==
  /\ row.logged = row.status
  /\ row.closed <=> row.status = "resolved"
  /\ row.status = "acknowledged" => row.acked

\* An incident stops telling one story only by an acknowledgement or a reopening
\* that found it in another status, or otherwise closed, than it is when written
\* (acknowledge_incident and reopen_incident): neither a resolution, however old
\* what it loaded, nor the recovery of the monitor ever does it.
CoherentUnlessStale ==
  [][\A i \in IncidentId : Coherent(incident[i]) /\ ~Coherent(incident'[i]) =>
       \E q \in Admin :
         /\ session[q].at \in {"acknowledge", "reopen"} /\ session[q].inc = i
         /\ \/ session[q].row.status # incident[i].status
            \/ session[q].row.closed # incident[i].closed
         /\ session'[q].at = "idle"]_vars

\* p ends, in this step, a check of m that had its outcome.
Records(p, m) ==
  session[p].at = "recording" /\ session[p].mon = m /\ session'[p].at = "idle"

\* consecutive_failures and last_status are written together: a monitor that is
\* up, paused or unchecked has no failures, one that is down has some.
FailuresFit(row) == row.failures > 0 <=> row.status = "down"

\* They part only by a check of which one of the two was changed by another session
\* since it loaded the row (AfterOutcome writes them column by column): no pause,
\* creation, deletion or resolution, at any moment, does it.
FailuresFitUnlessStale ==
  [][\A m \in Monitor : FailuresFit(state[m]) /\ ~FailuresFit(state'[m]) =>
       \E p \in Checker :
         /\ session[p].at \in {"recording", "syncing"} /\ session[p].mon = m
         /\ \/ session[p].seen.status # state[m].status
            \/ session[p].seen.failures # state[m].failures
         /\ session'[p].at = "idle"]_vars

\* monitor_states has a row for exactly the monitors there are, but for the row that
\* a scheduled check leaves which looked for it only after the deletion of both
\* (get_or_create_monitor_state): no check of a request, no check that had loaded the
\* row, and no administrator ever parts the two.
StateHasMonitor(m) == state[m].status = "absent" <=> monitor[m] = "absent"
StateUnlessOutlived ==
  [][\A m \in Monitor : StateHasMonitor(m) /\ ~StateHasMonitor(m)' =>
       \E p \in Scheduled :
         Records(p, m) /\ session[p].seen.status = "absent" /\ monitor[m] = "absent"]_vars

\* A paused monitor shows as paused, unless a check records that had begun to
\* probe it before the pause (is_paused is read once): whatever pauses, resumptions,
\* deletions and checks of the paused monitor overlap.
ShowsPaused(m) == monitor[m] = "paused" => state[m].status = "paused"
PausedUnlessProbed ==
  [][\A m \in Monitor : ShowsPaused(m) /\ ~ShowsPaused(m)' =>
       \E p \in Checker : Records(p, m) /\ monitor[m] = "paused"]_vars

\* open_incident_id names an unresolved incident of this very monitor, and no
\* two monitors the same one: neither the recovery, nor a manual resolution,
\* nor a stale acknowledgement leaves a link behind.
LinkSound ==
  \A m \in Monitor : state[m].link # None =>
    /\ incident[state[m].link].status \in OpenStatuses
    /\ incident[state[m].link].of = m

\* Whenever a monitor turns down, it has an incident from that very commit on:
\* the transition is not missed because the state was loaded too early.
OutageOpensIncident ==
  [][\A m \in Monitor :
       state[m].status # "down" /\ state'[m].status = "down"
         => state'[m].link # None]_vars

\* Whenever a monitor turns from down to up, the incident it was linked to is
\* resolved in the same commit, unless the check had found the monitor unchecked or
\* paused, so that it knows of no outage (evaluate_monitor_transition): one that had
\* found it down, or up, never passes over the incident.
ClosesIncident(m) ==
  state'[m].link = None /\ incident'[state[m].link].status = "resolved"
RecoveryUnlessUnseen ==
  [][\A m \in Monitor :
       /\ state[m].status = "down" /\ state'[m].status = "up" /\ state[m].link # None
       /\ ~ClosesIncident(m)
       => \E p \in Checker :
            Records(p, m) /\ session[p].seen.status \in {"none", "paused"}]_vars

\* While nobody resolves incidents by hand, a monitor that is down has one.
DownHasIncident ==
  \A m \in Monitor : state[m].status = "down" => state[m].link # None

\* One incident per outage: no incident is opened for a monitor that is down
\* already.
OneIncidentPerOutage ==
  [][\A i \in IncidentId :
       incident[i].status = "absent" /\ incident'[i].status # "absent"
         => state[incident'[i].of].status # "down"]_vars

\* alert_open says which mail was sent last, and no mail is sent twice in a
\* row, however the checks of the monitor overlap.
MailsAlternate ==
  \A m \in Monitor : monitor[m] # "absent" =>
    /\ state[m].alert <=> told[m].kind = "opened"
    /\ told[m].times < 2

\* A monitor that is up has no open incident linked to it.
UpHasNoIncident ==
  \A m \in Monitor : state[m].status = "up" => state[m].link = None

\* While alerts are on, the mail of an outage leaves with its first failed check.
OutageIsMailed ==
  [][\A m \in Monitor :
       alertsReady /\ state[m].status # "down" /\ state'[m].status = "down"
         => told'[m] # told[m]]_vars

\* When no more check fails, the monitors are sooner or later rid of their
\* incidents, whatever the administrator does to these meanwhile.
ChecksSucceed == \A p \in Checker : session[p].at = "recording" => session[p].ok
OutageEnds == <>[]ChecksSucceed => <>[](\A m \in Monitor : state[m].link = None)

\* What the incident service promises, and the model keeps: an incident is current
\* for at most one monitor, from its opening to its end (create_incident,
\* resolve_incident and the transitions of a check, one session at a time).
Ledger == INSTANCE IncidentLedger WITH
  status  <- [i \in IncidentId |-> incident[i].status],
  current <- [m \in Monitor |-> state[m].link],
  live    <- {m \in Monitor : monitor[m] # "absent"}

LedgerSpec == Ledger!Spec
=============================================================================
