--------------------------- MODULE MonitorRegistry ---------------------------
(***************************************************************************)
(* The table of monitors as the API creates, updates and deletes it, with  *)
(* the limit on their number and the range of expected status codes, and   *)
(* what the checks of these monitors leave in their states and incidents.  *)
(*                                                                         *)
(* A request reads without a lock and writes later; between the two it     *)
(* resolves the name in the URL.  A check is one step here: its overlaps   *)
(* are the subject of MonitorIncidents.                                    *)
(***************************************************************************)
EXTENDS Integers, FiniteSets

CONSTANTS
  Admin,          \* threads serving administrator requests
  Creations,      \* the payloads of POST /monitors that happen
  Updates,        \* the payloads of PATCH /monitors/{id} that happen
  MonitorCount,   \* monitor ids are 1..MonitorCount
  MaxMonitors,    \* the setting MAX_MONITORS
  StatusCodes,    \* what a probed service may answer
  MaxIncidents    \* how many incidents checks may open

Monitor == 1 .. MonitorCount
NoAnswer == 0                     \* the probe failed before any status code
DefaultRow == [min |-> 200, max |-> 399, paused |-> FALSE]
                                  \* a payload gives some of these columns
Columns == DOMAIN DefaultRow
Values(c) == IF c = "paused" THEN BOOLEAN ELSE Nat

ASSUME RegistryAdmins == IsFiniteSet(Admin) /\ Admin # {}
ASSUME RegistryBounds == MonitorCount \in Nat /\ MaxMonitors \in Nat /\ MaxIncidents \in Nat
ASSUME RegistryPayloads ==
  \A p \in Creations \cup Updates :
    DOMAIN p \subseteq Columns /\ \A c \in DOMAIN p : p[c] \in Values(c)

VARIABLES
  live,       \* ids of the rows of table monitors
  row,        \* their columns; DefaultRow where there is no monitor
  status,     \* monitor_states.last_status
  linked,     \* monitors with monitor_states.open_incident_id set
  incidents,  \* how many incidents there are, and how many of them are open
  request     \* what each administrator thread is doing

registryVars == <<live, row, status, linked, incidents, request>>

Idle == [at |-> "idle", mon |-> 0, payload |-> <<>>, set |-> <<>>]

-----------------------------------------------------------------------------
(* Payloads *)

\* The columns of a row, or those that a payload gives instead.
Given(p, was) == [c \in Columns |-> IF c \in DOMAIN p THEN p[c] ELSE was[c]]

\* The validator of expected_status_max runs only if the payload gives one.
CreationAccepted(p) == "max" \in DOMAIN p => p.max >= Given(p, DefaultRow).min

\* An update is validated against the row as loaded.
UpdateAccepted(p, was) == Given(p, was).max >= Given(p, was).min

\* (faulty) The UPDATE sets the whole row, as loaded but for the payload.
WholeRow(p, was) == Given(p, was)
\* The UPDATE sets the columns whose value is not the loaded one.
Changed(p, was) == [c \in {d \in DOMAIN p : p[d] # was[d]} |-> p[c]]

\* (faulty) The limit is noticed one monitor too late.
RoomForOneMore(n) == n <= MaxMonitors
\* count_monitors is below the limit.
HasRoom(n) == n < MaxMonitors

\* SQLite gives a new monitor the id after the largest one.
FreshMonitor(m) == (\A k \in live : k < m) /\ (m > 1 => m - 1 \in live)

\* sync_paused_monitor_state
Synced(r, s) == IF r.paused THEN "paused" ELSE s

Init ==
  /\ live = {} /\ linked = {}
  /\ row = [m \in Monitor |-> DefaultRow]
  /\ status = [m \in Monitor |-> "unknown"]
  /\ incidents = [total |-> 0, open |-> 0]
  /\ request = [q \in Admin |-> Idle]

-----------------------------------------------------------------------------
(* Requests *)

\* POST /monitors counts the monitors ...
CountMonitors(q, p) ==
  /\ request[q].at = "idle" /\ CreationAccepted(p)
  /\ HasRoom(Cardinality(live))
  /\ request' = [request EXCEPT ![q] = [Idle EXCEPT !.at = "counted", !.payload = p]]
  /\ UNCHANGED <<live, row, status, linked, incidents>>

\* ... looks the name in the URL up, and inserts another one.
CreateMonitor(q) ==
  LET new == Given(request[q].payload, DefaultRow) IN
  /\ request[q].at = "counted"
  /\ \E m \in Monitor \ live :
       /\ FreshMonitor(m)
       /\ live' = live \cup {m}
       /\ row' = [row EXCEPT ![m] = new]
       /\ status' = [status EXCEPT ![m] = Synced(new, "unknown")]
  /\ request' = [request EXCEPT ![q] = Idle]
  /\ UNCHANGED <<linked, incidents>>

\* PATCH /monitors/{id} loads the row, validates, looks the name up ...
LoadMonitor(q, m, p) ==
  /\ request[q].at = "idle" /\ m \in live /\ UpdateAccepted(p, row[m])
  /\ request' = [request EXCEPT ![q] = [at |-> "loaded", mon |-> m, payload |-> p,
                                              set |-> Changed(p, row[m])]]
  /\ UNCHANGED <<live, row, status, linked, incidents>>

\* ... and writes.
UpdateMonitor(q) ==
  LET r == request[q]
      new == Given(r.set, row[r.mon])
  IN
  /\ r.at = "loaded" /\ r.mon \in live
  /\ row' = [row EXCEPT ![r.mon] = new]
  /\ status' = IF "paused" \in DOMAIN r.payload
               THEN [status EXCEPT ![r.mon] = Synced(new, @)] ELSE status
  /\ request' = [request EXCEPT ![q] = Idle]
  /\ UNCHANGED <<live, linked, incidents>>

\* DELETE /monitors/{id} loads the monitor ...
LoadForDelete(q, m) ==
  /\ request[q].at = "idle" /\ m \in live
  /\ request' = [request EXCEPT ![q] = [Idle EXCEPT !.at = "deleting", !.mon = m]]
  /\ UNCHANGED <<live, row, status, linked, incidents>>

\* (faulty) Its incidents go with it.
IncidentsDeleted == [total |-> 0, open |-> 0]
\* ON DELETE SET NULL: incidents outlive their monitor.
IncidentsAfterDelete == incidents

\* ... and deletes it with its state.
DeleteMonitor(q) ==
  LET m == request[q].mon IN
  /\ request[q].at = "deleting" /\ m \in live
  /\ live' = live \ {m} /\ linked' = linked \ {m}
  /\ row' = [row EXCEPT ![m] = DefaultRow]
  /\ status' = [status EXCEPT ![m] = "unknown"]
  /\ incidents' = IncidentsAfterDelete
  /\ request' = [request EXCEPT ![q] = Idle]

\* The name in the URL is refused, or the row is gone, or the database fails.
GiveUp(q) ==
  /\ request[q].at # "idle"
  /\ request' = [request EXCEPT ![q] = Idle]
  /\ UNCHANGED <<live, row, status, linked, incidents>>

-----------------------------------------------------------------------------
(* Checks and incidents *)

\* _evaluate_success
Success(r, code) == r.min <= code /\ code <= r.max

\* A check that fails marks its monitor down and opens an incident if none is linked.
FailCheck(m, code) ==
  /\ m \in live /\ ~row[m].paused /\ ~Success(row[m], code)
  /\ status' = [status EXCEPT ![m] = "down"]
  /\ IF status[m] # "down" /\ m \notin linked
     THEN /\ incidents.total < MaxIncidents
          /\ incidents' = [total |-> incidents.total + 1, open |-> incidents.open + 1]
          /\ linked' = linked \cup {m}
     ELSE UNCHANGED <<incidents, linked>>
  /\ UNCHANGED <<live, row, request>>

\* One that succeeds marks it up and, after an outage, resolves that incident.
PassCheck(m, code) ==
  /\ m \in live /\ ~row[m].paused /\ Success(row[m], code)
  /\ status' = [status EXCEPT ![m] = "up"]
  /\ IF status[m] = "down" /\ m \in linked
     THEN /\ incidents' = [incidents EXCEPT !.open = @ - 1]
          /\ linked' = linked \ {m}
     ELSE UNCHANGED <<incidents, linked>>
  /\ UNCHANGED <<live, row, request>>

\* PATCH /incidents/{id} to resolved, for an incident that some monitor links,
\* or for one that none does any more.
ResolveIncident ==
  /\ \/ \E m \in linked : linked' = linked \ {m}
     \/ incidents.open > Cardinality(linked) /\ UNCHANGED linked
  /\ incidents' = [incidents EXCEPT !.open = @ - 1]
  /\ UNCHANGED <<live, row, status, request>>

\* PATCH /incidents/{id} to open.
ReopenIncident ==
  /\ incidents.open < incidents.total
  /\ incidents' = [incidents EXCEPT !.open = @ + 1]
  /\ UNCHANGED <<live, row, status, linked, request>>

-----------------------------------------------------------------------------
Serve(q) ==
  \/ \E p \in Creations : CountMonitors(q, p)
  \/ CreateMonitor(q)
  \/ \E m \in Monitor, p \in Updates : LoadMonitor(q, m, p)
  \/ UpdateMonitor(q)
  \/ \E m \in Monitor : LoadForDelete(q, m)
  \/ DeleteMonitor(q)
  \/ GiveUp(q)

Check(m) == \E code \in StatusCodes \cup {NoAnswer} : FailCheck(m, code) \/ PassCheck(m, code)

RegistryNext ==
  \/ \E q \in Admin : Serve(q)
  \/ \E m \in Monitor : Check(m)
  \/ ResolveIncident \/ ReopenIncident

RegistrySpec == Init /\ [][RegistryNext]_registryVars

-----------------------------------------------------------------------------
(* Properties *)

\* Rows, states and requests have their types; a linked incident is open.
RegistryTypeOK ==
  /\ live \subseteq Monitor /\ linked \subseteq live
  /\ row \in [Monitor -> [min : Nat, max : Nat, paused : BOOLEAN]]
  /\ status \in [Monitor -> {"unknown", "up", "down", "paused"}]
  /\ incidents.total \in 0 .. MaxIncidents
  /\ Cardinality(linked) <= incidents.open /\ incidents.open <= incidents.total
  /\ \A q \in Admin : request[q].at \in {"idle", "counted", "loaded", "deleting"}

\* MAX_MONITORS may be exceeded, since monitors are counted before the insert,
\* but at most by the other requests that were under way with the last one.
MonitorCountBounded == Cardinality(live) <= MaxMonitors + Cardinality(Admin) - 1

\* Updates of different columns that overlap do not undo each other: a column of
\* a monitor changes only in a request whose payload gives it.
UpdateKeepsOthers ==
  [][\A m \in live \cap live' : \A c \in Columns :
       row'[m][c] # row[m][c] =>
         \E q \in Admin : request[q].mon = m /\ c \in DOMAIN request[q].payload]_registryVars

\* The range of expected status codes is not empty, or no check could succeed.
RangeSound == \A m \in live : row[m].min <= row[m].max
=============================================================================
