---------------------------- MODULE StatusPages -----------------------------
(***************************************************************************)
(* The public status page: its components, the monitors linked to them,    *)
(* and a visitor who reads the page in many small queries while checks and *)
(* requests change what it shows.                                          *)
(*                                                                         *)
(* SQLite gives the visitor no snapshot: each query of his request sees    *)
(* what is committed at that moment.  The default page is created before   *)
(* the first request and never deleted; its title, the order of its        *)
(* components and the incidents it lists are left out.                     *)
(***************************************************************************)
EXTENDS Naturals, FiniteSets

CONSTANTS
  Admin,           \* threads serving administrator requests
  MonitorCount,    \* monitor ids are 1..MonitorCount
  ComponentCount,  \* component ids are 1..ComponentCount
  LinkCount,       \* ids of links are 1..LinkCount
  MaxOverlap,      \* how many requests, a visit included, may be open at a time
  MaxChanges       \* how often the tables change during a visit

Monitor == 1 .. MonitorCount
Component == 1 .. ComponentCount
LinkId == 1 .. LinkCount

ASSUME StatusPagesBounds ==
  /\ MonitorCount \in Nat /\ ComponentCount \in Nat
  /\ LinkCount \in Nat /\ MaxOverlap \in Nat /\ MaxChanges \in Nat

VARIABLES
  monitor,    \* table monitors, with last_status of monitor_states
  component,  \* table status_page_components
  link,       \* table status_page_component_monitors
  request,    \* what each administrator thread has loaded
  visit       \* the request of the visitor

vars == <<monitor, component, link, request, visit>>

-----------------------------------------------------------------------------
(* Rows *)

MonitorRow == [at   : {"absent", "active", "paused"},
               last : {"none", "up", "down", "paused"}]
NoMonitor == [at |-> "absent", last |-> "none"]
LinkRow == [comp : Component \cup {0}, mon : Monitor \cup {0}]
NoLink == [comp |-> 0, mon |-> 0]

RequestRow == [at   : {"idle", "deleting", "adding", "removing"},
               comp : Component \cup {0},
               mon  : Monitor \cup {0},
               rows : SUBSET LinkId,     \* the links to delete, as loaded
               had  : SUBSET LinkId]     \* history: links the component had then
Idle == [at |-> "idle", comp |-> 0, mon |-> 0, rows |-> {}, had |-> {}]

MonitorPublicStatus == {"up", "down", "unknown", "paused"}
PublicStatus == {"operational", "degraded", "unknown", "outage"}

\* A visit has listed `todo', is reading the monitors of one component into
\* `got' and remembers those of the one before; the last four fields
\* are history, for the properties and their bound.
Reading == [Monitor -> MonitorPublicStatus \cup {"unlinked", "pending"}]
Nothing == [m \in Monitor |-> "unlinked"]
VisitRow == [at        : {"idle", "counting", "empty", "listing", "between", "reading", "answered"},
             todo      : SUBSET Component,
             got       : Reading,
             done      : SUBSET PublicStatus,
             answer    : PublicStatus \cup {"none", "sample"},
             stillDown : SUBSET LinkRow,  \* links to what is active and down throughout
             neverUp   : SUBSET LinkRow,  \* ... or was never checked
             onceDown  : BOOLEAN,         \* some monitor was down at a moment
             changes   : 0 .. MaxChanges] \* of the tables so far
NoVisit == [at |-> "idle", todo |-> {}, got |-> Nothing, done |-> {}, answer |-> "none",
            stillDown |-> {}, neverUp |-> {}, onceDown |-> FALSE, changes |-> 0]

-----------------------------------------------------------------------------
(* Aggregation *)

\* (faulty) A status that is not set is shown as it is; an unchecked monitor
\* counts as down.
RawStatus(row) == IF row.at = "paused" THEN "paused" ELSE row.last
UncheckedIsDown(row) ==
  IF row.at = "paused" \/ row.last = "paused" THEN "paused"
  ELSE IF row.last = "up" THEN "up" ELSE "down"

\* _monitor_runtime_status
RuntimeStatus(row) ==
  IF row.at = "paused" \/ row.last = "paused" THEN "paused"
  ELSE IF row.last = "none" THEN "unknown" ELSE row.last

\* (faulty) Unchecked monitors do not degrade a component.
ComponentStatusLenient(statuses) ==
  LET active == statuses \ {"paused"} IN
  CASE "down" \in active -> "outage"
    [] active = {} \/ active = {"unknown"} -> "unknown"
    [] OTHER -> "operational"

\* aggregate_component_status, of the set of its monitors' statuses.
ComponentStatus(statuses) ==
  LET active == statuses \ {"paused"} IN
  CASE "down" \in active              -> "outage"
    [] active \in {{}, {"unknown"}}   -> "unknown"
    [] active = {"up", "unknown"}     -> "degraded"
    [] active = {"up"}                -> "operational"

\* (faulty) Not to know is the worst.
SeverityUnknownWorst(s) ==
  CASE s = "operational" -> 0 [] s = "degraded" -> 1 [] s = "outage" -> 2 [] s = "unknown" -> 3
Severity(s) ==
  CASE s = "operational" -> 0 [] s = "degraded" -> 1 [] s = "unknown" -> 2 [] s = "outage" -> 3

\* aggregate_overall_status
OverallStatus(statuses) ==
  IF statuses = {} THEN "unknown"
  ELSE CHOOSE s \in statuses : \A t \in statuses : Severity(t) <= Severity(s)

-----------------------------------------------------------------------------
(* What is linked *)

Exists(m) == monitor[m].at # "absent"
UsedLinks == {k \in LinkId : link[k] # NoLink}
LinksOf(c) == {k \in LinkId : link[k].comp = c}
LinksBetween(c, m) == {k \in LinksOf(c) : link[k].mon = m}
LinkedTo(c) == {m \in Monitor : Exists(m) /\ LinksBetween(c, m) # {}}

\* Links of the page to active monitors that are not up.
NotUpNow == {n \in {link[k] : k \in UsedLinks} :
               /\ n.comp \in component /\ monitor[n.mon].at = "active"
               /\ monitor[n.mon].last \in {"down", "none"}}
DownNow == {n \in NotUpNow : monitor[n.mon].last = "down"}
SomeDown == \E m \in Monitor : monitor[m].last = "down"

\* A step of the visit that asks the database nothing needs no change before it.
QueryIsNext ==
  CASE visit.at = "between" -> visit.todo # {}
    [] visit.at = "reading" -> \E m \in Monitor : visit.got[m] = "pending"
    [] OTHER                -> visit.at \in {"empty", "listing"}

\* Bound: during a visit the tables change, and requests go on, only before
\* a step of it that queries, and only so often.
MayChange == visit.at = "idle" \/ (QueryIsNext /\ visit.changes < MaxChanges)

\* What a change to the tables adds to the history of the visit.
Watch ==
  IF visit.at = "idle" THEN UNCHANGED visit
  ELSE visit' = [visit EXCEPT !.stillDown = @ \cap DownNow',
                              !.neverUp   = @ \cap NotUpNow',
                              !.onceDown  = @ \/ SomeDown',
                              !.changes   = @ + 1]

\* Bound: the requests that are open, of administrators and of the visitor.
MayBegin == Cardinality({q \in Admin : request[q].at # "idle"})
              + (IF visit.at = "idle" THEN 0 ELSE 1) < MaxOverlap

\* SQLite gives a new row the id after the last one.
NextId(used, id) == (\A k \in used : k < id) /\ (id > 1 => id - 1 \in used)
Without(rows) == [k \in LinkId |-> IF k \in rows THEN NoLink ELSE link[k]]

Init ==
  /\ monitor = [m \in Monitor |-> NoMonitor]
  /\ component = Component \cap {1}
  /\ link = [k \in LinkId |-> NoLink]
  /\ request = [q \in Admin |-> Idle]
  /\ visit = NoVisit

-----------------------------------------------------------------------------
(* Monitors: what requests and checks commit *)

AddMonitor(m, status) ==
  /\ NextId({k \in Monitor : Exists(k)}, m)
  /\ monitor' = [monitor EXCEPT ![m] = [at   |-> status,
                                       last |-> IF status = "paused" THEN "paused" ELSE "none"]]
  /\ UNCHANGED <<component, link, request>>
  /\ Watch

\* The links of the monitor stay: SQLite does not enforce foreign keys.
RemoveMonitor(m) ==
  /\ Exists(m)
  /\ monitor' = [monitor EXCEPT ![m] = NoMonitor]
  /\ UNCHANGED <<component, link, request>>
  /\ Watch

PauseMonitor(m) ==
  /\ Exists(m)
  /\ monitor' = [monitor EXCEPT ![m] = [at |-> "paused", last |-> "paused"]]
  /\ UNCHANGED <<component, link, request>>
  /\ Watch

\* Resuming leaves last_status to the next check.
ResumeMonitor(m) ==
  /\ monitor[m].at = "paused"
  /\ monitor' = [monitor EXCEPT ![m].at = "active"]
  /\ UNCHANGED <<component, link, request>>
  /\ Watch

\* A check may end after its monitor was paused.
RecordCheck(m, last) ==
  /\ Exists(m)
  /\ monitor' = [monitor EXCEPT ![m].last = last]
  /\ UNCHANGED <<component, link, request>>
  /\ Watch

-----------------------------------------------------------------------------
(* Administrator requests: each loads rows, then writes and commits *)

Begin(q, row) ==
  /\ request[q].at = "idle" /\ MayBegin
  /\ request' = [request EXCEPT ![q] = row]
  /\ UNCHANGED <<monitor, component, link, visit>>
End(q) == request' = [request EXCEPT ![q] = Idle]

\* POST /components
CreateComponent(q, c) ==
  /\ request[q].at = "idle" /\ NextId(component, c)
  /\ component' = component \cup {c}
  /\ UNCHANGED <<monitor, link, request>>
  /\ Watch

\* (faulty) The links are not deleted with their component.
NoCascade(c) == {}
\* The cascade of session.delete, over the links there are at that moment.
Cascade(c) == LinksOf(c)

\* DELETE /components/{id}
LoadComponent(q, c) ==
  /\ c \in component
  /\ Begin(q, [Idle EXCEPT !.at = "deleting", !.comp = c, !.rows = Cascade(c),
                           !.had = LinksOf(c)])

DeleteComponent(q) ==
  /\ request[q].at = "deleting"
  /\ component' = component \ {request[q].comp}
  /\ link' = Without(request[q].rows)
  /\ UNCHANGED <<monitor>>
  /\ Watch /\ End(q)

\* POST /components/{id}/monitors/{id}: looks for the component, the monitor
\* and the link; if they are linked already, nothing is left to do.
LoadForLink(q, c, m) ==
  /\ c \in component /\ Exists(m) /\ LinksBetween(c, m) = {}
  /\ LinkCount \notin UsedLinks        \* bound: an id is left for the link
  /\ Begin(q, [Idle EXCEPT !.at = "adding", !.comp = c, !.mon = m])

\* The unique index refuses a second link.
AddLink(q) ==
  LET c == request[q].comp
      m == request[q].mon
  IN
  /\ request[q].at = "adding"
  /\ IF LinksBetween(c, m) # {}
     THEN UNCHANGED link
     ELSE \E k \in LinkId : /\ NextId(UsedLinks, k)
                            /\ link' = [link EXCEPT ![k] = [comp |-> c, mon |-> m]]
  /\ UNCHANGED <<monitor, component>>
  /\ Watch /\ End(q)

\* DELETE /components/{id}/monitors/{id}; without a link, nothing is to do.
LoadLink(q, c, m) ==
  /\ c \in component /\ LinksBetween(c, m) # {}
  /\ Begin(q, [Idle EXCEPT !.at = "removing", !.rows = LinksBetween(c, m)])

RemoveLink(q) ==
  /\ request[q].at = "removing"
  /\ link' = Without(request[q].rows)
  /\ UNCHANGED <<monitor, component>>
  /\ Watch /\ End(q)

-----------------------------------------------------------------------------
(* A visit: GET /status/{slug} *)

Tables == <<monitor, component, link, request>>

BeginVisit ==
  /\ visit.at = "idle" /\ MayBegin
  /\ visit' = [NoVisit EXCEPT !.at = "counting", !.stillDown = DownNow,
                              !.neverUp = NotUpNow, !.onceDown = SomeDown]
  /\ UNCHANGED Tables

\* should_use_public_sample_data asks for incidents only if there are no
\* monitors; there may be some, of monitors that were deleted.
CountMonitors ==
  /\ visit.at = "counting"
  /\ visit' = [visit EXCEPT !.at = IF \E m \in Monitor : Exists(m) THEN "listing"
                                                                  ELSE "empty"]
  /\ UNCHANGED Tables

CountIncidents ==
  /\ visit.at = "empty"
  /\ visit' \in {[visit EXCEPT !.at = "listing"],
                 [visit EXCEPT !.at = "answered", !.answer = "sample"]}
  /\ UNCHANGED Tables

ListComponents ==
  /\ visit.at = "listing"
  /\ visit' = [visit EXCEPT !.at = "between", !.todo = component]
  /\ UNCHANGED Tables

\* list_component_monitors.  The session still has the monitors of the previous
\* component in memory; the state of another one that is not paused is loaded
\* when it is asked for.
ListMonitors(c) ==
  /\ visit.at = "between" /\ c \in visit.todo
  /\ visit' = [visit EXCEPT
       !.at = "reading", !.todo = @ \ {c},
       !.got = [m \in Monitor |-> IF m \notin LinkedTo(c) THEN "unlinked"
                                 ELSE IF visit.got[m] # "unlinked" THEN visit.got[m]
                                 ELSE IF monitor[m].at = "paused" THEN "paused"
                                 ELSE "pending"]]
  /\ UNCHANGED Tables

ReadState(m) ==
  /\ visit.at = "reading" /\ visit.got[m] = "pending"
  /\ \A k \in Monitor : visit.got[k] = "pending" => m <= k
  /\ visit' = [visit EXCEPT
       !.got[m] = RuntimeStatus([monitor[m] EXCEPT !.at = "active"])]
  /\ UNCHANGED Tables

CloseComponent ==
  /\ visit.at = "reading" /\ \A m \in Monitor : visit.got[m] # "pending"
  /\ visit' = [visit EXCEPT
       !.at = "between",
       !.done = @ \cup {ComponentStatus({visit.got[m] : m \in Monitor} \ {"unlinked"})}]
  /\ UNCHANGED Tables

Answer ==
  /\ visit.at = "between" /\ visit.todo = {}
  /\ visit' = [visit EXCEPT !.at = "answered", !.got = Nothing, !.done = {},
                            !.answer = OverallStatus(visit.done)]
  /\ UNCHANGED Tables

EndVisit ==
  /\ visit.at = "answered"
  /\ visit' = NoVisit
  /\ UNCHANGED Tables

-----------------------------------------------------------------------------
MonitorChange(m) ==
  \/ \E s \in {"active", "paused"} : AddMonitor(m, s)
  \/ RemoveMonitor(m) \/ PauseMonitor(m) \/ ResumeMonitor(m)
  \/ \E last \in {"up", "down"} : RecordCheck(m, last)

Request(q) ==
  \/ \E c \in Component : CreateComponent(q, c) \/ LoadComponent(q, c)
  \/ \E c \in Component, m \in Monitor : LoadForLink(q, c, m) \/ LoadLink(q, c, m)
  \/ DeleteComponent(q) \/ AddLink(q) \/ RemoveLink(q)

Visit ==
  \/ BeginVisit \/ CountMonitors \/ CountIncidents \/ ListComponents
  \/ \E c \in Component : ListMonitors(c)
  \/ \E m \in Monitor : ReadState(m)
  \/ CloseComponent \/ Answer \/ EndVisit

Next ==
  \/ MayChange /\ \E m \in Monitor : MonitorChange(m)
  \/ MayChange /\ \E q \in Admin : Request(q)
  \/ Visit

Spec == Init /\ [][Next]_vars

-----------------------------------------------------------------------------
(* Properties *)

\* The tables, the requests and the visit have their types, and no monitor is
\* linked twice to one component.
StatusPagesTypeOK ==
  /\ monitor \in [Monitor -> MonitorRow]
  /\ component \subseteq Component
  /\ link \in [LinkId -> LinkRow]
  /\ \A j, k \in UsedLinks : link[j] = link[k] => j = k
  /\ request \in [Admin -> RequestRow]
  /\ visit \in VisitRow

\* A link loses its component only by a deletion that had loaded the links of the
\* component before this one was added, or is born without one by an addition whose
\* component was deleted since it was looked up: whatever else administrators do at
\* the same time, a component that takes the id of a deleted one shows nothing of it.
HasComponent(k) == link[k] # NoLink => link[k].comp \in component
LinkUnlessOverlapped ==
  [][\A k \in LinkId : HasComponent(k) /\ ~HasComponent(k)' =>
       \E q \in Admin :
         /\ \/ request[q].at = "deleting" /\ k \notin request[q].had
            \/ request[q].at = "adding" /\ request[q].comp \notin component
         /\ request'[q].at = "idle"]_vars

\* A monitor that was linked to one component, active and down all through the
\* visit makes the page tell an outage, although no two of its queries see the same moment.
OutageIsShown ==
  visit.at = "answered" /\ visit.stillDown # {} => visit.answer = "outage"

\* The page tells an outage only if some monitor was down at a moment of the
\* visit.
OutageIsReal ==
  visit.at = "answered" /\ visit.answer = "outage" => visit.onceDown

\* The page is operational only if no monitor was, all through the visit,
\* linked, active, and either down or never checked.
OperationalIsReal ==
  visit.at = "answered" /\ visit.answer \in {"operational", "sample"} => visit.neverUp = {}
=============================================================================
