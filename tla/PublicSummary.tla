---------------------------- MODULE PublicSummary ----------------------------
(***************************************************************************)
(* What an anonymous visitor is told: GET /api/v1/summary (and /slo, which *)
(* answers from it) and GET /api/v1/incidents, over the table of           *)
(* MonitorRegistry.                                                        *)
(*                                                                         *)
(* A visit makes several queries, each of which sees another moment.       *)
(***************************************************************************)
EXTENDS MonitorRegistry, Sequences

CONSTANT MaxChanges   \* how many registry steps happen during one visit

ASSUME SummaryBounds == MaxChanges \in Nat

VARIABLES
  visit,      \* the thread that serves the visitor
  seen,       \* history: the answers that were right at some moment of the visit
  stillDown,  \* history: monitors that were down and not paused all through it
  onceDown,   \* history: monitors that were down at some moment of it
  changes     \* registry steps during the visit

summaryVars == <<registryVars, visit, seen, stillDown, onceDown, changes>>
history == <<seen, stillDown, onceDown, changes>>

NoVisit == [at |-> "idle", path |-> "none", todo |-> <<>>, unpaused |-> {}, down |-> {},
            answer |-> "none", open |-> 0]

SummaryInit ==
  /\ Init
  /\ visit = NoVisit
  /\ seen = {} /\ stillDown = {} /\ onceDown = {} /\ changes = 0

-----------------------------------------------------------------------------
(* The visitor *)

\* The right answer for this path, if it were read in one query.
RightAnswer(path) ==
  IF path = "summary"
  THEN IF live = {} /\ incidents.total = 0 THEN "sample" ELSE "real"
  ELSE IF incidents.total > 0 THEN "real" ELSE IF live = {} THEN "sample" ELSE "empty"

DownNow == {m \in live : status[m] = "down"}
UnpausedDown == {m \in DownNow : ~row[m].paused}

\* (faulty) should_use_public_sample_data counts the incidents first.
IncidentsFirst(path) ==
  IF path = "summary" THEN <<"incidents", "monitors">>
                      ELSE <<"incidents", "incidents", "monitors">>
\* The counts that must all be zero for sample data, in the order of the code.
Counts(path) ==
  IF path = "summary" THEN <<"monitors", "incidents">>
                      ELSE <<"incidents", "monitors", "incidents">>

BeginVisit(path) ==
  /\ visit.at = "idle"
  /\ visit' = [NoVisit EXCEPT !.at = "counting", !.path = path, !.todo = Counts(path)]
  /\ seen' = {RightAnswer(path)}
  /\ stillDown' = UnpausedDown /\ onceDown' = DownNow /\ changes' = 0
  /\ UNCHANGED registryVars

CountIsZero(table) == IF table = "monitors" THEN live = {} ELSE incidents.total = 0

\* The list of incidents is real if the first count found any, else empty; the
\* summary goes on to read the fleet.
AfterCount ==
  LET v == [visit EXCEPT !.todo = Tail(@)] IN
  IF CountIsZero(Head(visit.todo))
  THEN IF v.todo = <<>> THEN [v EXCEPT !.at = "answered", !.answer = "sample"] ELSE v
  ELSE IF visit.path = "summary" THEN [v EXCEPT !.at = "monitors", !.answer = "real"]
  ELSE [v EXCEPT !.at = "answered",
                 !.answer = IF visit.todo = Counts(visit.path) THEN "real" ELSE "empty"]

Count ==
  /\ visit.at = "counting"
  /\ visit' = AfterCount
  /\ UNCHANGED <<registryVars, history>>

\* fleet_summary loads all monitors ...
ReadMonitors ==
  /\ visit.at = "monitors"
  /\ visit' = [visit EXCEPT !.at = "states", !.unpaused = {m \in live : ~row[m].paused}]
  /\ UNCHANGED <<registryVars, history>>

\* (faulty) A monitor nothing is known about is counted down.
NotUp(s) == s \in {"down", "unknown"}
IsDown(s) == s = "down"

\* ... then all states, and counts by status those that are not paused.
ReadStates ==
  /\ visit.at = "states"
  /\ visit' = [visit EXCEPT !.at = "total",
                            !.down = {m \in visit.unpaused : m \in live /\ IsDown(status[m])}]
  /\ UNCHANGED <<registryVars, history>>

\* get_open_incident_count: None if there are no incidents, and then the answer
\* keeps the number that the counters' summary gave, of its synthetic incidents.
SyntheticOpen == 1
CountAllIncidents ==
  /\ visit.at = "total"
  /\ visit' = IF incidents.total = 0
              THEN [visit EXCEPT !.at = "answered", !.open = SyntheticOpen]
              ELSE [visit EXCEPT !.at = "open"]
  /\ UNCHANGED <<registryVars, history>>

CountOpenIncidents ==
  /\ visit.at = "open"
  /\ visit' = [visit EXCEPT !.at = "answered", !.open = incidents.open]
  /\ UNCHANGED <<registryVars, history>>

EndVisit ==
  /\ visit.at = "answered"
  /\ visit' = NoVisit
  /\ seen' = {} /\ stillDown' = {} /\ onceDown' = {} /\ changes' = 0
  /\ UNCHANGED registryVars

-----------------------------------------------------------------------------
\* Requests and checks go on during a visit, whose history they enter.
RegistryStep ==
  /\ RegistryNext /\ UNCHANGED visit
  /\ IF visit.at = "idle" THEN UNCHANGED history
     ELSE /\ changes < MaxChanges
          /\ changes' = changes + 1
          /\ seen' = seen \cup {RightAnswer(visit.path)'}
          /\ stillDown' = stillDown \cap UnpausedDown'
          /\ onceDown' = onceDown \cup DownNow'

Visit ==
  \/ \E path \in {"summary", "incidents"} : BeginVisit(path)
  \/ Count \/ ReadMonitors \/ ReadStates
  \/ CountAllIncidents \/ CountOpenIncidents \/ EndVisit

SummaryNext == RegistryStep \/ Visit
SummarySpec == SummaryInit /\ [][SummaryNext]_summaryVars

-----------------------------------------------------------------------------
(* Properties *)

\* Sample data, an empty list and real data are each told only if they were the
\* right answer at some moment of the visit, although it decides on two or three
\* counts of different moments.
AnswerWasRight == visit.at = "answered" => visit.answer \in seen

\* The fleet counts as down every monitor that was down throughout the visit,
\* and none that never was.
DownCountIsReal ==
  visit.at \in {"total", "open", "answered"} /\ visit.answer = "real" /\ visit.path = "summary" =>
    stillDown \subseteq visit.down /\ visit.down \subseteq onceDown

\* Once monitors or incidents exist the summary is of real data only: without a
\* single incident, none is open.
OpenCountIsReal ==
  visit.at = "answered" /\ visit.answer = "real" /\ visit.path = "summary" /\ incidents.total = 0
    => visit.open = 0
=============================================================================
