-------------------------- MODULE StatusPagesProofs --------------------------
(***************************************************************************)
(* Theorems about StatusPages: what the public page may say of monitors    *)
(* that change while it is read query by query.                            *)
(***************************************************************************)
EXTENDS StatusPages, TLAPS

\* A link, and a request that adds one, has both its ends.
LinksWhole ==
  /\ \A k \in UsedLinks : link[k].comp \in Component /\ link[k].mon \in Monitor
  /\ \A q \in Admin : request[q].at = "adding" =>
       request[q].comp \in Component /\ request[q].mon \in Monitor

TablesInv == StatusPagesTypeOK /\ LinksWhole

\* What the history of a visit says is so at the moment.
WatchInv == visit.at # "idle" =>
  /\ visit.stillDown \subseteq DownNow /\ visit.neverUp \subseteq NotUpNow
  /\ SomeDown => visit.onceDown

\* Without monitors there is none to watch.
EmptyInv == visit.at = "empty" => visit.stillDown = {} /\ visit.neverUp = {}

\* A status read earlier in the visit, and kept for the next component, still
\* fits a monitor that did not come up since.
GotInv ==
  /\ \A n \in visit.stillDown : visit.got[n.mon] \in {"unlinked", "pending", "down"}
  /\ \A n \in visit.neverUp : visit.got[n.mon] \in {"unlinked", "pending", "down", "unknown"}

\* Whatever tells an outage comes from a monitor that was down.
DownSeen ==
  /\ \A m \in Monitor : visit.got[m] = "down" => visit.onceDown
  /\ "outage" \in visit.done => visit.onceDown
  /\ visit.answer = "outage" => visit.onceDown

\* The component of a watched monitor is still to be read, is being read, or has
\* already spoilt what the page will say.
Underway(n) == \/ n.comp \in visit.todo
               \/ visit.at = "reading" /\ visit.got[n.mon] # "unlinked"
Covered == visit.at \in {"between", "reading"} =>
  /\ \A n \in visit.stillDown : Underway(n) \/ "outage" \in visit.done
  /\ \A n \in visit.neverUp : Underway(n) \/ \E s \in visit.done : s # "operational"

VisitInv == /\ WatchInv /\ EmptyInv /\ GotInv /\ DownSeen /\ Covered
            /\ OutageIsShown /\ OperationalIsReal

PagesInv == TablesInv /\ VisitInv

-----------------------------------------------------------------------------
(* Aggregation *)

\* A component that has a monitor down is out, one that has an unchecked monitor
\* is not operational.
LEMMA ComponentStatusFacts ==
  ASSUME NEW S \in SUBSET MonitorPublicStatus
  PROVE  /\ ComponentStatus(S) \in PublicStatus
         /\ ComponentStatus(S) = "outage" <=> "down" \in S
         /\ "unknown" \in S => ComponentStatus(S) # "operational"
<1> DEFINE active == S \ {"paused"}
<1>1. CASE "down" \in active
  BY <1>1 DEF ComponentStatus, PublicStatus
<1>2. CASE "down" \notin active /\ active \in {{}, {"unknown"}}
  BY <1>2 DEF ComponentStatus, PublicStatus
<1>3. CASE "down" \notin active /\ active = {"up", "unknown"}
  BY <1>3 DEF ComponentStatus, PublicStatus
<1>4. CASE "down" \notin active /\ active = {"up"}
  BY <1>4 DEF ComponentStatus, PublicStatus
<1>5. "down" \in active \/ active \in {{}, {"unknown"}, {"up", "unknown"}, {"up"}}
  BY DEF MonitorPublicStatus
<1> QED
  BY <1>1, <1>2, <1>3, <1>4, <1>5

\* The page is as bad as its worst component.
LEMMA OverallStatusFacts ==
  ASSUME NEW S \in SUBSET PublicStatus
  PROVE  /\ OverallStatus(S) \in PublicStatus
         /\ OverallStatus(S) = "outage" <=> "outage" \in S
         /\ (\E s \in S : s # "operational") => OverallStatus(S) # "operational"
<1> DEFINE Worst(s) == \A t \in S : Severity(t) <= Severity(s)
<1>1. /\ Severity("operational") = 0 /\ Severity("degraded") = 1
      /\ Severity("unknown") = 2 /\ Severity("outage") = 3
  BY DEF Severity
<1>2. CASE S = {}
  BY <1>2 DEF OverallStatus, PublicStatus
<1>3. CASE S # {}
  <2>1. \A s \in S : s \in {"operational", "degraded", "unknown", "outage"}
    BY DEF PublicStatus
  <2>2. \E s \in S : Worst(s)
    <3>1. CASE "outage" \in S
      BY <1>1, <2>1, <3>1
    <3>2. CASE "outage" \notin S /\ "unknown" \in S
      BY <1>1, <2>1, <3>2
    <3>3. CASE "outage" \notin S /\ "unknown" \notin S /\ "degraded" \in S
      BY <1>1, <2>1, <3>3
    <3>4. CASE "outage" \notin S /\ "unknown" \notin S /\ "degraded" \notin S
      BY <1>1, <1>3, <2>1, <3>4
    <3> QED
      BY <3>1, <3>2, <3>3, <3>4
  <2>3. OverallStatus(S) \in S /\ Worst(OverallStatus(S))
    <3>1. OverallStatus(S) = CHOOSE s \in S : Worst(s)
      BY <1>3 DEF OverallStatus
    <3> HIDE DEF Worst
    <3> QED
      BY <2>2, <3>1
  <2> DEFINE o == OverallStatus(S)
  <2>4. o \in {"operational", "degraded", "unknown", "outage"}
    BY <2>1, <2>3
  <2>5. "outage" \in S => Severity("outage") <= Severity(o)
    BY <2>3
  <2>6. ASSUME NEW s \in S, s # "operational" PROVE o # "operational"
    <3>1. Severity(s) <= Severity(o) /\ Severity(s) \in {1, 2, 3}
      BY <1>1, <2>1, <2>3, <2>6
    <3> QED
      BY <1>1, <3>1
  <2>7. "outage" \in S => o = "outage"
    BY <1>1, <2>4, <2>5
  <2> QED
    BY <2>3, <2>6, <2>7
<1> QED
  BY <1>2, <1>3

\* A monitor that is not paused is shown by its last check.
LEMMA RuntimeStatusFacts ==
  ASSUME NEW row \in MonitorRow, row.at = "active"
  PROVE  /\ RuntimeStatus(row) \in MonitorPublicStatus
         /\ RuntimeStatus(row) = "down" <=> row.last = "down"
         /\ row.last = "none" => RuntimeStatus(row) = "unknown"
  BY DEF RuntimeStatus, MonitorRow, MonitorPublicStatus

-----------------------------------------------------------------------------
(* Types *)

\* What concerns the tables and the requests, without the visit.
TablesOK ==
  /\ monitor \in [Monitor -> MonitorRow]
  /\ component \subseteq Component
  /\ link \in [LinkId -> LinkRow]
  /\ \A j, k \in UsedLinks : link[j] = link[k] => j = k
  /\ request \in [Admin -> RequestRow]
  /\ LinksWhole

LEMMA TablesParts == TablesInv <=> TablesOK /\ visit \in VisitRow
  BY DEF TablesInv, TablesOK, StatusPagesTypeOK

LEMMA FreshRows ==
  /\ NoMonitor \in MonitorRow /\ NoLink \in LinkRow /\ Idle \in RequestRow
  /\ NoVisit \in VisitRow /\ Nothing \in Reading
<1>1. NoMonitor \in MonitorRow /\ NoLink \in LinkRow /\ Idle \in RequestRow
  BY DEF NoMonitor, MonitorRow, NoLink, LinkRow, Idle, RequestRow
<1>2. Nothing \in Reading
  BY DEF Nothing, Reading
<1>3. 0 \in 0 .. MaxChanges
  BY StatusPagesBounds
<1> QED
  BY <1>1, <1>2, <1>3 DEF NoVisit, VisitRow

\* What is watched are links.
LEMMA WatchedLinks ==
  ASSUME TablesOK
  PROVE  NotUpNow \in SUBSET LinkRow /\ DownNow \in SUBSET NotUpNow /\ SomeDown \in BOOLEAN
  BY DEF TablesOK, NotUpNow, DownNow, UsedLinks, SomeDown

\* A change of the tables takes from what a visit watches what no longer holds.
LEMMA WatchShape ==
  ASSUME visit \in VisitRow, MayChange, Watch
  PROVE  /\ visit' \in VisitRow
         /\ visit'.at = visit.at /\ visit'.todo = visit.todo /\ visit'.got = visit.got
         /\ visit'.done = visit.done /\ visit'.answer = visit.answer
         /\ visit'.stillDown \subseteq visit.stillDown /\ visit'.neverUp \subseteq visit.neverUp
         /\ visit.onceDown => visit'.onceDown
         /\ visit.at # "idle" =>
              /\ visit'.stillDown \subseteq DownNow' /\ visit'.neverUp \subseteq NotUpNow'
              /\ SomeDown' => visit'.onceDown
<1>1. CASE visit.at = "idle"
  BY <1>1 DEF Watch
<1>2. CASE visit.at # "idle"
  <2> DEFINE down == DownNow'
             notUp == NotUpNow'
             some == SomeDown'
  <2>1. /\ visit.changes < MaxChanges
        /\ visit' = [visit EXCEPT !.stillDown = @ \cap down, !.neverUp = @ \cap notUp,
                                  !.onceDown = @ \/ some, !.changes = @ + 1]
    BY <1>2 DEF Watch, MayChange
  <2> HIDE DEF down, notUp, some
  <2>2. visit.changes + 1 \in 0 .. MaxChanges
    BY <2>1, StatusPagesBounds DEF VisitRow
  <2>3. visit.stillDown \cap down \in SUBSET LinkRow /\ visit.neverUp \cap notUp \in SUBSET LinkRow
    BY DEF VisitRow
  <2>4. (visit.onceDown \/ some) \in BOOLEAN
    OBVIOUS
  <2>5. visit' \in VisitRow
    BY <2>1, <2>2, <2>3, <2>4 DEF VisitRow
  <2>6. /\ visit'.at = visit.at /\ visit'.todo = visit.todo /\ visit'.got = visit.got
        /\ visit'.done = visit.done /\ visit'.answer = visit.answer
        /\ visit'.stillDown = visit.stillDown \cap down
        /\ visit'.neverUp = visit.neverUp \cap notUp
        /\ visit'.onceDown = (visit.onceDown \/ some)
    BY <2>1 DEF VisitRow
  <2> QED
    BY <2>5, <2>6 DEF down, notUp, some
<1> QED
  BY <1>1, <1>2

\* So it keeps everything the visit has gathered true.
LEMMA ChangeKeepsVisit ==
  ASSUME TablesInv, VisitInv, MayChange, Watch
  PROVE  VisitInv' /\ visit' \in VisitRow
<1>1. visit \in VisitRow
  BY TablesParts
<1> USE <1>1, WatchShape DEF VisitInv
<1>2. WatchInv'
  BY DEF WatchInv
<1>3. EmptyInv'
  BY DEF EmptyInv
<1>4. GotInv'
  BY DEF GotInv
<1>5. DownSeen'
  BY DEF DownSeen
<1>6. Covered'
  BY DEF Covered, Underway
<1>7. OutageIsShown' /\ OperationalIsReal'
  BY DEF OutageIsShown, OperationalIsReal
<1> QED
  BY <1>2, <1>3, <1>4, <1>5, <1>6, <1>7

-----------------------------------------------------------------------------
(* The steps of a visit *)

\* A query changes nothing that is watched.
LEMMA QueryWatches ==
  ASSUME UNCHANGED Tables
  PROVE  DownNow' = DownNow /\ NotUpNow' = NotUpNow /\ SomeDown' = SomeDown
  BY DEF Tables, DownNow, NotUpNow, SomeDown, UsedLinks

\* What a query inside a visit leaves alone.
Remembers == /\ visit.at # "idle" /\ visit'.stillDown = visit.stillDown
             /\ visit'.neverUp = visit.neverUp /\ visit'.onceDown = visit.onceDown

LEMMA QueryKeepsWatch ==
  ASSUME WatchInv, UNCHANGED Tables, Remembers
  PROVE  WatchInv'
  BY QueryWatches DEF WatchInv, Remembers

LEMMA BeginVisitKeeps ==
  ASSUME TablesInv, BeginVisit PROVE VisitInv' /\ visit' \in VisitRow
<1>1. NotUpNow \in SUBSET LinkRow /\ DownNow \in SUBSET NotUpNow /\ SomeDown \in BOOLEAN
  BY TablesParts, WatchedLinks
<1>2. /\ visit' = [NoVisit EXCEPT !.at = "counting", !.stillDown = DownNow,
                                  !.neverUp = NotUpNow, !.onceDown = SomeDown]
      /\ UNCHANGED Tables
  BY DEF BeginVisit
<1>3. DownNow' = DownNow /\ NotUpNow' = NotUpNow /\ SomeDown' = SomeDown
  BY <1>2, QueryWatches
<1> DEFINE down == DownNow
           notUp == NotUpNow
           some == SomeDown
<1> HIDE DEF down, notUp, some
<1>4. visit' = [NoVisit EXCEPT !.at = "counting", !.stillDown = down, !.neverUp = notUp,
                               !.onceDown = some]
  BY <1>2 DEF down, notUp, some
<1>5. visit' \in VisitRow
  BY <1>1, <1>4, FreshRows DEF VisitRow, down, notUp, some
<1>6. /\ visit'.at = "counting" /\ visit'.got = Nothing /\ visit'.done = {}
      /\ visit'.answer = "none" /\ visit'.stillDown = down /\ visit'.neverUp = notUp
      /\ visit'.onceDown = some
  BY <1>4 DEF NoVisit
<1>7. WatchInv'
  BY <1>3, <1>6 DEF WatchInv, down, notUp, some
<1>8. \A n \in notUp : n.mon \in Monitor
  <2>1. \A k \in UsedLinks : link[k].mon \in Monitor
    BY DEF TablesInv, LinksWhole
  <2> QED
    BY <2>1 DEF NotUpNow, notUp
<1>9. down \subseteq notUp
  BY <1>1 DEF down, notUp
<1>10. GotInv' /\ DownSeen'
  BY <1>6, <1>8, <1>9 DEF GotInv, DownSeen, Nothing
<1> QED
  BY <1>5, <1>6, <1>7, <1>10
     DEF VisitInv, EmptyInv, Covered, OutageIsShown, OperationalIsReal

\* Where there is no monitor, none is watched.
LEMMA CountKeeps ==
  ASSUME TablesInv, VisitInv, CountMonitors \/ CountIncidents \/ ListComponents
  PROVE  VisitInv' /\ visit' \in VisitRow
<1>1. visit \in VisitRow
  BY TablesParts
<1>2. /\ Remembers /\ UNCHANGED Tables /\ visit' \in VisitRow
      /\ visit'.got = visit.got /\ visit'.done = visit.done
  <2>1. component \in SUBSET Component
    BY TablesParts DEF TablesOK
  <2> QED
    BY <1>1, <2>1 DEF CountMonitors, CountIncidents, ListComponents, Remembers, VisitRow
<1>3. \A n \in NotUpNow : n.mon \in Monitor /\ n.comp \in component /\ Exists(n.mon)
  <2>1. \A k \in UsedLinks : link[k].mon \in Monitor
    BY DEF TablesInv, LinksWhole
  <2> QED
    BY <2>1 DEF NotUpNow, Exists
<1>4. WatchInv'
  BY <1>2, QueryKeepsWatch DEF VisitInv
<1>5. EmptyInv'
  BY <1>1, <1>2, <1>3, WatchedLinks, TablesParts
     DEF CountMonitors, CountIncidents, ListComponents, EmptyInv, VisitInv, WatchInv,
         Remembers, VisitRow
<1>6. GotInv'
  BY <1>2 DEF GotInv, VisitInv, Remembers
<1>7. DownSeen'
  BY <1>1, <1>2 DEF CountMonitors, CountIncidents, ListComponents, DownSeen, VisitInv,
                    Remembers, VisitRow
<1>8. Covered'
  <2>1. CASE ListComponents
    BY <1>1, <1>2, <1>3, <2>1, WatchedLinks, TablesParts
       DEF ListComponents, Covered, Underway, Remembers, VisitInv, WatchInv, VisitRow
  <2>2. CASE CountMonitors \/ CountIncidents
    BY <1>1, <2>2 DEF CountMonitors, CountIncidents, Covered, VisitRow
  <2> QED
    BY <2>1, <2>2
<1>9. OutageIsShown' /\ OperationalIsReal'
  BY <1>1, <1>2 DEF CountMonitors, CountIncidents, ListComponents, OutageIsShown,
                    OperationalIsReal, Remembers, VisitInv, EmptyInv, VisitRow
<1> QED
  BY <1>2, <1>4, <1>5, <1>6, <1>7, <1>8, <1>9 DEF VisitInv

\* A watched monitor of the component is found there, active; what is remembered
\* of it from another component still fits.
LEMMA ListMonitorsKeeps ==
  ASSUME TablesInv, VisitInv, NEW c \in Component, ListMonitors(c)
  PROVE  VisitInv' /\ visit' \in VisitRow
<1> DEFINE got == [m \in Monitor |-> IF m \notin LinkedTo(c) THEN "unlinked"
                                     ELSE IF visit.got[m] # "unlinked" THEN visit.got[m]
                                     ELSE IF monitor[m].at = "paused" THEN "paused"
                                     ELSE "pending"]
<1>1. visit \in VisitRow
  BY TablesParts
<1>2. got \in Reading
  BY <1>1 DEF VisitRow, Reading, MonitorPublicStatus
<1>3. visit' = [visit EXCEPT !.at = "reading", !.todo = @ \ {c}, !.got = got]
  BY DEF ListMonitors
<1>4. \A m \in Monitor :
        /\ got[m] \in {"unlinked", visit.got[m], "paused", "pending"}
        /\ m \in LinkedTo(c) => got[m] # "unlinked"
        /\ monitor[m].at = "active" => got[m] \in {"unlinked", visit.got[m], "pending"}
  OBVIOUS
<1> HIDE DEF got
<1>5. /\ visit' \in VisitRow /\ Remembers /\ UNCHANGED Tables /\ visit.at = "between"
      /\ visit'.at = "reading" /\ visit'.todo = visit.todo \ {c} /\ visit'.got = got
      /\ visit'.done = visit.done /\ visit'.answer = visit.answer
  BY <1>1, <1>2, <1>3 DEF ListMonitors, Remembers, VisitRow
<1>6. \A n \in NotUpNow : /\ n.mon \in Monitor /\ monitor[n.mon].at = "active"
                          /\ n.comp = c => n.mon \in LinkedTo(c)
  <2>1. \A k \in UsedLinks : k \in LinkId /\ link[k].mon \in Monitor
    BY DEF TablesInv, LinksWhole, UsedLinks
  <2>2. TAKE n \in NotUpNow
  <2>3. PICK k \in UsedLinks : n = link[k]
    BY DEF NotUpNow
  <2>4. n.mon \in Monitor /\ monitor[n.mon].at = "active"
    BY <2>1, <2>3 DEF NotUpNow
  <2>5. n.comp = c => k \in LinksBetween(c, n.mon)
    BY <2>1, <2>3 DEF LinksBetween, LinksOf
  <2> QED
    BY <2>4, <2>5 DEF LinkedTo, Exists
<1>7. visit.stillDown \subseteq NotUpNow /\ visit.neverUp \subseteq NotUpNow
  BY <1>5, WatchedLinks, TablesParts DEF VisitInv, WatchInv
<1>8. WatchInv' /\ EmptyInv'
  BY <1>5, QueryKeepsWatch DEF VisitInv, EmptyInv
<1>9. GotInv'
  BY <1>4, <1>5, <1>6, <1>7 DEF GotInv, VisitInv, Remembers
<1>10. DownSeen'
  <2>1. ASSUME NEW m \in Monitor, got[m] = "down" PROVE visit.got[m] = "down"
    BY <1>4, <2>1
  <2> QED
    BY <1>5, <2>1 DEF DownSeen, VisitInv, Remembers
<1>11. Covered'
  BY <1>4, <1>5, <1>6, <1>7 DEF Covered, Underway, VisitInv, Remembers
<1>12. OutageIsShown' /\ OperationalIsReal'
  BY <1>5 DEF OutageIsShown, OperationalIsReal
<1> QED
  BY <1>5, <1>8, <1>9, <1>10, <1>11, <1>12 DEF VisitInv

\* A monitor that was down at the moment of the query is read as down.
LEMMA ReadStateKeeps ==
  ASSUME TablesInv, VisitInv, NEW m \in Monitor, ReadState(m)
  PROVE  VisitInv' /\ visit' \in VisitRow
<1> DEFINE read == RuntimeStatus([monitor[m] EXCEPT !.at = "active"])
<1>1. visit \in VisitRow /\ monitor[m] \in MonitorRow
  BY TablesParts DEF TablesOK
<1>2. /\ read \in MonitorPublicStatus
      /\ read = "down" <=> monitor[m].last = "down"
      /\ monitor[m].last = "none" => read = "unknown"
  <2>1. /\ [monitor[m] EXCEPT !.at = "active"] \in MonitorRow
        /\ [monitor[m] EXCEPT !.at = "active"].at = "active"
        /\ [monitor[m] EXCEPT !.at = "active"].last = monitor[m].last
    BY <1>1 DEF MonitorRow
  <2> QED
    BY <2>1, RuntimeStatusFacts
<1>3. visit' = [visit EXCEPT !.got = [@ EXCEPT ![m] = read]]
  BY DEF ReadState
<1> HIDE DEF read
<1>4. /\ visit' \in VisitRow /\ Remembers /\ UNCHANGED Tables /\ visit.at = "reading"
      /\ visit'.at = "reading" /\ visit'.todo = visit.todo
      /\ \A k \in Monitor : visit'.got[k] = IF k = m THEN read ELSE visit.got[k]
      /\ visit'.done = visit.done /\ visit'.answer = visit.answer
  BY <1>1, <1>2, <1>3 DEF ReadState, Remembers, VisitRow, Reading
<1>5. \A n \in NotUpNow : n.mon \in Monitor /\ monitor[n.mon].last \in {"down", "none"}
  <2>1. \A k \in UsedLinks : link[k].mon \in Monitor
    BY DEF TablesInv, LinksWhole
  <2> QED
    BY <2>1 DEF NotUpNow
<1>6. /\ visit.stillDown \subseteq DownNow /\ visit.neverUp \subseteq NotUpNow
      /\ DownNow \subseteq NotUpNow
  BY <1>4, WatchedLinks, TablesParts DEF VisitInv, WatchInv
<1>7. \A n \in visit.stillDown : n.mon \in Monitor /\ monitor[n.mon].last = "down"
  BY <1>5, <1>6 DEF DownNow
<1>8. WatchInv' /\ EmptyInv'
  BY <1>4, QueryKeepsWatch DEF VisitInv, EmptyInv
<1>9. GotInv'
  BY <1>2, <1>4, <1>5, <1>6, <1>7 DEF GotInv, VisitInv, Remembers
<1>10. DownSeen'
  <2>1. read = "down" => visit.onceDown
    BY <1>2, <1>4 DEF VisitInv, WatchInv, SomeDown
  <2> QED
    BY <1>4, <2>1 DEF DownSeen, VisitInv, Remembers
<1>11. Covered'
  <2>1. read # "unlinked"
    BY <1>2 DEF MonitorPublicStatus
  <2>2. \A n \in visit.neverUp \cup visit.stillDown : Underway(n) => Underway(n)'
    BY <1>4, <1>5, <1>6, <2>1 DEF Underway
  <2> QED
    BY <1>4, <2>2 DEF Covered, VisitInv, Remembers
<1>12. OutageIsShown' /\ OperationalIsReal'
  BY <1>4 DEF OutageIsShown, OperationalIsReal
<1> QED
  BY <1>4, <1>8, <1>9, <1>10, <1>11, <1>12 DEF VisitInv

\* A component shows what was read of its monitors.
LEMMA CloseComponentKeeps ==
  ASSUME TablesInv, VisitInv, CloseComponent
  PROVE  VisitInv' /\ visit' \in VisitRow
<1> DEFINE S == {visit.got[m] : m \in Monitor} \ {"unlinked"}
           shown == ComponentStatus(S)
<1>1. visit \in VisitRow /\ \A m \in Monitor : visit.got[m] # "pending"
  BY TablesParts DEF CloseComponent
<1>2. S \in SUBSET MonitorPublicStatus
  BY <1>1 DEF VisitRow, Reading
<1>3. /\ shown \in PublicStatus
      /\ shown = "outage" <=> "down" \in S
      /\ "unknown" \in S => shown # "operational"
  BY <1>2, ComponentStatusFacts
<1>4. /\ \A m \in Monitor : visit.got[m] # "unlinked" => visit.got[m] \in S
      /\ "down" \in S => \E m \in Monitor : visit.got[m] = "down"
  OBVIOUS
<1>5. visit' = [visit EXCEPT !.at = "between", !.done = @ \cup {shown}]
  BY DEF CloseComponent
<1> HIDE DEF S, shown
<1>6. /\ visit' \in VisitRow /\ Remembers /\ UNCHANGED Tables /\ visit.at = "reading"
      /\ visit'.at = "between" /\ visit'.todo = visit.todo /\ visit'.got = visit.got
      /\ visit'.done = visit.done \cup {shown} /\ visit'.answer = visit.answer
  <2>1. visit.at = "reading" /\ UNCHANGED Tables
    BY DEF CloseComponent
  <2> QED
    BY <1>1, <1>3, <1>5, <2>1 DEF Remembers, VisitRow
<1>7. \A n \in NotUpNow : n.mon \in Monitor
  <2>1. \A k \in UsedLinks : link[k].mon \in Monitor
    BY DEF TablesInv, LinksWhole
  <2> QED
    BY <2>1 DEF NotUpNow
<1>8. visit.stillDown \subseteq NotUpNow /\ visit.neverUp \subseteq NotUpNow
  BY <1>6, WatchedLinks, TablesParts DEF VisitInv, WatchInv
<1>9. WatchInv' /\ EmptyInv'
  BY <1>6, QueryKeepsWatch DEF VisitInv, EmptyInv
<1>10. GotInv'
  BY <1>6 DEF GotInv, VisitInv, Remembers
<1>11. DownSeen'
  BY <1>3, <1>4, <1>6 DEF DownSeen, VisitInv, Remembers
<1>12. Covered'
  <2>1. ASSUME NEW n \in visit.stillDown
        PROVE  n.comp \in visit.todo \/ "outage" \in visit.done \cup {shown}
    <3>1. CASE visit.got[n.mon] # "unlinked"
      <4>1. visit.got[n.mon] = "down"
        BY <1>1, <1>7, <1>8, <3>1 DEF VisitInv, GotInv
      <4> QED
        BY <1>3, <1>4, <1>7, <1>8, <4>1
    <3>2. CASE visit.got[n.mon] = "unlinked"
      BY <1>6, <3>2 DEF VisitInv, Covered, Underway
    <3> QED
      BY <3>1, <3>2
  <2>2. ASSUME NEW n \in visit.neverUp
        PROVE  n.comp \in visit.todo \/ \E s \in visit.done \cup {shown} : s # "operational"
    <3>1. CASE visit.got[n.mon] # "unlinked"
      <4>1. visit.got[n.mon] \in {"down", "unknown"}
        BY <1>1, <1>7, <1>8, <3>1 DEF VisitInv, GotInv
      <4> QED
        BY <1>3, <1>4, <1>7, <1>8, <4>1
    <3>2. CASE visit.got[n.mon] = "unlinked"
      BY <1>6, <3>2 DEF VisitInv, Covered, Underway
    <3> QED
      BY <3>1, <3>2
  <2> QED
    BY <1>6, <2>1, <2>2 DEF Covered, Underway, Remembers
<1>13. OutageIsShown' /\ OperationalIsReal'
  BY <1>6 DEF OutageIsShown, OperationalIsReal
<1> QED
  BY <1>6, <1>9, <1>10, <1>11, <1>12, <1>13 DEF VisitInv

\* The answer is that of the worst component read.
LEMMA AnswerKeeps ==
  ASSUME TablesInv, VisitInv, Answer
  PROVE  VisitInv' /\ visit' \in VisitRow
<1> DEFINE overall == OverallStatus(visit.done)
<1>1. visit \in VisitRow /\ visit.done \in SUBSET PublicStatus
  BY TablesParts DEF VisitRow
<1>2. /\ overall \in PublicStatus
      /\ overall = "outage" <=> "outage" \in visit.done
      /\ (\E s \in visit.done : s # "operational") => overall # "operational"
  BY <1>1, OverallStatusFacts
<1>3. visit' = [visit EXCEPT !.at = "answered", !.got = Nothing, !.done = {}, !.answer = overall]
  BY DEF Answer
<1> HIDE DEF overall
<1>4. /\ visit' \in VisitRow /\ Remembers /\ UNCHANGED Tables
      /\ visit.at = "between" /\ visit.todo = {}
      /\ visit'.at = "answered" /\ visit'.got = Nothing
      /\ visit'.done = {} /\ visit'.answer = overall
  BY <1>1, <1>2, <1>3, FreshRows DEF Answer, Remembers, VisitRow
<1>5. \A n \in NotUpNow : n.mon \in Monitor
  <2>1. \A k \in UsedLinks : link[k].mon \in Monitor
    BY DEF TablesInv, LinksWhole
  <2> QED
    BY <2>1 DEF NotUpNow
<1>6. visit.stillDown \subseteq NotUpNow /\ visit.neverUp \subseteq NotUpNow
  BY <1>4, WatchedLinks, TablesParts DEF VisitInv, WatchInv
<1>7. /\ \A n \in visit.stillDown : "outage" \in visit.done
      /\ \A n \in visit.neverUp : \E s \in visit.done : s # "operational"
  BY <1>4 DEF VisitInv, Covered, Underway
<1>8. WatchInv' /\ EmptyInv' /\ Covered'
  BY <1>4, QueryKeepsWatch DEF VisitInv, EmptyInv, Covered
<1>9. GotInv'
  BY <1>4, <1>5, <1>6 DEF GotInv, Nothing, Remembers
<1>10. DownSeen'
  BY <1>2, <1>4 DEF DownSeen, VisitInv, Remembers, Nothing
<1>11. OutageIsShown' /\ OperationalIsReal'
  BY <1>2, <1>4, <1>7 DEF OutageIsShown, OperationalIsReal, Remembers, PublicStatus
<1> QED
  BY <1>4, <1>8, <1>9, <1>10, <1>11 DEF VisitInv

LEMMA NoVisitKeeps == ASSUME visit' = NoVisit PROVE VisitInv' /\ visit' \in VisitRow
<1>1. visit' \in VisitRow
  BY FreshRows
<1>2. GotInv' /\ DownSeen'
  BY DEF NoVisit, GotInv, DownSeen, Nothing
<1> QED
  BY <1>1, <1>2
     DEF NoVisit, VisitInv, WatchInv, EmptyInv, Covered, OutageIsShown, OperationalIsReal

LEMMA VisitKeeps == TablesInv /\ VisitInv /\ Visit => PagesInv'
<1> SUFFICES ASSUME TablesInv, VisitInv, Visit PROVE PagesInv'
  OBVIOUS
<1>1. VisitInv' /\ visit' \in VisitRow
  BY BeginVisitKeeps, CountKeeps, ListMonitorsKeeps, ReadStateKeeps, CloseComponentKeeps,
     AnswerKeeps, NoVisitKeeps DEF Visit, EndVisit
<1>2. UNCHANGED Tables
  BY DEF Visit, BeginVisit, CountMonitors, CountIncidents, ListComponents, ListMonitors,
         ReadState, CloseComponent, Answer, EndVisit
<1>3. TablesOK'
  BY <1>2, TablesParts DEF TablesOK, Tables, LinksWhole, UsedLinks
<1> QED
  BY <1>1, <1>3, TablesParts DEF PagesInv, TablesInv, TablesOK, StatusPagesTypeOK

-----------------------------------------------------------------------------
(* The steps of the tables *)

LEMMA MonitorChangeKeeps ==
  ASSUME TablesInv, NEW m \in Monitor, MonitorChange(m)
  PROVE  TablesOK' /\ Watch
<1>1. TablesOK /\ monitor[m] \in MonitorRow
  BY TablesParts DEF TablesOK
<1>2. \E row \in MonitorRow : monitor' = [monitor EXCEPT ![m] = row]
  <2>1. CASE \E s \in {"active", "paused"} : AddMonitor(m, s)
    BY <2>1 DEF AddMonitor, MonitorRow
  <2>2. CASE RemoveMonitor(m)
    BY <2>2, FreshRows DEF RemoveMonitor
  <2>3. CASE PauseMonitor(m)
    BY <2>3 DEF PauseMonitor, MonitorRow
  <2>4. CASE ResumeMonitor(m)
    <3>1. monitor' = [monitor EXCEPT ![m] = [monitor[m] EXCEPT !.at = "active"]]
      BY <2>4 DEF ResumeMonitor
    <3> QED
      BY <1>1, <3>1 DEF MonitorRow
  <2>5. CASE \E last \in {"up", "down"} : RecordCheck(m, last)
    <3>1. PICK last \in {"up", "down"} :
            monitor' = [monitor EXCEPT ![m] = [monitor[m] EXCEPT !.last = last]]
      BY <2>5 DEF RecordCheck
    <3> QED
      BY <1>1, <3>1 DEF MonitorRow
  <2> QED
    BY <2>1, <2>2, <2>3, <2>4, <2>5 DEF MonitorChange
<1>3. UNCHANGED <<component, link, request>> /\ Watch
  BY DEF MonitorChange, AddMonitor, RemoveMonitor, PauseMonitor, ResumeMonitor, RecordCheck
<1> QED
  BY <1>1, <1>2, <1>3 DEF TablesOK, LinksWhole, UsedLinks

\* A request that only loads changes nothing else.
LEMMA BeginKeeps ==
  ASSUME TablesInv, NEW q \in Admin, NEW row \in RequestRow, Begin(q, row),
         row.at = "adding" => row.comp \in Component /\ row.mon \in Monitor
  PROVE  TablesOK' /\ UNCHANGED <<monitor, component, link, visit>>
<1>1. TablesOK
  BY TablesParts
<1>2. UNCHANGED <<monitor, component, link, visit>> /\ request' = [request EXCEPT ![q] = row]
  BY DEF Begin
<1> QED
  BY <1>1, <1>2 DEF TablesOK, LinksWhole, UsedLinks

\* Links may be taken away, and a new one may differ from all others.
LEMMA WithoutKeeps ==
  ASSUME TablesInv, NEW rows \in SUBSET LinkId, link' = Without(rows), NEW q \in Admin, End(q),
         UNCHANGED monitor, component' \subseteq Component
  PROVE  TablesOK'
<1>1. TablesOK
  BY TablesParts
<1>2. \A k \in LinkId : link'[k] = IF k \in rows THEN NoLink ELSE link[k]
  BY DEF Without
<1>3. link' \in [LinkId -> LinkRow] /\ request' \in [Admin -> RequestRow]
  BY <1>1, FreshRows DEF TablesOK, Without, End
<1>4. UsedLinks' \subseteq UsedLinks /\ \A k \in UsedLinks' : link'[k] = link[k]
  BY <1>2 DEF UsedLinks
<1>5. LinksWhole'
  BY <1>1, <1>3, <1>4 DEF TablesOK, LinksWhole, End, Idle
<1> QED
  BY <1>1, <1>3, <1>4, <1>5 DEF TablesOK

LEMMA AddLinkKeeps ==
  ASSUME TablesInv, NEW q \in Admin, AddLink(q)
  PROVE  TablesOK' /\ Watch
<1> DEFINE c == request[q].comp
           m == request[q].mon
           new == [comp |-> c, mon |-> m]
<1>1. TablesOK
  BY TablesParts
<1>2. c \in Component /\ m \in Monitor /\ Watch /\ End(q) /\ UNCHANGED <<monitor, component>>
  BY <1>1 DEF AddLink, TablesOK, LinksWhole
<1>3. request' \in [Admin -> RequestRow]
      /\ \A r \in Admin : request'[r] = IF r = q THEN Idle ELSE request[r]
  BY <1>1, <1>2, FreshRows DEF TablesOK, End
<1>4. CASE LinksBetween(c, m) # {}
  <2>1. UNCHANGED link
    BY <1>4 DEF AddLink
  <2> QED
    BY <1>1, <1>2, <1>3, <2>1 DEF TablesOK, LinksWhole, UsedLinks, Idle
<1>5. CASE LinksBetween(c, m) = {}
  <2>1. PICK k \in LinkId : NextId(UsedLinks, k) /\ link' = [link EXCEPT ![k] = new]
    BY <1>5 DEF AddLink
  <2>2. new \in LinkRow /\ new.comp = c /\ new.mon = m
    BY <1>2 DEF LinkRow
  <2>3. \A j \in LinkId : link[j] # new
    <3>1. \A j \in LinkId : link[j] = new => j \in LinksBetween(c, m)
      BY <2>2 DEF LinksBetween, LinksOf
    <3> QED
      BY <1>5, <3>1
  <2> HIDE DEF new, c, m
  <2>4. link' \in [LinkId -> LinkRow] /\ link'[k] = new
        /\ \A j \in LinkId : j # k => link'[j] = link[j]
    BY <1>1, <2>1, <2>2 DEF TablesOK
  <2>5. UsedLinks' \subseteq UsedLinks \cup {k}
    BY <2>4 DEF UsedLinks
  <2>6. \A i, j \in UsedLinks' : link'[i] = link'[j] => i = j
    BY <1>1, <2>3, <2>4, <2>5 DEF TablesOK, UsedLinks
  <2>7. LinksWhole'
    BY <1>1, <1>2, <1>3, <2>2, <2>4, <2>5 DEF TablesOK, LinksWhole, UsedLinks, Idle
  <2> QED
    BY <1>1, <1>2, <1>3, <2>4, <2>6, <2>7 DEF TablesOK
<1> QED
  BY <1>4, <1>5

LEMMA RequestKeeps ==
  ASSUME TablesInv, NEW q \in Admin, Request(q)
  PROVE  TablesOK' /\ (Watch \/ UNCHANGED <<monitor, component, link, visit>>)
<1>1. TablesOK /\ request[q] \in RequestRow /\ request[q].rows \in SUBSET LinkId
  BY TablesParts DEF TablesOK, RequestRow
<1>2. ASSUME NEW c \in Component, CreateComponent(q, c)
      PROVE  TablesOK' /\ Watch
  BY <1>1, <1>2 DEF CreateComponent, TablesOK, LinksWhole, UsedLinks
<1>3. ASSUME NEW c \in Component, LoadComponent(q, c)
      PROVE  TablesOK' /\ UNCHANGED <<monitor, component, link, visit>>
  <2> DEFINE row == [Idle EXCEPT !.at = "deleting", !.comp = c, !.rows = Cascade(c),
                                 !.had = LinksOf(c)]
  <2>1. Cascade(c) \in SUBSET LinkId /\ LinksOf(c) \in SUBSET LinkId
    BY DEF Cascade, LinksOf
  <2>2. row \in RequestRow /\ row.at = "deleting"
    BY <2>1, FreshRows DEF RequestRow
  <2>3. Begin(q, row)
    BY <1>3 DEF LoadComponent
  <2> HIDE DEF row
  <2> QED
    BY <2>2, <2>3, BeginKeeps
<1>4. ASSUME NEW c \in Component, NEW m \in Monitor, LoadForLink(q, c, m)
      PROVE  TablesOK' /\ UNCHANGED <<monitor, component, link, visit>>
  <2> DEFINE row == [Idle EXCEPT !.at = "adding", !.comp = c, !.mon = m]
  <2>1. row \in RequestRow /\ row.comp = c /\ row.mon = m
    BY FreshRows DEF RequestRow
  <2>2. Begin(q, row)
    BY <1>4 DEF LoadForLink
  <2> HIDE DEF row
  <2> QED
    BY <2>1, <2>2, BeginKeeps
<1>5. ASSUME NEW c \in Component, NEW m \in Monitor, LoadLink(q, c, m)
      PROVE  TablesOK' /\ UNCHANGED <<monitor, component, link, visit>>
  <2> DEFINE row == [Idle EXCEPT !.at = "removing", !.rows = LinksBetween(c, m)]
  <2>1. row \in RequestRow /\ row.at # "adding"
    BY FreshRows DEF RequestRow, LinksBetween, LinksOf
  <2>2. Begin(q, row)
    BY <1>5 DEF LoadLink
  <2> HIDE DEF row
  <2> QED
    BY <2>1, <2>2, BeginKeeps
<1>6. CASE DeleteComponent(q)
  BY <1>1, <1>6, WithoutKeeps DEF DeleteComponent, TablesOK
<1>7. CASE RemoveLink(q)
  BY <1>1, <1>7, WithoutKeeps DEF RemoveLink, TablesOK
<1>8. CASE AddLink(q)
  BY <1>8, AddLinkKeeps
<1> QED
  BY <1>2, <1>3, <1>4, <1>5, <1>6, <1>7, <1>8 DEF Request

-----------------------------------------------------------------------------
(* Theorems *)

LEMMA UntouchedVisit ==
  ASSUME TablesInv, VisitInv, UNCHANGED <<monitor, component, link, visit>>
  PROVE  VisitInv' /\ visit' \in VisitRow
  BY TablesParts DEF VisitInv, WatchInv, EmptyInv, GotInv, DownSeen, Covered, Underway,
     OutageIsShown, OperationalIsReal, DownNow, NotUpNow, SomeDown, UsedLinks

LEMMA PagesNext == PagesInv /\ [Next]_vars => PagesInv'
<1> SUFFICES ASSUME PagesInv, [Next]_vars PROVE PagesInv'
  OBVIOUS
<1>1. TablesInv /\ VisitInv
  BY DEF PagesInv
<1>2. ASSUME TablesOK', (MayChange /\ Watch) \/ UNCHANGED <<monitor, component, link, visit>>
      PROVE  PagesInv'
  <2>1. VisitInv' /\ visit' \in VisitRow
    BY <1>1, <1>2, ChangeKeepsVisit, UntouchedVisit
  <2> QED
    BY <1>2, <2>1 DEF PagesInv, TablesInv, TablesOK, StatusPagesTypeOK
<1>3. ASSUME MayChange, NEW m \in Monitor, MonitorChange(m) PROVE PagesInv'
  BY <1>1, <1>2, <1>3, MonitorChangeKeeps
<1>4. ASSUME MayChange, NEW q \in Admin, Request(q) PROVE PagesInv'
  BY <1>1, <1>2, <1>4, RequestKeeps
<1>5. CASE Visit
  BY <1>1, <1>5, VisitKeeps
<1>6. CASE UNCHANGED vars
  BY <1>1, <1>2, <1>6, TablesParts DEF vars, TablesOK, LinksWhole, UsedLinks
<1> QED
  BY <1>3, <1>4, <1>5, <1>6 DEF Next

LEMMA PagesInit == Init => PagesInv
<1> SUFFICES ASSUME Init PROVE PagesInv
  OBVIOUS
<1>1. TablesOK
  BY FreshRows DEF Init, TablesOK, LinksWhole, UsedLinks, Idle
<1>2. visit = NoVisit
  BY DEF Init
<1>3. visit \in VisitRow
  BY <1>2, FreshRows
<1>4. GotInv /\ DownSeen
  BY <1>2 DEF NoVisit, GotInv, DownSeen, Nothing
<1>5. VisitInv
  BY <1>2, <1>4
     DEF NoVisit, VisitInv, WatchInv, EmptyInv, Covered, OutageIsShown, OperationalIsReal
<1> QED
  BY <1>1, <1>3, <1>5, TablesParts DEF PagesInv

LEMMA PagesInvariant == Spec => []PagesInv
  BY PagesInit, PagesNext, PTL DEF Spec

\* The rows of the page, what requests have loaded and the visit are well typed,
\* and no monitor is linked twice to a component, although add_component_monitor
\* looks for the link before it takes the writer lock.
THEOREM StatusPagesTypeCorrect == Spec => []StatusPagesTypeOK
<1>1. PagesInv => StatusPagesTypeOK
  BY DEF PagesInv, TablesInv
<1> QED
  BY <1>1, PagesInvariant, PTL

\* An outage that lasts through the whole visit is told by the page, although
\* its queries see different moments and it keeps statuses it has read for
\* another component.
THEOREM LastingOutagesShown == Spec => []OutageIsShown
<1>1. PagesInv => OutageIsShown
  BY DEF PagesInv, VisitInv
<1> QED
  BY <1>1, PagesInvariant, PTL

\* The page tells no outage unless a monitor was down at a moment of the visit.
THEOREM OutagesReal == Spec => []OutageIsReal
<1>1. PagesInv => OutageIsReal
  BY DEF PagesInv, VisitInv, DownSeen, OutageIsReal
<1> QED
  BY <1>1, PagesInvariant, PTL

\* The page is not operational, nor of sample data, if a linked active monitor
\* was down or unchecked all through the visit.
THEOREM OperationalReal == Spec => []OperationalIsReal
<1>1. PagesInv => OperationalIsReal
  BY DEF PagesInv, VisitInv
<1> QED
  BY <1>1, PagesInvariant, PTL

-----------------------------------------------------------------------------
(* Links and components, with requests that overlap *)

\* What the cascade of a deletion has loaded is what the component had.
CascadeLoaded == \A q \in Admin : request[q].at = "deleting" => request[q].had \subseteq request[q].rows

LEMMA CascadeNext ==
  ASSUME PagesInv, CascadeLoaded, [Next]_vars
  PROVE  CascadeLoaded'
<1>1. TablesOK
  BY TablesParts DEF PagesInv
<1>2. UNCHANGED request => CascadeLoaded'
  BY DEF CascadeLoaded
<1>3. ASSUME NEW m \in Monitor, MonitorChange(m) PROVE UNCHANGED request
  BY <1>3 DEF MonitorChange, AddMonitor, RemoveMonitor, PauseMonitor, ResumeMonitor, RecordCheck
<1>4. Visit => UNCHANGED request
  BY DEF Visit, BeginVisit, CountMonitors, CountIncidents, ListComponents, ListMonitors,
         ReadState, CloseComponent, Answer, EndVisit, Tables
<1>5. ASSUME NEW q \in Admin, NEW row, request' = [request EXCEPT ![q] = row],
             row.at = "deleting" => row.had \subseteq row.rows
      PROVE  CascadeLoaded'
  BY <1>1, <1>5 DEF CascadeLoaded, TablesOK
<1>6. ASSUME NEW q \in Admin, Request(q) PROVE CascadeLoaded'
  <2>1. ASSUME NEW c \in Component, CreateComponent(q, c) PROVE CascadeLoaded'
    BY <1>2, <2>1 DEF CreateComponent
  <2>2. ASSUME NEW c \in Component, LoadComponent(q, c) PROVE CascadeLoaded'
    <3> DEFINE row == [Idle EXCEPT !.at = "deleting", !.comp = c, !.rows = Cascade(c),
                                   !.had = LinksOf(c)]
    <3>1. row.rows = row.had
      BY DEF Idle, Cascade
    <3>2. request' = [request EXCEPT ![q] = row]
      BY <2>2 DEF LoadComponent, Begin
    <3> HIDE DEF row
    <3> QED
      BY <1>5, <3>1, <3>2
  <2>3. ASSUME NEW c \in Component, NEW m \in Monitor, LoadForLink(q, c, m) \/ LoadLink(q, c, m)
        PROVE  CascadeLoaded'
    <3>1. /\ [Idle EXCEPT !.at = "adding", !.comp = c, !.mon = m].at # "deleting"
          /\ [Idle EXCEPT !.at = "removing", !.rows = LinksBetween(c, m)].at # "deleting"
      BY DEF Idle
    <3> QED
      BY <1>5, <2>3, <3>1 DEF LoadForLink, LoadLink, Begin
  <2>4. CASE DeleteComponent(q) \/ RemoveLink(q) \/ AddLink(q)
    BY <1>5, <2>4 DEF DeleteComponent, RemoveLink, AddLink, End, Idle
  <2> QED
    BY <1>6, <2>1, <2>2, <2>3, <2>4 DEF Request
<1>7. UNCHANGED vars => UNCHANGED request
  BY DEF vars
<1> QED
  BY <1>2, <1>3, <1>4, <1>6, <1>7 DEF Next

\* A request that ends leaves no link without a component, but in an overlap.
LEMMA RequestLinks ==
  ASSUME PagesInv, CascadeLoaded, NEW q \in Admin, Request(q),
         NEW k \in LinkId, HasComponent(k), ~HasComponent(k)'
  PROVE  /\ \/ request[q].at = "deleting" /\ k \notin request[q].had
            \/ request[q].at = "adding" /\ request[q].comp \notin component
         /\ request'[q].at = "idle"
<1>1. TablesOK
  BY TablesParts DEF PagesInv
<1>2. link'[k] # NoLink /\ link'[k].comp \notin component'
  BY DEF HasComponent
<1>3. End(q) => request'[q].at = "idle"
  BY <1>1 DEF End, Idle, TablesOK
<1>4. CASE DeleteComponent(q)
  <2>1. /\ request[q].at = "deleting" /\ request[q].had \subseteq request[q].rows
        /\ link' = Without(request[q].rows) /\ End(q)
    BY <1>4 DEF DeleteComponent, CascadeLoaded
  <2>2. k \notin request[q].rows
    BY <1>2, <2>1 DEF Without
  <2> QED
    BY <1>3, <2>1, <2>2
<1>5. CASE AddLink(q)
  <2> DEFINE new == [comp |-> request[q].comp, mon |-> request[q].mon]
  <2>1. /\ request[q].at = "adding" /\ End(q) /\ component' = component
        /\ link' = link \/ \E j \in LinkId : link' = [link EXCEPT ![j] = new]
    BY <1>5 DEF AddLink
  <2>2. new.comp = request[q].comp
    OBVIOUS
  <2> HIDE DEF new
  <2>3. link'[k] = link[k] \/ link'[k] = new
    BY <1>1, <2>1 DEF TablesOK
  <2>4. link'[k] # link[k]
    BY <1>2, <2>1 DEF HasComponent
  <2> QED
    BY <1>2, <1>3, <2>1, <2>2, <2>3, <2>4
<1>6. CASE RemoveLink(q)
  <2>1. component' = component /\ link' = Without(request[q].rows)
    BY <1>6 DEF RemoveLink
  <2>2. link'[k] = link[k]
    BY <1>2, <2>1 DEF Without
  <2> QED
    BY <1>2, <2>1, <2>2 DEF HasComponent
<1>7. CASE link' = link /\ component \subseteq component'
  BY <1>2, <1>7 DEF HasComponent
<1> QED
  BY <1>4, <1>5, <1>6, <1>7
     DEF Request, CreateComponent, LoadComponent, LoadForLink, LoadLink, Begin

\* However many administrators change the page at the same time, a link is left
\* without its component only if it was added after the deletion had loaded the links
\* of the component, or the component deleted after the addition had looked it up.
THEOREM LinksHaveComponents == Spec => LinkUnlessOverlapped
<1>1. Init => CascadeLoaded
  BY DEF Init, CascadeLoaded, Idle
<1>2. PagesInv /\ CascadeLoaded /\ [Next]_vars => CascadeLoaded'
  BY CascadeNext
<1>3. PagesInv /\ CascadeLoaded /\ [Next]_vars
        => [\A k \in LinkId : HasComponent(k) /\ ~HasComponent(k)' =>
              \E q \in Admin :
                /\ \/ request[q].at = "deleting" /\ k \notin request[q].had
                   \/ request[q].at = "adding" /\ request[q].comp \notin component
                /\ request'[q].at = "idle"]_vars
  <2> SUFFICES ASSUME PagesInv, CascadeLoaded, [Next]_vars,
                      NEW k \in LinkId, HasComponent(k), ~HasComponent(k)'
               PROVE  \E q \in Admin : Request(q)
    BY RequestLinks
  <2>1. ~UNCHANGED <<link, component>>
    BY DEF HasComponent
  <2>2. \A m \in Monitor : ~MonitorChange(m)
    BY <2>1
       DEF MonitorChange, AddMonitor, RemoveMonitor, PauseMonitor, ResumeMonitor, RecordCheck
  <2>3. ~Visit
    BY <2>1 DEF Visit, BeginVisit, CountMonitors, CountIncidents, ListComponents, ListMonitors,
                ReadState, CloseComponent, Answer, EndVisit, Tables
  <2>4. ~UNCHANGED vars
    BY <2>1 DEF vars
  <2> QED
    BY <2>2, <2>3, <2>4 DEF Next
<1> QED
  BY <1>1, <1>2, <1>3, PagesInvariant, PTL DEF Spec, LinkUnlessOverlapped
=============================================================================
