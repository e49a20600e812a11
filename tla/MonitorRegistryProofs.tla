------------------------ MODULE MonitorRegistryProofs ------------------------
(***************************************************************************)
(* Theorems about MonitorRegistry and PublicSummary, for every number of   *)
(* administrators and monitors: how far MAX_MONITORS can be exceeded, that *)
(* updates of different columns keep each other, and that a visitor is     *)
(* told what was right at some moment of the visit.                        *)
(***************************************************************************)
EXTENDS PublicSummary, FiniteSetTheorems, TLAPS

\* Requests that have counted the monitors and not yet inserted one.
Creating == {q \in Admin : request[q].at = "counted"}

\* The monitors there are and those that may still be inserted stay within what
\* all administrators can add to a table that had room for one.
RegistryInv ==
  /\ live \subseteq Monitor
  /\ request = [q \in Admin |-> request[q]]
  /\ Cardinality(live) + Cardinality(Creating) <= MaxMonitors + Cardinality(Admin) - 1

\* Both sets are finite, so their cardinalities are numbers.
LEMMA FiniteSets ==
  ASSUME RegistryInv
  PROVE  /\ IsFiniteSet(live) /\ Cardinality(live) \in Nat
         /\ IsFiniteSet(Creating) /\ Cardinality(Creating) \in Nat
         /\ Cardinality(Creating) <= Cardinality(Admin)
         /\ Cardinality(Admin) \in Nat \ {0} /\ MaxMonitors \in Nat
<1>1. IsFiniteSet(Monitor)
  BY FS_Interval, RegistryBounds DEF Monitor
<1>2. IsFiniteSet(live)
  BY <1>1, FS_Subset DEF RegistryInv
<1>3. IsFiniteSet(Creating) /\ Cardinality(Creating) <= Cardinality(Admin)
  BY RegistryAdmins, FS_Subset DEF Creating
<1>4. Cardinality(Admin) \in Nat \ {0}
  BY RegistryAdmins, FS_CardinalityType, FS_EmptySet
<1> QED
  BY <1>2, <1>3, <1>4, FS_CardinalityType, RegistryBounds

\* A request that leaves the counting, or never was there, adds no creation.
LEMMA EndsCreation ==
  ASSUME RegistryInv, NEW q \in Admin, NEW r, r.at # "counted",
         request' = [request EXCEPT ![q] = r]
  PROVE  /\ request' = [p \in Admin |-> request'[p]]
         /\ Creating' = Creating \ {q}
  BY DEF RegistryInv, Creating

\* Without a new monitor the sum does not grow.
LEMMA SumKept ==
  ASSUME RegistryInv, NEW q \in Admin, live' \in SUBSET live,
         request' = [p \in Admin |-> request'[p]],
         Creating' = Creating \ {q}
  PROVE  RegistryInv'
<1>1. Cardinality(live') <= Cardinality(live) /\ Cardinality(live') \in Nat
  BY FiniteSets, FS_Subset, FS_CardinalityType
<1>2. Cardinality(Creating') <= Cardinality(Creating) /\ Cardinality(Creating') \in Nat
  <2>1. Creating' \in SUBSET Creating
    OBVIOUS
  <2> QED
    BY <2>1, FiniteSets, FS_Subset, FS_CardinalityType
<1>3. Cardinality(live') + Cardinality(Creating') <= MaxMonitors + Cardinality(Admin) - 1
  BY <1>1, <1>2, FiniteSets DEF RegistryInv
<1> QED
  BY <1>3 DEF RegistryInv

\* The count finds room for one, and at most every administrator is creating.
LEMMA CountKeepsInv ==
  ASSUME RegistryInv, NEW q \in Admin, NEW p \in Creations, CountMonitors(q, p)
  PROVE  RegistryInv'
<1>1. /\ live' = live
      /\ request' = [r \in Admin |-> request'[r]]
  BY DEF CountMonitors, RegistryInv
<1>2. Cardinality(live) <= MaxMonitors - 1
  BY FiniteSets DEF CountMonitors, HasRoom
<1>3. Cardinality(Creating') <= Cardinality(Admin) /\ Cardinality(Creating') \in Nat
  <2>1. Creating' \in SUBSET Admin
    BY DEF Creating
  <2> QED
    BY <2>1, RegistryAdmins, FS_Subset, FS_CardinalityType
<1>4. Cardinality(live') + Cardinality(Creating') <= MaxMonitors + Cardinality(Admin) - 1
  BY <1>1, <1>2, <1>3, FiniteSets
<1> QED
  BY <1>1, <1>4 DEF RegistryInv

\* The insert turns a creation under way into a monitor.
LEMMA CreateKeepsInv ==
  ASSUME RegistryInv, NEW q \in Admin, CreateMonitor(q)
  PROVE  RegistryInv'
<1>1. PICK m \in Monitor \ live : live' = live \cup {m}
  BY DEF CreateMonitor
<1>2. q \in Creating
  BY DEF CreateMonitor, Creating
<1>3. /\ request' = [p \in Admin |-> request'[p]]
      /\ Creating' = Creating \ {q}
  BY EndsCreation DEF CreateMonitor, Idle
<1>4. Cardinality(live') = Cardinality(live) + 1
  BY <1>1, FiniteSets, FS_AddElement
<1>5. Cardinality(Creating') = Cardinality(Creating) - 1
  BY <1>2, <1>3, FiniteSets, FS_RemoveElement
<1>6. live' \subseteq Monitor
  BY <1>1 DEF RegistryInv
<1>7. Cardinality(live') + Cardinality(Creating') <= MaxMonitors + Cardinality(Admin) - 1
  BY <1>4, <1>5, FiniteSets DEF RegistryInv
<1> QED
  BY <1>3, <1>6, <1>7 DEF RegistryInv

\* Every other step of a request leaves the counting or never was there.
LEMMA OtherServeKeepsInv ==
  ASSUME RegistryInv, NEW q \in Admin,
         \/ \E m \in Monitor, p \in Updates : LoadMonitor(q, m, p)
         \/ UpdateMonitor(q)
         \/ \E m \in Monitor : LoadForDelete(q, m)
         \/ DeleteMonitor(q)
         \/ GiveUp(q)
  PROVE  RegistryInv'
<1>1. live' \in SUBSET live
  BY DEF LoadMonitor, UpdateMonitor, LoadForDelete, DeleteMonitor, GiveUp
<1>2. \E r : r.at # "counted" /\ request' = [request EXCEPT ![q] = r]
  BY DEF LoadMonitor, UpdateMonitor, LoadForDelete, DeleteMonitor, GiveUp, Idle
<1>3. PICK r : r.at # "counted" /\ request' = [request EXCEPT ![q] = r]
  BY <1>2
<1>4. /\ request' = [p \in Admin |-> request'[p]]
      /\ Creating' = Creating \ {q}
  BY <1>3, EndsCreation
<1> QED
  BY <1>1, <1>4, SumKept

\* Checks and changes of incidents leave monitors and requests alone.
LEMMA UntouchedKeepsInv ==
  ASSUME RegistryInv, live' = live, request' = request
  PROVE  RegistryInv'
  BY DEF RegistryInv, Creating

\* The empty table and no requests.
LEMMA InitInv == Init => RegistryInv
<1> SUFFICES ASSUME Init PROVE RegistryInv
  OBVIOUS
<1>1. live = {} /\ request = [q \in Admin |-> Idle]
  BY DEF Init
<1>2. Creating = {}
  BY <1>1 DEF Creating, Idle
<1>3. Cardinality(Admin) \in Nat \ {0}
  BY RegistryAdmins, FS_CardinalityType, FS_EmptySet
<1>4. Cardinality(live) + Cardinality(Creating) <= MaxMonitors + Cardinality(Admin) - 1
  BY <1>1, <1>2, <1>3, FS_EmptySet, RegistryBounds
<1> QED
  BY <1>1, <1>4 DEF RegistryInv

\* Each step keeps the invariant.
LEMMA NextInv == RegistryInv /\ [RegistryNext]_registryVars => RegistryInv'
<1> SUFFICES ASSUME RegistryInv, [RegistryNext]_registryVars PROVE RegistryInv'
  OBVIOUS
<1>1. ASSUME NEW q \in Admin, Serve(q) PROVE RegistryInv'
  BY <1>1, CountKeepsInv, CreateKeepsInv, OtherServeKeepsInv DEF Serve
<1>2. ASSUME NEW m \in Monitor, Check(m) PROVE RegistryInv'
  BY <1>2, UntouchedKeepsInv DEF Check, FailCheck, PassCheck
<1>3. CASE ResolveIncident \/ ReopenIncident
  BY <1>3, UntouchedKeepsInv DEF ResolveIncident, ReopenIncident
<1>4. CASE UNCHANGED registryVars
  BY <1>4, UntouchedKeepsInv DEF registryVars
<1> QED
  BY <1>1, <1>2, <1>3, <1>4 DEF RegistryNext

\* MAX_MONITORS is exceeded by at most one monitor per further administrator
\* thread: create_monitor counts before it inserts, but only once per request.
THEOREM MonitorsBounded == RegistrySpec => []MonitorCountBounded
<1>1. RegistryInv => MonitorCountBounded
  <2> SUFFICES ASSUME RegistryInv PROVE MonitorCountBounded
    OBVIOUS
  <2> QED
    BY FiniteSets DEF RegistryInv, MonitorCountBounded
<1> QED
  BY <1>1, InitInv, NextInv, PTL DEF RegistrySpec

-----------------------------------------------------------------------------
(* Types *)

Row == [min : Nat, max : Nat, paused : BOOLEAN]
Payload(p) == DOMAIN p \subseteq Columns /\ \A c \in DOMAIN p : p[c] \in Values(c)

\* A request carries a payload, and sets columns of it only.
RequestFits(r) ==
  /\ r.at \in {"idle", "counted", "loaded", "deleting"}
  /\ r.at = "counted" => Payload(r.payload)
  /\ r.at = "loaded" => Payload(r.set) /\ DOMAIN r.set \subseteq DOMAIN r.payload

TypesInv ==
  /\ live \subseteq Monitor /\ linked \subseteq live
  /\ row \in [Monitor -> Row]
  /\ status \in [Monitor -> {"unknown", "up", "down", "paused"}]
  /\ incidents \in [total : Int, open : Int]
  /\ incidents.total \in 0 .. MaxIncidents
  /\ Cardinality(linked) <= incidents.open /\ incidents.open <= incidents.total
  /\ request = [q \in Admin |-> request[q]] /\ \A q \in Admin : RequestFits(request[q])

LEMMA DefaultIsRow == DefaultRow \in Row /\ Columns = {"min", "max", "paused"}
BY DEF DefaultRow, Row, Columns

LEMMA GivenIsRow ==
  ASSUME NEW p, NEW r \in Row, Payload(p)
  PROVE  Given(p, r) \in Row
<1> DEFINE g == Given(p, r)
<1>1. r["min"] \in Nat /\ r["max"] \in Nat /\ r["paused"] \in BOOLEAN
  BY DEF Row
<1>2. /\ "min" \in DOMAIN p => p["min"] \in Nat
      /\ "max" \in DOMAIN p => p["max"] \in Nat
      /\ "paused" \in DOMAIN p => p["paused"] \in BOOLEAN
  BY DEF Payload, Values
<1>3. g["min"] \in Nat /\ g["max"] \in Nat /\ g["paused"] \in BOOLEAN
  BY <1>1, <1>2, DefaultIsRow DEF Given
<1>4. g = [c \in {"min", "max", "paused"} |-> g[c]]
  BY DefaultIsRow DEF Given
<1> HIDE DEF g
<1>5. g = [min |-> g["min"], max |-> g["max"], paused |-> g["paused"]]
  BY <1>4
<1>6. g \in Row
  BY <1>3, <1>5 DEF Row
<1> QED BY <1>6 DEF g

\* The linked monitors are finitely many.
LEMMA LinkedFinite ==
  ASSUME TypesInv
  PROVE  IsFiniteSet(linked) /\ Cardinality(linked) \in Nat
<1>1. IsFiniteSet(Monitor)
  BY FS_Interval, RegistryBounds DEF Monitor
<1> QED BY <1>1, FS_Subset, FS_CardinalityType DEF TypesInv

LEMMA InitRegistryTypes == Init => TypesInv
<1> SUFFICES ASSUME Init PROVE TypesInv
  OBVIOUS
<1>1. Cardinality(linked) = 0
  BY FS_EmptySet DEF Init
<1>2. /\ incidents \in [total : Int, open : Int] /\ incidents.total \in 0 .. MaxIncidents
      /\ Cardinality(linked) <= incidents.open /\ incidents.open <= incidents.total
  BY <1>1, RegistryBounds DEF Init
<1>3. request = [q \in Admin |-> request[q]] /\ \A q \in Admin : RequestFits(request[q])
  BY DEF Init, RequestFits, Idle
<1>4. row \in [Monitor -> Row]
  BY DefaultIsRow DEF Init
<1> QED BY <1>2, <1>3, <1>4 DEF Init, TypesInv

\* Requests: what Serve does to the types.
LEMMA RequestTypes ==
  ASSUME TypesInv, NEW q \in Admin, NEW r, RequestFits(r), request' = [request EXCEPT ![q] = r]
  PROVE  request' = [p \in Admin |-> request'[p]] /\ \A p \in Admin : RequestFits(request'[p])
BY DEF TypesInv

LEMMA IdleFits == RequestFits(Idle)
BY DEF RequestFits, Idle

LEMMA ServeTypes ==
  ASSUME TypesInv, NEW q \in Admin, Serve(q)
  PROVE  TypesInv'
<1>1. ASSUME UNCHANGED <<live, row, status, linked, incidents>>,
             NEW r, RequestFits(r), request' = [request EXCEPT ![q] = r]
      PROVE  TypesInv'
  BY <1>1, RequestTypes DEF TypesInv
<1>2. ASSUME NEW p \in Creations, CountMonitors(q, p) PROVE TypesInv'
  <2>1. Payload(p)
    BY RegistryPayloads DEF Payload
  <2>2. RequestFits([Idle EXCEPT !.at = "counted", !.payload = p])
    BY <2>1 DEF RequestFits, Idle
  <2> QED BY <1>1, <1>2, <2>2 DEF CountMonitors
<1>3. CASE CreateMonitor(q)
  <2> DEFINE new == Given(request[q].payload, DefaultRow)
  <2>1. new \in Row
    BY <1>3, DefaultIsRow, GivenIsRow DEF CreateMonitor, TypesInv, RequestFits
  <2>2. PICK m \in Monitor \ live : /\ live' = live \cup {m} /\ row' = [row EXCEPT ![m] = new]
                                    /\ status' = [status EXCEPT ![m] = Synced(new, "unknown")]
    BY <1>3 DEF CreateMonitor
  <2>3. request' = [request EXCEPT ![q] = Idle] /\ UNCHANGED <<linked, incidents>>
    BY <1>3 DEF CreateMonitor
  <2>4. row' \in [Monitor -> Row]
    BY <2>1, <2>2 DEF TypesInv
  <2>5. status' \in [Monitor -> {"unknown", "up", "down", "paused"}]
    BY <2>2 DEF TypesInv, Synced
  <2>6. live' \subseteq Monitor /\ linked' \subseteq live'
    BY <2>2, <2>3 DEF TypesInv
  <2> QED BY <2>3, <2>4, <2>5, <2>6, IdleFits, RequestTypes DEF TypesInv
<1>4. ASSUME NEW m \in Monitor, NEW p \in Updates, LoadMonitor(q, m, p) PROVE TypesInv'
  <2> DEFINE set == Changed(p, row[m])
  <2>1. Payload(p)
    BY RegistryPayloads DEF Payload
  <2>2. DOMAIN set \subseteq DOMAIN p /\ \A c \in DOMAIN set : set[c] = p[c]
    BY DEF Changed
  <2>3. Payload(set)
    BY <2>1, <2>2 DEF Payload
  <2> HIDE DEF set
  <2>4. RequestFits([at |-> "loaded", mon |-> m, payload |-> p, set |-> set])
    BY <2>2, <2>3 DEF RequestFits
  <2> QED BY <1>1, <1>4, <2>4 DEF LoadMonitor, set
<1>5. CASE UpdateMonitor(q)
  <2> DEFINE r == request[q]  new == Given(r.set, row[r.mon])
  <2>1. r.mon \in Monitor /\ row[r.mon] \in Row
    BY <1>5 DEF UpdateMonitor, TypesInv
  <2>2. new \in Row
    BY <1>5, <2>1, GivenIsRow DEF UpdateMonitor, TypesInv, RequestFits
  <2>3. /\ row' = [row EXCEPT ![r.mon] = new]
        /\ status' \in {status, [status EXCEPT ![r.mon] = Synced(new, @)]}
        /\ request' = [request EXCEPT ![q] = Idle] /\ UNCHANGED <<live, linked, incidents>>
    BY <1>5 DEF UpdateMonitor
  <2>4. row' \in [Monitor -> Row]
    BY <2>2, <2>3 DEF TypesInv
  <2>5. status' \in [Monitor -> {"unknown", "up", "down", "paused"}]
    BY <2>1, <2>3 DEF TypesInv, Synced
  <2> QED BY <2>3, <2>4, <2>5, IdleFits, RequestTypes DEF TypesInv
<1>6. ASSUME NEW m \in Monitor, LoadForDelete(q, m) PROVE TypesInv'
  <2>1. RequestFits([Idle EXCEPT !.at = "deleting", !.mon = m])
    BY DEF RequestFits, Idle
  <2> QED BY <1>1, <1>6, <2>1 DEF LoadForDelete
<1>7. CASE DeleteMonitor(q)
  <2> DEFINE m == request[q].mon
  <2>1. /\ live' = live \ {m} /\ linked' = linked \ {m} /\ row' = [row EXCEPT ![m] = DefaultRow]
        /\ status' = [status EXCEPT ![m] = "unknown"] /\ incidents' = incidents
        /\ request' = [request EXCEPT ![q] = Idle]
    BY <1>7 DEF DeleteMonitor, IncidentsAfterDelete
  <2>2. Cardinality(linked') <= Cardinality(linked) /\ Cardinality(linked') \in Nat
    BY <2>1, LinkedFinite, FS_Subset, FS_CardinalityType
  <2>3. Cardinality(linked') <= incidents'.open /\ incidents'.open <= incidents'.total
    BY <2>1, <2>2, LinkedFinite DEF TypesInv
  <2>4. row' \in [Monitor -> Row]
    BY <2>1, DefaultIsRow DEF TypesInv
  <2>5. /\ status' \in [Monitor -> {"unknown", "up", "down", "paused"}]
        /\ live' \subseteq Monitor /\ linked' \subseteq live'
    BY <2>1 DEF TypesInv
  <2> QED BY <2>1, <2>3, <2>4, <2>5, IdleFits, RequestTypes DEF TypesInv
<1>8. CASE GiveUp(q)
  BY <1>1, <1>8, IdleFits DEF GiveUp
<1> QED BY <1>2, <1>3, <1>4, <1>5, <1>6, <1>7, <1>8 DEF Serve

LEMMA CheckTypes ==
  ASSUME TypesInv, NEW m \in Monitor, Check(m)
  PROVE  TypesInv'
<1>1. PICK code : FailCheck(m, code) \/ PassCheck(m, code)
  BY DEF Check
<1>2. /\ m \in live /\ UNCHANGED <<live, row, request>>
      /\ status' \in [Monitor -> {"unknown", "up", "down", "paused"}]
  BY <1>1 DEF FailCheck, PassCheck, TypesInv
<1>3. /\ linked' \subseteq live /\ incidents' \in [total : Int, open : Int]
      /\ incidents'.total \in 0 .. MaxIncidents
      /\ Cardinality(linked') <= incidents'.open /\ incidents'.open <= incidents'.total
  <2>1. CASE UNCHANGED <<incidents, linked>>
    BY <2>1 DEF TypesInv
  <2>2. CASE /\ m \notin linked /\ incidents.total < MaxIncidents
             /\ incidents' = [total |-> incidents.total + 1, open |-> incidents.open + 1]
             /\ linked' = linked \cup {m}
    <3>1. Cardinality(linked') = Cardinality(linked) + 1
      BY <2>2, LinkedFinite, FS_AddElement
    <3> QED BY <1>2, <2>2, <3>1, LinkedFinite, RegistryBounds DEF TypesInv
  <2>3. CASE /\ m \in linked /\ incidents' = [incidents EXCEPT !.open = @ - 1]
             /\ linked' = linked \ {m}
    <3>1. Cardinality(linked') = Cardinality(linked) - 1
      BY <2>3, LinkedFinite, FS_RemoveElement
    <3> QED BY <2>3, <3>1, LinkedFinite DEF TypesInv
  <2> QED BY <1>1, <2>1, <2>2, <2>3 DEF FailCheck, PassCheck
<1> QED BY <1>2, <1>3 DEF TypesInv

LEMMA ResolutionTypes ==
  ASSUME TypesInv, ResolveIncident \/ ReopenIncident
  PROVE  TypesInv'
<1>1. UNCHANGED <<live, row, status, request>>
  BY DEF ResolveIncident, ReopenIncident
<1>2. CASE ReopenIncident
  BY <1>1, <1>2, LinkedFinite DEF ReopenIncident, TypesInv
<1>3. ASSUME NEW m \in linked, linked' = linked \ {m}, incidents' = [incidents EXCEPT !.open = @ - 1]
      PROVE  TypesInv'
  <2>1. Cardinality(linked') = Cardinality(linked) - 1
    BY <1>3, LinkedFinite, FS_RemoveElement
  <2> QED BY <1>1, <1>3, <2>1, LinkedFinite DEF TypesInv
<1>4. CASE /\ incidents.open > Cardinality(linked) /\ linked' = linked
           /\ incidents' = [incidents EXCEPT !.open = @ - 1]
  BY <1>1, <1>4, LinkedFinite DEF TypesInv
<1> QED BY <1>2, <1>3, <1>4 DEF ResolveIncident

LEMMA NextRegistryTypes == TypesInv /\ [RegistryNext]_registryVars => TypesInv'
<1> SUFFICES ASSUME TypesInv, [RegistryNext]_registryVars PROVE TypesInv'
  OBVIOUS
<1>1. CASE UNCHANGED registryVars
  BY <1>1 DEF registryVars, TypesInv
<1> QED BY <1>1, ServeTypes, CheckTypes, ResolutionTypes DEF RegistryNext

\* Rows, states and requests have their types, and no incident is linked twice:
\* there are open incidents for all monitors that link one.
THEOREM RegistryTypeCorrect == RegistrySpec => []RegistryTypeOK
<1>1. TypesInv => RegistryTypeOK
  BY DEF TypesInv, RegistryTypeOK, Row, RequestFits
<1> QED BY <1>1, InitRegistryTypes, NextRegistryTypes, PTL DEF RegistrySpec

\* PATCH /monitors/{id} of one administrator never undoes that of another who set
\* other columns, though each loads the row before it writes.
THEOREM UpdatesKeepOthers == RegistrySpec => UpdateKeepsOthers
<1> DEFINE Asked(m, c) == \E q \in Admin : request[q].mon = m /\ c \in DOMAIN request[q].payload
           Kept == \A m \in live \cap live' : \A c \in Columns :
                     row'[m][c] # row[m][c] => Asked(m, c)
<1>1. TypesInv /\ [RegistryNext]_registryVars => [Kept]_registryVars
  <2> SUFFICES ASSUME TypesInv, RegistryNext PROVE Kept
    OBVIOUS
  <2>1. CASE row' = row
    BY <2>1
  <2>2. ASSUME NEW q \in Admin, CreateMonitor(q) PROVE Kept
    <3> DEFINE new == Given(request[q].payload, DefaultRow)
    <3>1. PICK k \in Monitor \ live : live' = live \cup {k} /\ row' = [row EXCEPT ![k] = new]
      BY <2>2 DEF CreateMonitor
    <3> QED BY <3>1 DEF TypesInv
  <2>3. ASSUME NEW q \in Admin, UpdateMonitor(q) PROVE Kept
    <3> DEFINE r == request[q]
    <3>1. /\ r.mon \in live /\ row' = [row EXCEPT ![r.mon] = Given(r.set, row[r.mon])]
          /\ DOMAIN r.set \subseteq DOMAIN r.payload
      BY <2>3 DEF UpdateMonitor, TypesInv, RequestFits
    <3>2. ASSUME NEW m \in live, NEW c \in Columns, row'[m][c] # row[m][c]
          PROVE  m = r.mon /\ c \in DOMAIN r.set
      BY <3>1, <3>2 DEF TypesInv, Given
    <3> QED BY <3>1, <3>2
  <2>4. ASSUME NEW q \in Admin, DeleteMonitor(q) PROVE Kept
    <3>1. PICK k : live' = live \ {k} /\ row' = [row EXCEPT ![k] = DefaultRow]
      BY <2>4 DEF DeleteMonitor
    <3> QED BY <3>1 DEF TypesInv
  <2>5. CASE ~\E q \in Admin : CreateMonitor(q) \/ UpdateMonitor(q) \/ DeleteMonitor(q)
    <3>1. row' = row
      BY <2>5 DEF RegistryNext, Serve, CountMonitors, LoadMonitor, LoadForDelete, GiveUp, Check,
         FailCheck, PassCheck, ResolveIncident, ReopenIncident
    <3> QED BY <2>1, <3>1
  <2> QED BY <2>2, <2>3, <2>4, <2>5
<1>2. RegistrySpec => [][Kept]_registryVars
  BY <1>1, InitRegistryTypes, NextRegistryTypes, PTL DEF RegistrySpec
<1> QED BY <1>2 DEF UpdateKeepsOthers

-----------------------------------------------------------------------------
(* Visitors *)

\* A visitor only watches: the composition behaves as the registry does.
THEOREM SummaryImplementsRegistry == SummarySpec => RegistrySpec
<1>1. SummaryInit => Init
  BY DEF SummaryInit
<1>2. [SummaryNext]_summaryVars => [RegistryNext]_registryVars
  BY DEF SummaryNext, summaryVars, RegistryStep, Visit, BeginVisit, Count, ReadMonitors,
         ReadStates, CountAllIncidents, CountOpenIncidents, EndVisit
<1> QED
  BY <1>1, <1>2, PTL DEF SummarySpec, RegistrySpec

\* So the bound holds whatever visitors do.
COROLLARY SummaryMonitorsBounded == SummarySpec => []MonitorCountBounded
  BY MonitorsBounded, SummaryImplementsRegistry

\* While the visit counts: what is right now has been seen, and what the counts
\* so far can still lead to.
CountingFits ==
  LET total == incidents.total IN
  \/ /\ visit.path = "summary"
     /\ \/ visit.todo = <<"monitors", "incidents">>
        \/ visit.todo = <<"incidents">> /\ (total = 0 => "sample" \in seen)
  \/ /\ visit.path = "incidents"
     /\ \/ visit.todo = <<"incidents", "monitors", "incidents">>
        \/ visit.todo = <<"monitors", "incidents">> /\ (total # 0 => "empty" \in seen)
        \/ visit.todo = <<"incidents">> /\ (IF total = 0 THEN "sample" ELSE "empty") \in seen

\* What has been read of the fleet lies between what was down all the time and
\* what was down at some time.
FleetFits ==
  /\ visit.at = "states" => stillDown \subseteq visit.unpaused
  /\ visit.at \in {"total", "open", "answered"} /\ visit.answer = "real" /\ visit.path = "summary" =>
       stillDown \subseteq visit.down /\ visit.down \subseteq onceDown

VisitInv ==
  /\ visit.at \in {"idle", "counting", "monitors", "states", "total", "open", "answered"}
  /\ DOMAIN visit = DOMAIN NoVisit
  /\ visit.at # "idle" => /\ RightAnswer(visit.path) \in seen
                          /\ stillDown \subseteq UnpausedDown /\ DownNow \subseteq onceDown
  /\ visit.at = "counting" => CountingFits
  /\ visit.at \in {"monitors", "states", "total", "open"} =>
       visit.path = "summary" /\ visit.answer = "real"
  /\ visit.at \in {"monitors", "states", "total", "open", "answered"} => visit.answer \in seen
  /\ FleetFits

\* Incidents are never deleted, and the first one is opened for a monitor there is.
LEMMA IncidentsStay ==
  ASSUME TypesInv, RegistryNext
  PROVE  /\ incidents.total \in Nat /\ incidents'.total \in Nat
         /\ incidents.total # 0 => incidents'.total # 0
         /\ incidents.total = 0 /\ incidents'.total # 0 => live # {}
<1>1. incidents.total \in Nat /\ incidents \in [total : Int, open : Int]
  BY RegistryBounds DEF TypesInv
<1>2. CASE incidents' = incidents
  BY <1>1, <1>2
<1>3. CASE \E m \in Monitor : Check(m)
  <2>1. /\ live # {}
        /\ \/ incidents' = incidents \/ incidents' = [incidents EXCEPT !.open = @ - 1]
           \/ incidents' = [total |-> incidents.total + 1, open |-> incidents.open + 1]
    BY <1>3 DEF Check, FailCheck, PassCheck
  <2> QED BY <1>1, <2>1
<1>4. CASE ResolveIncident \/ ReopenIncident
  <2>1. incidents'.total = incidents.total
    BY <1>1, <1>4 DEF ResolveIncident, ReopenIncident
  <2> QED BY <1>1, <2>1
<1>5. CASE \E q \in Admin : Serve(q)
  <2>1. incidents' = incidents
    BY <1>5 DEF Serve, CountMonitors, CreateMonitor, LoadMonitor, UpdateMonitor, LoadForDelete,
       DeleteMonitor, IncidentsAfterDelete, GiveUp
  <2> QED BY <1>2, <2>1
<1> QED BY <1>3, <1>4, <1>5 DEF RegistryNext

LEMMA InitVisit == SummaryInit => VisitInv
BY DEF SummaryInit, VisitInv, NoVisit, FleetFits

LEMMA StepKeepsVisit ==
  ASSUME TypesInv, VisitInv, RegistryStep
  PROVE  VisitInv'
<1>1. visit' = visit /\ RegistryNext
  BY DEF RegistryStep
<1>2. CASE visit.at = "idle"
  BY <1>1, <1>2 DEF VisitInv, FleetFits
<1>3. CASE visit.at # "idle"
  <2>1. /\ seen' = seen \cup {RightAnswer(visit.path)'}
        /\ stillDown' = stillDown \cap UnpausedDown' /\ onceDown' = onceDown \cup DownNow'
    BY <1>3 DEF RegistryStep
  <2>2. /\ RightAnswer(visit.path)' \in seen' /\ seen \subseteq seen'
        /\ stillDown' \subseteq UnpausedDown' /\ DownNow' \subseteq onceDown'
        /\ stillDown' \subseteq stillDown /\ onceDown \subseteq onceDown'
    BY <1>1, <2>1
  <2>3. FleetFits'
    BY <1>1, <2>2 DEF FleetFits, VisitInv
  <2>4. ASSUME visit.at = "counting" PROVE CountingFits'
    <3> DEFINE total == incidents.total
    <3>1. CountingFits /\ RightAnswer(visit.path) \in seen
      BY <2>4 DEF VisitInv
    <3>2. /\ total # 0 => total' # 0
          /\ total = 0 /\ total' # 0 => live # {}
      BY <1>1, IncidentsStay
    <3>3. total = 0 /\ total' # 0 /\ visit.path = "incidents" => "empty" \in seen
      BY <3>1, <3>2, IncidentsStay, <1>1 DEF RightAnswer
    <3> QED BY <1>1, <2>2, <3>1, <3>2, <3>3 DEF CountingFits
  <2> QED BY <1>1, <2>2, <2>3, <2>4 DEF VisitInv
<1> QED BY <1>2, <1>3

LEMMA CountKeepsVisit ==
  ASSUME TypesInv, VisitInv, Count
  PROVE  VisitInv'
<1>0. visit.at = "counting" /\ visit' = AfterCount /\ UNCHANGED <<registryVars, history>>
  BY DEF Count
<1>1. UNCHANGED <<live, row, status, incidents, seen, stillDown, onceDown>>
  BY <1>0 DEF registryVars, history
<1>2. /\ RightAnswer(visit.path) \in seen /\ CountingFits
      /\ stillDown \subseteq UnpausedDown /\ DownNow \subseteq onceDown
      /\ DOMAIN visit = DOMAIN NoVisit
  BY <1>0 DEF VisitInv
<1>3. /\ \A path : RightAnswer(path)' = RightAnswer(path)
      /\ UnpausedDown' = UnpausedDown /\ DownNow' = DownNow
  BY <1>1 DEF RightAnswer, UnpausedDown, DownNow
<1>4. incidents.total \in Nat
  BY RegistryBounds DEF TypesInv
<1> DEFINE v == [visit EXCEPT !.todo = Tail(@)]
<1>5. ASSUME visit'.path = visit.path, DOMAIN visit' = DOMAIN visit,
             \/ visit'.at = "counting" /\ CountingFits'
             \/ visit'.at = "monitors" /\ visit.path = "summary" /\ visit'.answer = "real"
             \/ visit'.at = "answered" /\ visit.path = "incidents"
             \/ visit'.at = "answered" /\ visit'.answer = "sample",
             visit'.at # "counting" => visit'.answer \in seen
      PROVE  VisitInv'
  BY <1>1, <1>2, <1>3, <1>5 DEF VisitInv, FleetFits
<1>6. CASE visit.path = "summary"
  <2>1. CASE visit.todo = <<"monitors", "incidents">>
    <3>1. Head(visit.todo) = "monitors" /\ v.todo = <<"incidents">> /\ v.todo # <<>>
      BY <1>2, <2>1 DEF NoVisit
    <3>2. CASE live = {}
      <4>1. visit' = v
        BY <1>0, <3>1, <3>2 DEF AfterCount, CountIsZero
      <4>2. incidents.total = 0 => "sample" \in seen
        BY <1>2, <1>6, <3>2 DEF RightAnswer
      <4> QED BY <1>0, <1>1, <1>2, <1>5, <1>6, <3>1, <4>1, <4>2 DEF CountingFits, NoVisit
    <3>3. CASE live # {}
      <4>1. visit' = [v EXCEPT !.at = "monitors", !.answer = "real"]
        BY <1>0, <1>6, <3>1, <3>3 DEF AfterCount, CountIsZero
      <4>2. "real" \in seen
        BY <1>2, <1>6, <3>3 DEF RightAnswer
      <4> QED BY <1>2, <1>5, <1>6, <4>1, <4>2 DEF NoVisit
    <3> QED BY <3>2, <3>3
  <2>2. CASE visit.todo = <<"incidents">> /\ (incidents.total = 0 => "sample" \in seen)
    <3>1. Head(visit.todo) = "incidents" /\ v.todo = <<>>
      BY <1>2, <2>2 DEF NoVisit
    <3>2. CASE incidents.total = 0
      <4>1. visit' = [v EXCEPT !.at = "answered", !.answer = "sample"]
        BY <1>0, <3>1, <3>2 DEF AfterCount, CountIsZero
      <4> QED BY <1>2, <1>5, <2>2, <3>2, <4>1 DEF NoVisit
    <3>3. CASE incidents.total # 0
      <4>1. visit' = [v EXCEPT !.at = "monitors", !.answer = "real"]
        BY <1>0, <1>6, <3>1, <3>3 DEF AfterCount, CountIsZero
      <4>2. "real" \in seen
        BY <1>2, <1>6, <3>3 DEF RightAnswer
      <4> QED BY <1>2, <1>5, <1>6, <4>1, <4>2 DEF NoVisit
    <3> QED BY <3>2, <3>3
  <2> QED BY <1>2, <1>6, <2>1, <2>2 DEF CountingFits
<1>7. CASE visit.path = "incidents"
  <2>0. Counts(visit.path) = <<"incidents", "monitors", "incidents">>
    BY <1>7 DEF Counts
  <2>1. CASE visit.todo = <<"incidents", "monitors", "incidents">>
    <3>1. /\ Head(visit.todo) = "incidents" /\ v.todo = <<"monitors", "incidents">> /\ v.todo # <<>>
          /\ visit.todo = Counts(visit.path)
      BY <1>2, <2>0, <2>1 DEF NoVisit
    <3>2. CASE incidents.total = 0
      <4>1. visit' = v
        BY <1>0, <3>1, <3>2 DEF AfterCount, CountIsZero
      <4> QED BY <1>0, <1>1, <1>2, <1>5, <1>7, <3>1, <3>2, <4>1 DEF CountingFits, NoVisit
    <3>3. CASE incidents.total # 0
      <4>1. visit' = [v EXCEPT !.at = "answered", !.answer = "real"]
        BY <1>0, <1>7, <3>1, <3>3 DEF AfterCount, CountIsZero
      <4>2. "real" \in seen
        BY <1>2, <1>4, <1>7, <3>3 DEF RightAnswer
      <4> QED BY <1>2, <1>5, <1>7, <4>1, <4>2 DEF NoVisit
    <3> QED BY <3>2, <3>3
  <2>2. CASE visit.todo = <<"monitors", "incidents">> /\ (incidents.total # 0 => "empty" \in seen)
    <3>1. /\ Head(visit.todo) = "monitors" /\ v.todo = <<"incidents">> /\ v.todo # <<>>
          /\ visit.todo # Counts(visit.path)
      BY <1>2, <2>0, <2>2 DEF NoVisit
    <3>2. CASE live = {}
      <4>1. visit' = v
        BY <1>0, <3>1, <3>2 DEF AfterCount, CountIsZero
      <4>2. (IF incidents.total = 0 THEN "sample" ELSE "empty") \in seen
        BY <1>2, <1>4, <1>7, <2>2, <3>2 DEF RightAnswer
      <4> QED BY <1>0, <1>1, <1>2, <1>5, <1>7, <3>1, <4>1, <4>2 DEF CountingFits, NoVisit
    <3>3. CASE live # {}
      <4>1. visit' = [v EXCEPT !.at = "answered", !.answer = "empty"]
        BY <1>0, <1>7, <3>1, <3>3 DEF AfterCount, CountIsZero
      <4>2. "empty" \in seen
        BY <1>2, <1>4, <1>7, <2>2, <3>3 DEF RightAnswer
      <4> QED BY <1>2, <1>5, <1>7, <4>1, <4>2 DEF NoVisit
    <3> QED BY <3>2, <3>3
  <2>3. CASE /\ visit.todo = <<"incidents">>
             /\ (IF incidents.total = 0 THEN "sample" ELSE "empty") \in seen
    <3>1. /\ Head(visit.todo) = "incidents" /\ v.todo = <<>>
          /\ visit.todo # Counts(visit.path)
      BY <1>2, <2>0, <2>3 DEF NoVisit
    <3>2. CASE incidents.total = 0
      <4>1. visit' = [v EXCEPT !.at = "answered", !.answer = "sample"]
        BY <1>0, <3>1, <3>2 DEF AfterCount, CountIsZero
      <4> QED BY <1>2, <1>5, <2>3, <3>2, <4>1 DEF NoVisit
    <3>3. CASE incidents.total # 0
      <4>1. visit' = [v EXCEPT !.at = "answered", !.answer = "empty"]
        BY <1>0, <1>7, <3>1, <3>3 DEF AfterCount, CountIsZero
      <4> QED BY <1>2, <1>5, <1>7, <2>3, <3>3, <4>1 DEF NoVisit
    <3> QED BY <3>2, <3>3
  <2> QED BY <1>2, <1>7, <2>1, <2>2, <2>3 DEF CountingFits
<1> QED BY <1>2, <1>6, <1>7 DEF CountingFits

LEMMA ReadsKeepVisit ==
  ASSUME VisitInv, ReadMonitors \/ ReadStates \/ CountAllIncidents \/ CountOpenIncidents
  PROVE  VisitInv'
<1>1. UNCHANGED <<live, row, status, incidents, seen, stillDown, onceDown>>
  BY DEF ReadMonitors, ReadStates, CountAllIncidents, CountOpenIncidents, registryVars, history
<1>2. /\ DOMAIN visit = DOMAIN NoVisit /\ visit.path = "summary" /\ visit.answer = "real"
      /\ RightAnswer(visit.path) \in seen /\ visit.answer \in seen
      /\ stillDown \subseteq UnpausedDown /\ DownNow \subseteq onceDown
  BY DEF VisitInv, ReadMonitors, ReadStates, CountAllIncidents, CountOpenIncidents
<1>3. /\ \A path : RightAnswer(path)' = RightAnswer(path)
      /\ UnpausedDown' = UnpausedDown /\ DownNow' = DownNow
  BY <1>1 DEF RightAnswer, UnpausedDown, DownNow
<1>4. ASSUME visit'.at \in {"states", "total", "open", "answered"}, FleetFits',
             visit'.path = visit.path, visit'.answer = visit.answer, DOMAIN visit' = DOMAIN visit
      PROVE  VisitInv'
  BY <1>1, <1>2, <1>3, <1>4 DEF VisitInv
<1>5. CASE ReadMonitors
  <2>1. /\ visit'.at = "states" /\ visit'.unpaused = {m \in live : ~row[m].paused}
        /\ visit'.path = visit.path /\ visit'.answer = visit.answer /\ DOMAIN visit' = DOMAIN visit
    BY <1>2, <1>5 DEF ReadMonitors, NoVisit
  <2>2. FleetFits'
    BY <1>1, <1>2, <2>1 DEF FleetFits, UnpausedDown, DownNow
  <2> QED BY <1>4, <2>1, <2>2
<1>6. CASE ReadStates
  <2>1. /\ visit'.at = "total"
        /\ visit'.down = {m \in visit.unpaused : m \in live /\ status[m] = "down"}
        /\ visit'.path = visit.path /\ visit'.answer = visit.answer /\ DOMAIN visit' = DOMAIN visit
        /\ stillDown \subseteq visit.unpaused
    BY <1>2, <1>6 DEF ReadStates, IsDown, NoVisit, VisitInv, FleetFits
  <2>2. FleetFits'
    BY <1>1, <1>2, <2>1 DEF FleetFits, UnpausedDown, DownNow
  <2> QED BY <1>4, <2>1, <2>2
<1>7. CASE CountAllIncidents \/ CountOpenIncidents
  <2>1. /\ visit'.at \in {"open", "answered"} /\ visit'.down = visit.down
        /\ visit'.path = visit.path /\ visit'.answer = visit.answer /\ DOMAIN visit' = DOMAIN visit
        /\ stillDown \subseteq visit.down /\ visit.down \subseteq onceDown
    BY <1>2, <1>7 DEF CountAllIncidents, CountOpenIncidents, NoVisit, VisitInv, FleetFits
  <2>2. FleetFits'
    BY <1>1, <2>1 DEF FleetFits
  <2> QED BY <1>4, <2>1, <2>2
<1> QED BY <1>5, <1>6, <1>7

LEMMA NextVisit == TypesInv /\ VisitInv /\ [SummaryNext]_summaryVars => VisitInv'
<1> SUFFICES ASSUME TypesInv, VisitInv, [SummaryNext]_summaryVars PROVE VisitInv'
  OBVIOUS
<1>1. ASSUME NEW path \in {"summary", "incidents"}, BeginVisit(path) PROVE VisitInv'
  <2>1. /\ visit' = [NoVisit EXCEPT !.at = "counting", !.path = path, !.todo = Counts(path)]
        /\ seen' = {RightAnswer(path)} /\ stillDown' = UnpausedDown /\ onceDown' = DownNow
        /\ UNCHANGED <<live, row, status, incidents>>
    BY <1>1 DEF BeginVisit, registryVars
  <2>2. /\ visit'.at = "counting" /\ visit'.path = path /\ visit'.todo = Counts(path)
        /\ DOMAIN visit' = DOMAIN NoVisit
    BY <2>1 DEF NoVisit
  <2>3. CountingFits'
    BY <2>2 DEF CountingFits, Counts
  <2>4. RightAnswer(path)' = RightAnswer(path) /\ UnpausedDown' = UnpausedDown /\ DownNow' = DownNow
    BY <2>1 DEF RightAnswer, UnpausedDown, DownNow
  <2> QED BY <2>1, <2>2, <2>3, <2>4 DEF VisitInv, FleetFits
<1>2. CASE EndVisit
  BY <1>2 DEF EndVisit, VisitInv, FleetFits, NoVisit
<1>3. CASE UNCHANGED summaryVars
  BY <1>3 DEF summaryVars, registryVars, VisitInv, FleetFits, CountingFits, RightAnswer,
     UnpausedDown, DownNow
<1> QED
  BY <1>1, <1>2, <1>3, StepKeepsVisit, CountKeepsVisit, ReadsKeepVisit DEF SummaryNext, Visit

LEMMA VisitInvHolds == SummarySpec => [](TypesInv /\ VisitInv)
<1>1. SummaryInit => TypesInv /\ VisitInv
  BY InitRegistryTypes, InitVisit DEF SummaryInit
<1>2. [SummaryNext]_summaryVars => [RegistryNext]_registryVars
  BY DEF SummaryNext, summaryVars, RegistryStep, Visit, BeginVisit, Count, ReadMonitors,
         ReadStates, CountAllIncidents, CountOpenIncidents, EndVisit
<1> QED BY <1>1, <1>2, NextRegistryTypes, NextVisit, PTL DEF SummarySpec

\* Neither GET /summary nor GET /incidents tells sample data, an empty list or real
\* data that was not the right answer at some moment of the request, although
\* should_use_public_sample_data counts table by table while others write.
THEOREM AnswersWereRight == SummarySpec => []AnswerWasRight
<1>1. VisitInv => AnswerWasRight
  BY DEF VisitInv, AnswerWasRight
<1> QED BY <1>1, VisitInvHolds, PTL

\* fleet_summary counts every monitor that was down all the while, and none that
\* was not down at some moment, though monitors and states are read apart.
THEOREM DownCountsAreReal == SummarySpec => []DownCountIsReal
<1>1. VisitInv => DownCountIsReal
  BY DEF VisitInv, FleetFits, DownCountIsReal
<1> QED BY <1>1, VisitInvHolds, PTL
=============================================================================
