------------------------- MODULE CheckHistoryProofs --------------------------
(***************************************************************************)
(* Theorems about CheckHistory: what pruning keeps, and that the uptime    *)
(* ratios are those of everything that was recorded.                       *)
(***************************************************************************)
EXTENDS CheckHistory, FiniteSetTheorems, TLAPS

Result == [id : Nat, at : Nat, ok : BOOLEAN]
Shares == {Ratio(S) : S \in SUBSET Result} \cup {None}
StateRow == [status : {"unknown", "up", "down"}, last : Int, day : Shares, week : Shares]
CheckRow == [at : {"idle", "probing", "loaded", "rated"}, checked : Nat, ok : BOOLEAN,
             loaded : StateRow, commits : Nat, rated : Nat, alone : BOOLEAN,
             day : Shares, week : Shares]

TypeInv ==
  /\ now \in Nat /\ commits \in Nat
  /\ results \subseteq log /\ log \subseteq Result
  /\ state \in StateRow
  /\ check \in [Checker -> CheckRow]

\* What a thread that holds the lock has computed is true of everything recorded
\* so far and its own result, and nobody else holds the lock.
Truly(c) ==
  /\ check[c].day = Ratio(Since(log \cup {Own(c)}, check[c].rated - Day))
  /\ check[c].week = Ratio(Since(log \cup {Own(c)}, check[c].rated - Week))
RatedTruly == Retention >= Week => \A c \in Checker : check[c].at = "rated" => Truly(c)
OneHolder == \A c, d \in Checker : check[c].at = "rated" /\ check[d].at = "rated" => c = d

\* A thread whose state row was loaded after the last commit has loaded the
\* ratios that are in the database.
LoadedRatios(c) == check[c].loaded.day = state.day /\ check[c].loaded.week = state.week
LoadedIsCurrent ==
  \A c \in Checker :
    /\ check[c].at = "loaded" => check[c].commits <= commits
    /\ check[c].at = "loaded" /\ check[c].commits = commits => LoadedRatios(c)
    /\ check[c].at = "rated" /\ check[c].alone => LoadedRatios(c)

HistoryInv == TypeInv /\ RetentionKept /\ OneHolder /\ RatedTruly /\ LoadedIsCurrent /\ RatioIsTrue

-----------------------------------------------------------------------------
\* The result in hand is well typed, and the ratios a thread computes are shares.
LEMMA OwnType ==
  ASSUME TypeInv, NEW c \in Checker
  PROVE  /\ Own(c) \in Result /\ Own(c).at = check[c].checked
         /\ \A t : Ratio(Since(InView(c), t)) \in Shares
<1>1. Own(c) \in Result /\ Own(c).at = check[c].checked
  BY DEF TypeInv, Own, Result, CheckRow
<1>2. ASSUME NEW t PROVE Ratio(Since(InView(c), t)) \in Shares
  <2>1. Since(InView(c), t) \in SUBSET Result
    BY <1>1 DEF TypeInv, InView, Since
  <2> QED
    BY <2>1 DEF Shares
<1> QED
  BY <1>1, <1>2

LEMMA FreshTypes == FreshState \in StateRow /\ Idle \in CheckRow
<1>1. None \in Int /\ None \in Shares
  BY DEF None, Shares
<1>2. FreshState \in StateRow
  BY <1>1 DEF FreshState, StateRow
<1> QED
  BY <1>1, <1>2 DEF Idle, CheckRow

LEMMA InitTypes == Init => TypeInv
  BY FreshTypes, HistoryBounds DEF Init, TypeInv

LEMMA TickTypes == TypeInv /\ Tick => TypeInv'
  BY DEF TypeInv, Tick

LEMMA StartTypes == ASSUME TypeInv, NEW c \in Checker, StartCheck(c) PROVE TypeInv'
<1>1. [Idle EXCEPT !.at = "probing", !.checked = now] \in CheckRow
  BY FreshTypes DEF TypeInv, CheckRow
<1> QED
  BY <1>1 DEF TypeInv, StartCheck

LEMMA LoadTypes ==
  ASSUME TypeInv, NEW c \in Checker, NEW ok \in BOOLEAN, LoadState(c, ok) PROVE TypeInv'
<1>1. check' \in [Checker -> CheckRow]
  <2>1. check' = [check EXCEPT ![c] = [@ EXCEPT !.at = "loaded", !.ok = ok, !.loaded = state,
                                               !.commits = commits]]
    BY DEF LoadState, TypeInv, CheckRow
  <2> QED
    BY <2>1 DEF TypeInv, CheckRow
<1> QED
  BY <1>1 DEF TypeInv, LoadState

LEMMA RateTypes == ASSUME TypeInv, NEW c \in Checker, RateUptime(c) PROVE TypeInv'
<1>1. /\ Ratio(Since(InView(c), now - Day)) \in Shares
      /\ Ratio(Since(InView(c), now - Week)) \in Shares
      /\ (check[c].commits = commits) \in BOOLEAN
  BY OwnType
<1>2. check' \in [Checker -> CheckRow]
  <2> DEFINE alone == check[c].commits = commits
             day == Ratio(Since(InView(c), now - Day))
             week == Ratio(Since(InView(c), now - Week))
  <2>1. check' = [check EXCEPT ![c] = [@ EXCEPT !.at = "rated", !.rated = now, !.alone = alone,
                                               !.day = day, !.week = week]]
    BY DEF RateUptime, TypeInv, CheckRow
  <2>2. alone \in BOOLEAN /\ day \in Shares /\ week \in Shares
    BY <1>1
  <2> HIDE DEF alone, day, week
  <2> QED
    BY <2>1, <2>2 DEF TypeInv, CheckRow
<1> QED
  BY <1>2 DEF TypeInv, RateUptime

LEMMA CommitTypes == ASSUME TypeInv, NEW c \in Checker, CommitCheck(c) PROVE TypeInv'
<1>1. state' \in StateRow
  BY DEF TypeInv, CommitCheck, AfterCheck, LastChecked, Column, CheckRow, StateRow
<1>2. check' \in [Checker -> CheckRow]
  BY FreshTypes DEF TypeInv, CommitCheck
<1>3. results' \subseteq log' /\ log' \subseteq Result
  BY OwnType DEF TypeInv, CommitCheck, Pruned
<1> QED
  BY <1>1, <1>2, <1>3 DEF TypeInv, CommitCheck

LEMMA LoseTypes == ASSUME TypeInv, NEW c \in Checker, LoseCheck(c) PROVE TypeInv'
<1>1. check' \in [Checker -> CheckRow]
  BY FreshTypes DEF TypeInv, LoseCheck
<1> QED
  BY <1>1 DEF TypeInv, LoseCheck

-----------------------------------------------------------------------------
\* While a thread rates, everything recorded within a window is still there.
LEMMA RatesEverything ==
  ASSUME TypeInv, RetentionKept, Retention >= Week, NEW c \in Checker, NEW w \in {Day, Week}
  PROVE  Since(InView(c), now - w) = Since(log \cup {Own(c)}, now - w)
<1>1. w \in Nat /\ w <= Retention /\ Retention \in Nat
  BY HistoryBounds
<1>2. ASSUME NEW r \in log, r.at >= now - w PROVE r \in results
  <2>1. r.at \in Nat
    BY DEF TypeInv, Result
  <2>2. r.at >= now - Retention
    BY <1>1, <1>2, <2>1 DEF TypeInv
  <2> QED
    BY <2>2 DEF RetentionKept
<1> QED
  BY <1>2 DEF TypeInv, InView, Since

\* A step of the clock only shortens the past that must be kept.
LEMMA TickKeepsInv == HistoryInv /\ Tick => HistoryInv'
<1> SUFFICES ASSUME HistoryInv, Tick PROVE HistoryInv'
  OBVIOUS
<1> USE DEF HistoryInv
<1>1. TypeInv'
  BY TickTypes
<1>2. RetentionKept'
  <2> SUFFICES ASSUME NEW r \in log', r.at >= now' - Retention PROVE r \in results'
    BY DEF RetentionKept
  <2>1. r \in log /\ results' = results /\ now' = now + 1
    BY DEF Tick
  <2>2. r.at \in Nat /\ now \in Nat /\ Retention \in Nat
    BY <2>1, HistoryBounds DEF TypeInv, Result
  <2>3. r.at >= now - Retention
    BY <2>1, <2>2
  <2> QED
    BY <2>1, <2>3 DEF RetentionKept
<1>3. OneHolder'
  BY DEF OneHolder, Tick
<1>4. RatedTruly'
  <2>1. ASSUME NEW c \in Checker, Truly(c) PROVE Truly(c)'
    BY <2>1 DEF Truly, Own, Tick
  <2> QED
    BY <2>1 DEF RatedTruly, Tick
<1>5. LoadedIsCurrent'
  BY DEF LoadedIsCurrent, LoadedRatios, Tick
<1>6. RatioIsTrue'
  BY DEF RatioIsTrue, Tick
<1> QED
  BY <1>1, <1>2, <1>3, <1>4, <1>5, <1>6

\* A thread that starts, loads or gives up holds no lock afterwards, and has
\* either loaded nothing or what is current.
LEMMA UnratedKeepsInv ==
  ASSUME HistoryInv, TypeInv', NEW c \in Checker,
         UNCHANGED <<now, results, log, commits, rating, state>>,
         \A d \in Checker \ {c} : check'[d] = check[d],
         check'[c].at # "rated",
         check'[c].at = "loaded" => check'[c].commits = commits /\ check'[c].loaded = state
  PROVE  HistoryInv'
<1> USE DEF HistoryInv
<1>1. RetentionKept' /\ RatioIsTrue'
  BY DEF RetentionKept, RatioIsTrue
<1>2. OneHolder'
  BY DEF OneHolder
<1>3. RatedTruly'
  BY DEF RatedTruly, Truly, Own
<1>4. LoadedIsCurrent'
  BY DEF LoadedIsCurrent, LoadedRatios, TypeInv
<1> QED
  BY <1>1, <1>2, <1>3, <1>4

LEMMA StartKeepsInv == ASSUME HistoryInv, NEW c \in Checker, StartCheck(c) PROVE HistoryInv'
<1>1. TypeInv'
  BY StartTypes DEF HistoryInv
<1>2. /\ \A d \in Checker \ {c} : check'[d] = check[d]
      /\ check'[c].at = "probing"
  BY DEF HistoryInv, TypeInv, StartCheck, Idle
<1> QED
  BY <1>1, <1>2, UnratedKeepsInv DEF StartCheck

LEMMA LoadKeepsInv ==
  ASSUME HistoryInv, NEW c \in Checker, NEW ok \in BOOLEAN, LoadState(c, ok) PROVE HistoryInv'
<1>1. TypeInv'
  BY LoadTypes DEF HistoryInv
<1>2. /\ \A d \in Checker \ {c} : check'[d] = check[d]
      /\ check'[c].at = "loaded" /\ check'[c].commits = commits /\ check'[c].loaded = state
  BY DEF HistoryInv, TypeInv, LoadState, CheckRow
<1> QED
  BY <1>1, <1>2, UnratedKeepsInv DEF LoadState

LEMMA LoseKeepsInv == ASSUME HistoryInv, NEW c \in Checker, LoseCheck(c) PROVE HistoryInv'
<1>1. TypeInv'
  BY LoseTypes DEF HistoryInv
<1>2. /\ \A d \in Checker \ {c} : check'[d] = check[d]
      /\ check'[c].at = "idle"
  BY DEF HistoryInv, TypeInv, LoseCheck, Idle
<1> QED
  BY <1>1, <1>2, UnratedKeepsInv DEF LoseCheck

\* What it computes is true, since nothing within the windows was pruned.
LEMMA RateKeepsInv == ASSUME HistoryInv, NEW c \in Checker, RateUptime(c) PROVE HistoryInv'
<1> USE DEF HistoryInv
<1>1. TypeInv'
  BY RateTypes
<1>2. /\ \A d \in Checker \ {c} : check'[d] = check[d] /\ check[d].at # "rated"
      /\ check'[c].at = "rated" /\ check'[c].rated = now
      /\ check'[c].checked = check[c].checked /\ check'[c].ok = check[c].ok
      /\ check'[c].loaded = check[c].loaded
      /\ check'[c].alone = (check[c].commits = commits)
      /\ check'[c].day = Ratio(Since(InView(c), now - Day))
      /\ check'[c].week = Ratio(Since(InView(c), now - Week))
      /\ check[c].at = "loaded"
  BY DEF TypeInv, RateUptime, CheckRow, LockFree
<1>3. UNCHANGED <<now, results, log, commits, rating, state>>
  BY DEF RateUptime
<1>4. RetentionKept' /\ RatioIsTrue'
  BY <1>3 DEF RetentionKept, RatioIsTrue
<1>5. OneHolder'
  BY <1>2 DEF OneHolder
<1>6. RatedTruly'
  <2> SUFFICES ASSUME Retention >= Week PROVE Truly(c)'
    BY <1>2 DEF RatedTruly
  <2>1. Own(c)' = Own(c)
    BY <1>2, <1>3 DEF Own
  <2>2. /\ Since(InView(c), now - Day) = Since(log \cup {Own(c)}, now - Day)
        /\ Since(InView(c), now - Week) = Since(log \cup {Own(c)}, now - Week)
    BY RatesEverything
  <2> QED
    BY <1>2, <1>3, <2>1, <2>2 DEF Truly
<1>7. LoadedIsCurrent'
  <2>1. check'[c].alone => check[c].commits = commits
    BY <1>2
  <2>2. check'[c].alone => check[c].loaded.day = state.day /\ check[c].loaded.week = state.week
    BY <1>2, <2>1 DEF LoadedIsCurrent, LoadedRatios
  <2>3. check'[c].alone => LoadedRatios(c)'
    BY <1>2, <1>3, <2>2 DEF LoadedRatios
  <2>4. ASSUME NEW d \in Checker, d # c
        PROVE  /\ check'[d].at = "loaded" => check'[d].commits <= commits'
               /\ check'[d].at = "loaded" /\ check'[d].commits = commits' => LoadedRatios(d)'
               /\ check'[d].at # "rated"
    BY <1>2, <1>3, <2>4 DEF LoadedIsCurrent, LoadedRatios
  <2> QED
    BY <1>2, <2>3, <2>4 DEF LoadedIsCurrent
<1> QED
  BY <1>1, <1>4, <1>5, <1>6, <1>7

\* Only results beyond the retention go; a ratio is written, or equal already.
LEMMA CommitKeepsInv == ASSUME HistoryInv, NEW c \in Checker, CommitCheck(c) PROVE HistoryInv'
<1> USE DEF HistoryInv
<1>1. TypeInv'
  BY CommitTypes
<1>2. /\ \A d \in Checker \ {c} : check'[d] = check[d] /\ check[d].at # "rated"
      /\ check'[c].at = "idle" /\ check[c].at = "rated"
  BY DEF TypeInv, CommitCheck, OneHolder, Idle
<1>3. RetentionKept'
  <2> SUFFICES ASSUME NEW r \in log', r.at >= now - Retention PROVE r \in results'
    BY DEF RetentionKept, CommitCheck
  <2>1. r \in results \cup {Own(c)}
    BY DEF RetentionKept, CommitCheck
  <2>2. r.at \in Nat /\ now \in Nat /\ Retention \in Nat
    BY <2>1, OwnType, HistoryBounds DEF TypeInv, Result
  <2> QED
    BY <2>1, <2>2 DEF CommitCheck, Pruned
<1>4. OneHolder' /\ RatedTruly'
  BY <1>2 DEF OneHolder, RatedTruly
<1>5. LoadedIsCurrent'
  <2>1. ASSUME NEW d \in Checker, d # c, check[d].at = "loaded"
        PROVE  check[d].commits <= commits /\ commits' = commits + 1 /\ check[d].commits \in Nat
    BY <2>1 DEF LoadedIsCurrent, CommitCheck, TypeInv, CheckRow
  <2>2. ASSUME NEW d \in Checker, d # c, check[d].at = "loaded"
        PROVE  check[d].commits <= commits' /\ check[d].commits # commits'
    BY <2>1, <2>2 DEF TypeInv
  <2> QED
    BY <1>2, <2>2 DEF LoadedIsCurrent
<1>6. RatioIsTrue'
  <2> SUFFICES ASSUME Retention >= Week, check[c].alone
               PROVE  /\ state'.day = Ratio(Since(log', check[c].rated - Day))
                      /\ state'.week = Ratio(Since(log', check[c].rated - Week))
    BY DEF RatioIsTrue, CommitCheck
  <2>1. Truly(c) /\ log' = log \cup {Own(c)}
    BY <1>2 DEF RatedTruly, CommitCheck
  <2>2. state'.day = check[c].day /\ state'.week = check[c].week
    BY <1>2 DEF LoadedIsCurrent, LoadedRatios, CommitCheck, AfterCheck, Column
  <2> QED
    BY <2>1, <2>2 DEF Truly
<1> QED
  BY <1>1, <1>3, <1>4, <1>5, <1>6

\* A resolution by hand touches nothing of this.
LEMMA OtherKeepsInv ==
  ASSUME HistoryInv, UNCHANGED <<now, results, state, check, log, commits, rating>>
  PROVE  HistoryInv'
  BY DEF HistoryInv, TypeInv, RetentionKept, OneHolder, RatedTruly, Truly, Own,
         LoadedIsCurrent, LoadedRatios, RatioIsTrue

LEMMA InitInv == Init => HistoryInv
<1> SUFFICES ASSUME Init PROVE HistoryInv
  OBVIOUS
<1>1. TypeInv
  BY InitTypes
<1>2. \A c \in Checker : check[c].at = "idle"
  BY DEF Init, Idle
<1>3. RetentionKept /\ OneHolder /\ RatedTruly /\ LoadedIsCurrent
  BY <1>2 DEF Init, RetentionKept, OneHolder, RatedTruly, LoadedIsCurrent
<1>4. RatioIsTrue
  BY DEF Init, FreshState, RatioIsTrue, Ratio, Since
<1> QED
  BY <1>1, <1>3, <1>4 DEF HistoryInv

LEMMA NextInv == HistoryInv /\ [Next]_vars => HistoryInv'
<1> SUFFICES ASSUME HistoryInv, [Next]_vars PROVE HistoryInv'
  OBVIOUS
<1>1. CASE Tick
  BY <1>1, TickKeepsInv
<1>2. ASSUME NEW c \in Checker, Check(c) PROVE HistoryInv'
  BY <1>2, StartKeepsInv, LoadKeepsInv, RateKeepsInv, CommitKeepsInv, LoseKeepsInv DEF Check
<1>3. CASE ResolveIncident
  BY <1>3, OtherKeepsInv DEF ResolveIncident
<1>4. CASE UNCHANGED vars
  BY <1>4, OtherKeepsInv DEF vars
<1> QED
  BY <1>1, <1>2, <1>3, <1>4 DEF Next

\* Whatever checks and pruning interleave, the history keeps its invariant.
THEOREM InvHolds == Spec => []HistoryInv
  BY InitInv, NextInv, PTL DEF Spec

\* prune_old_check_results takes nothing that is within the retention, in
\* whatever order checks commit.
THEOREM RetentionIsKept == Spec => []RetentionKept
<1>1. HistoryInv => RetentionKept
  BY DEF HistoryInv
<1> QED
  BY <1>1, InvHolds, PTL

\* The stored uptime ratios are those of everything ever recorded in the window,
\* if the retention covers the windows and the last check overlapped no other.
THEOREM RatiosTrue == Spec => []RatioIsTrue
<1>1. HistoryInv => RatioIsTrue
  BY DEF HistoryInv
<1> QED
  BY <1>1, InvHolds, PTL

-----------------------------------------------------------------------------
(* Times *)

\* A check under way began in the past, and no longer ago than it may take.
InTime == \A c \in Checker : check[c].at # "idle" =>
            check[c].checked <= now /\ now <= check[c].checked + MaxCheckTime

\* last_check_at was written after the thread loaded it only by a check that
\* began not long before that, nor long before the thread's own.
LastMoved == \A c \in Checker : check[c].at \in {"loaded", "rated"} =>
  \/ check[c].loaded.last = state.last
  \/ check[c].checked <= state.last + MaxCheckTime

PastResults == \A r \in log : r.at <= now

IncidentRow == [status : {"none", "open", "resolved"}, started : Int, resolved : Int]
PastIncident ==
  /\ incident \in IncidentRow
  /\ incident.status # "none" => incident.started <= now

TimesInv == /\ InTime /\ LastMoved /\ PastResults /\ PastIncident
            /\ LastCheckNearlyNewest /\ SpanNearlySound


LEMMA ResolvedRow ==
  ASSUME NEW row \in IncidentRow, NEW time \in Int
  PROVE  /\ [row EXCEPT !.status = "resolved", !.resolved = time] \in IncidentRow
         /\ [row EXCEPT !.status = "resolved", !.resolved = time].started = row.started
         /\ [row EXCEPT !.status = "resolved", !.resolved = time].resolved = time
  BY DEF IncidentRow

\* The steps of a thread before its commit keep what it has.
LEMMA ThreadKeepsTimes ==
  ASSUME HistoryInv, TypeInv', TimesInv, NEW c \in Checker,
         UNCHANGED <<now, log, state, incident>>,
         \A d \in Checker \ {c} : check'[d] = check[d],
         check'[c].at # "idle" => check'[c].checked <= now /\ now <= check'[c].checked + MaxCheckTime,
         check'[c].at \in {"loaded", "rated"} =>
           \/ check'[c].loaded.last = state.last
           \/ check'[c].checked <= state.last + MaxCheckTime
  PROVE  TimesInv'
<1> USE DEF TimesInv
<1>1. InTime'
  BY DEF InTime
<1>2. LastMoved'
  BY DEF LastMoved
<1>3. PastResults' /\ PastIncident' /\ LastCheckNearlyNewest' /\ SpanNearlySound'
  BY DEF PastResults, PastIncident, LastCheckNearlyNewest, SpanNearlySound
<1> QED
  BY <1>1, <1>2, <1>3

\* The check that commits is no older than it may be, and so is what it writes.
LEMMA CommitKeepsTimes ==
  ASSUME HistoryInv, TypeInv', TimesInv, NEW c \in Checker, CommitCheck(c)
  PROVE  TimesInv'
<1> DEFINE t == check[c].checked
<1>1. /\ \A d \in Checker \ {c} : check'[d] = check[d]
      /\ check'[c].at = "idle" /\ check[c].at = "rated" /\ now' = now
  BY DEF HistoryInv, TypeInv, CommitCheck, Idle
<1>2. /\ now \in Nat /\ t \in Nat /\ t <= now /\ now <= t + MaxCheckTime /\ MaxCheckTime \in Nat
      /\ state.last \in Int /\ check[c].loaded.last \in Int
  BY <1>1, HistoryBounds DEF HistoryInv, TypeInv, CheckRow, StateRow, TimesInv, InTime
<1>3. state'.last = IF t = check[c].loaded.last THEN state.last ELSE t
  BY DEF CommitCheck, AfterCheck, LastChecked, Column
<1>4. t <= state'.last + MaxCheckTime
  BY <1>1, <1>2, <1>3 DEF TimesInv, LastMoved
<1>5. state'.last = state.last \/ state'.last = t
  BY <1>3
<1>6. InTime'
  BY <1>1 DEF TimesInv, InTime
<1>7. LastMoved'
  <2> SUFFICES ASSUME NEW d \in Checker, check'[d].at \in {"loaded", "rated"}
               PROVE  \/ check'[d].loaded.last = state'.last
                      \/ check'[d].checked <= state'.last + MaxCheckTime
    BY DEF LastMoved
  <2>1. d # c /\ check'[d] = check[d]
    BY <1>1
  <2>2. check[d].checked \in Nat /\ check[d].checked <= now
    BY <2>1 DEF HistoryInv, TypeInv, CheckRow, TimesInv, InTime
  <2>3. CASE state'.last = state.last
    BY <2>1, <2>3 DEF TimesInv, LastMoved
  <2>4. CASE state'.last = t
    BY <1>2, <2>1, <2>2, <2>4
  <2> QED
    BY <1>5, <2>3, <2>4
<1>8. PastResults' /\ LastCheckNearlyNewest'
  <2> SUFFICES ASSUME NEW r \in log'
               PROVE  r.at <= now /\ r.at <= state'.last + MaxCheckTime
    BY <1>1 DEF PastResults, LastCheckNearlyNewest
  <2>1. CASE r = Own(c)
    BY <1>2, <1>4, <2>1, OwnType DEF HistoryInv
  <2>2. CASE r \in log
    <3>1. r.at \in Nat /\ r.at <= now /\ r.at <= state.last + MaxCheckTime
      BY <2>2 DEF HistoryInv, TypeInv, Result, TimesInv, PastResults, LastCheckNearlyNewest
    <3> QED
      BY <1>2, <1>5, <3>1
  <2> QED
    BY <2>1, <2>2 DEF CommitCheck
<1>9. PastIncident' /\ SpanNearlySound'
  <2>1. \E new : incident' = IncidentAfter(c, new)
    BY DEF CommitCheck
  <2>2. /\ incident \in IncidentRow
        /\ incident.status # "none" => incident.started <= now
        /\ incident.status = "resolved" => incident.started <= incident.resolved + MaxCheckTime
    BY DEF TimesInv, PastIncident, SpanNearlySound
  <2>3. CASE incident' = [status |-> "open", started |-> t, resolved |-> None]
    BY <1>1, <1>2, <2>3 DEF PastIncident, SpanNearlySound, None, IncidentRow
  <2>4. CASE /\ incident.status = "open"
             /\ incident' = [incident EXCEPT !.status = "resolved", !.resolved = t]
    <3>1. /\ incident' \in IncidentRow
          /\ incident'.started = incident.started /\ incident'.resolved = t
      <4>1. t \in Int
        BY <1>2
      <4> QED
        BY <2>2, <2>4, <4>1, ResolvedRow, Zenon
    <3>2. incident.started \in Int /\ incident.started <= now
      BY <2>2, <2>4 DEF IncidentRow
    <3>3. incident.started <= t + MaxCheckTime
      BY <1>2, <3>2
    <3> QED
      BY <1>1, <3>1, <3>2, <3>3 DEF PastIncident, SpanNearlySound
  <2>5. CASE incident' = incident
    BY <1>1, <2>2, <2>5 DEF PastIncident, SpanNearlySound
  <2> QED
    BY <2>1, <2>3, <2>4, <2>5 DEF IncidentAfter, ResolvedAt
<1> QED
  BY <1>6, <1>7, <1>8, <1>9 DEF TimesInv

LEMMA TimesNext == HistoryInv /\ TimesInv /\ [Next]_vars => TimesInv'
<1> SUFFICES ASSUME HistoryInv, TimesInv, [Next]_vars PROVE TimesInv'
  OBVIOUS
<1>1. TypeInv'
  BY NextInv DEF HistoryInv
<1>2. CASE Tick
  <2>1. now \in Nat /\ MaxCheckTime \in Nat /\ now' = now + 1
    BY <1>2, HistoryBounds DEF HistoryInv, TypeInv, Tick
  <2>2. InTime'
    <3> SUFFICES ASSUME NEW c \in Checker, check[c].at # "idle"
                 PROVE  check[c].checked <= now + 1 /\ now + 1 <= check[c].checked + MaxCheckTime
      BY <1>2, <2>1 DEF InTime, Tick
    <3>1. /\ check[c].checked \in Nat /\ check[c].checked <= now
          /\ now - check[c].checked < MaxCheckTime
      BY <1>2 DEF Tick, HistoryInv, TypeInv, CheckRow, TimesInv, InTime
    <3> QED
      BY <2>1, <3>1
  <2>3. LastMoved' /\ LastCheckNearlyNewest' /\ SpanNearlySound'
    BY <1>2 DEF Tick, TimesInv, LastMoved, LastCheckNearlyNewest, SpanNearlySound
  <2>4. PastResults'
    <3> SUFFICES ASSUME NEW r \in log PROVE r.at <= now + 1
      BY <1>2, <2>1 DEF PastResults, Tick
    <3>1. r.at \in Nat /\ r.at <= now
      BY DEF HistoryInv, TypeInv, Result, TimesInv, PastResults
    <3> QED
      BY <2>1, <3>1
  <2>5. PastIncident'
    BY <1>2, <2>1 DEF Tick, TimesInv, PastIncident, IncidentRow
  <2> QED
    BY <2>2, <2>3, <2>4, <2>5 DEF TimesInv
<1>3. ASSUME NEW c \in Checker, Check(c) PROVE TimesInv'
  <2>1. check \in [Checker -> CheckRow] /\ now \in Nat /\ MaxCheckTime \in Nat
    BY HistoryBounds DEF HistoryInv, TypeInv
  <2>2. CASE StartCheck(c)
    <3>1. check'[c].at = "probing" /\ check'[c].checked = now
      BY <2>1, <2>2 DEF StartCheck, Idle
    <3> QED
      BY <1>1, <2>1, <2>2, <3>1, ThreadKeepsTimes DEF StartCheck
  <2>3. CASE \E ok \in BOOLEAN : LoadState(c, ok)
    <3>1. /\ check[c].at = "probing" /\ check'[c].checked = check[c].checked
          /\ check'[c].loaded = state
      BY <2>1, <2>3 DEF LoadState, CheckRow
    <3> QED
      BY <1>1, <2>1, <2>3, <3>1, ThreadKeepsTimes DEF LoadState, TimesInv, InTime
  <2>4. CASE RateUptime(c)
    <3>1. /\ check[c].at = "loaded" /\ check'[c].checked = check[c].checked
          /\ check'[c].loaded = check[c].loaded
      BY <2>1, <2>4 DEF RateUptime, CheckRow
    <3> QED
      BY <1>1, <2>1, <2>4, <3>1, ThreadKeepsTimes DEF RateUptime, TimesInv, InTime, LastMoved
  <2>5. CASE LoseCheck(c)
    <3>1. check'[c].at = "idle"
      BY <2>1, <2>5 DEF LoseCheck, Idle
    <3> QED
      BY <1>1, <2>1, <2>5, <3>1, ThreadKeepsTimes DEF LoseCheck
  <2>6. CASE CommitCheck(c)
    BY <1>1, <2>6, CommitKeepsTimes
  <2> QED
    BY <1>3, <2>2, <2>3, <2>4, <2>5, <2>6 DEF Check
<1>4. CASE ResolveIncident
  <2>1. /\ now \in Nat /\ MaxCheckTime \in Nat /\ incident.status = "open"
        /\ incident' = [incident EXCEPT !.status = "resolved", !.resolved = now]
        /\ UNCHANGED <<now, state, check, log>>
    BY <1>4, HistoryBounds DEF ResolveIncident, HistoryInv, TypeInv
  <2>2. PastIncident' /\ SpanNearlySound'
    <3>1. /\ incident \in IncidentRow /\ incident.started <= now
      BY <2>1 DEF TimesInv, PastIncident
    <3>2. /\ incident' \in IncidentRow /\ incident'.started = incident.started
          /\ incident'.resolved = now
      <4>1. now \in Int
        BY <2>1
      <4> QED
        BY <2>1, <3>1, <4>1, ResolvedRow, Zenon
    <3>3. incident.started \in Int /\ incident.started <= now + MaxCheckTime
      BY <2>1, <3>1 DEF IncidentRow
    <3> QED
      BY <2>1, <3>1, <3>2, <3>3 DEF PastIncident, SpanNearlySound
  <2> QED
    BY <2>1, <2>2 DEF TimesInv, InTime, LastMoved, PastResults, LastCheckNearlyNewest
<1>5. CASE UNCHANGED vars
  BY <1>5 DEF vars, TimesInv, InTime, LastMoved, PastResults, PastIncident,
              LastCheckNearlyNewest, SpanNearlySound
<1> QED
  BY <1>2, <1>3, <1>4, <1>5 DEF Next

LEMMA TimesInit == Init => TimesInv
  BY DEF Init, TimesInv, InTime, LastMoved, PastResults, PastIncident, LastCheckNearlyNewest,
         SpanNearlySound, Idle, NoIncident, None, IncidentRow

LEMMA TimesHold == Spec => []TimesInv
  BY TimesInit, TimesNext, InvHolds, PTL DEF Spec

\* However checks overlap, no result is newer than last_check_at by more than a
\* check may take.
THEOREM LastCheckNearly == Spec => []LastCheckNearlyNewest
<1>1. TimesInv => LastCheckNearlyNewest
  BY DEF TimesInv
<1> QED
  BY <1>1, TimesHold, PTL

\* However checks overlap, an incident ends before it started by no more than a
\* check may take.
THEOREM SpansNearlySound == Spec => []SpanNearlySound
<1>1. TimesInv => SpanNearlySound
  BY DEF TimesInv
<1> QED
  BY <1>1, TimesHold, PTL

-----------------------------------------------------------------------------
(* Counts *)

Percent(share) == share = None \/ share \in 0 .. Whole

\* Every commit adds one result with an id of its own, and a thread that holds
\* the lock has room for one more.
CountsInv ==
  /\ now <= MaxTime /\ commits <= MaxResults
  /\ \A c \in Checker : check[c].at = "rated" => commits < MaxResults
  /\ IsFiniteSet(log) /\ Cardinality(log) = commits
  /\ \A r \in log : r.id \in 1 .. commits
  /\ state.last \in {None} \cup 0 .. now
  /\ Percent(state.day) /\ Percent(state.week)
  /\ \A c \in Checker : Percent(check[c].day) /\ Percent(check[c].week)

LEMMA Quotient ==
  ASSUME NEW n \in Nat, NEW d \in Nat \ {0}
  PROVE  n \div d \in Int /\ d * (n \div d) <= n /\ n < d * (n \div d) + d
  BY SMT
\* A quotient is within the bounds of its dividend.
LEMMA QuotientBound ==
  ASSUME NEW n \in Nat, NEW d \in Nat \ {0}, NEW b \in Nat, n < d * (b + 1)
  PROVE  n \div d \in 0 .. b
<1> DEFINE q == n \div d
<1>1. q \in Int /\ d * q <= n /\ n < d * q + d
  BY Quotient
<1> HIDE DEF q
<1>2. q <= b
  <2> SUFFICES ASSUME q >= b + 1 PROVE FALSE
    BY <1>1
  <2>1. d * q >= d * (b + 1)
    BY <1>1
  <2> QED
    BY <1>1, <2>1
<1>3. q >= 0
  <2> SUFFICES ASSUME q <= -1 PROVE FALSE
    BY <1>1
  <2>1. d * q <= d * (-1)
    BY <1>1
  <2>2. d * (-1) = -d
    OBVIOUS
  <2> QED
    BY <1>1, <2>1, <2>2
<1> QED
  BY <1>1, <1>2, <1>3 DEF q

LEMMA ShareBound ==
  ASSUME NEW ok \in Nat, NEW total \in Nat \ {0}, ok <= total
  PROVE  Share(ok, total) \in 0 .. Whole
<1>1. Whole \in Nat
  BY SMT DEF Whole
<1>2. 2 * Whole * ok + total \in Nat /\ 2 * total \in Nat \ {0}
  BY <1>1
<1>3. Whole * ok <= Whole * total
  BY <1>1
<1>4. 2 * Whole * ok + total < (2 * total) * (Whole + 1)
  BY <1>1, <1>3
<1> QED
  BY <1>1, <1>2, <1>4, QuotientBound DEF Share

\* A ratio over results that were recorded, and its own, is a share of one.
LEMMA RatioBound ==
  ASSUME NEW S, IsFiniteSet(S) PROVE Percent(Ratio(S))
<1> DEFINE good == {r \in S : r.ok}
           ok == Cardinality(good)
           total == Cardinality(S)
<1>1. CASE S = {}
  BY <1>1 DEF Ratio, Percent
<1>2. CASE S # {}
  <2>1. good \subseteq S /\ ok \in Nat /\ total \in Nat /\ ok <= total
    BY FS_Subset, FS_CardinalityType
  <2>2. total # 0
    BY <1>2, FS_EmptySet
  <2>3. Share(ok, total) \in 0 .. Whole
    BY <2>1, <2>2, ShareBound
  <2>4. Ratio(S) = Share(ok, total)
    BY <1>2 DEF Ratio
  <2> QED
    BY <2>3, <2>4 DEF Percent
<1> QED
  BY <1>1, <1>2

LEMMA ViewIsFinite ==
  ASSUME HistoryInv, CountsInv, NEW c \in Checker, NEW t
  PROVE  IsFiniteSet(Since(InView(c), t))
<1>1. IsFiniteSet(results)
  BY FS_Subset DEF HistoryInv, TypeInv, CountsInv
<1>2. IsFiniteSet(InView(c))
  BY <1>1, FS_AddElement DEF InView
<1> QED
  BY <1>2, FS_Subset DEF Since

\* The result that is committed is a new one.
LEMMA OwnIsNew ==
  ASSUME HistoryInv, CountsInv, NEW c \in Checker
  PROVE  /\ IsFiniteSet(log \cup {Own(c)}) /\ Cardinality(log \cup {Own(c)}) = commits + 1
         /\ \A r \in log \cup {Own(c)} : r.id \in 1 .. commits + 1
<1>1. commits \in Nat /\ \A r \in log : r.id \in 1 .. commits
  BY DEF HistoryInv, TypeInv, CountsInv
<1>2. Own(c).id = commits + 1
  BY DEF Own
<1>3. Own(c) \notin log
  BY <1>1, <1>2
<1>4. IsFiniteSet(log \cup {Own(c)}) /\ Cardinality(log \cup {Own(c)}) = Cardinality(log) + 1
  BY <1>3, FS_AddElement DEF CountsInv
<1> QED
  BY <1>1, <1>2, <1>4 DEF CountsInv

\* A step of a thread before its commit.
LEMMA ThreadKeepsCounts ==
  ASSUME CountsInv, NEW c \in Checker,
         UNCHANGED <<now, log, commits, state>>,
         \A d \in Checker \ {c} : check'[d] = check[d],
         check'[c].at = "rated" => commits < MaxResults,
         Percent(check'[c].day), Percent(check'[c].week)
  PROVE  CountsInv'
  BY Zenon DEF CountsInv, Percent

LEMMA CommitKeepsCounts ==
  ASSUME HistoryInv, TimesInv, CountsInv, NEW c \in Checker, CommitCheck(c)
  PROVE  CountsInv'
<1>1. /\ \A d \in Checker \ {c} : check'[d] = check[d] /\ check[d].at # "rated"
      /\ check'[c] = Idle /\ check[c].at = "rated"
      /\ now' = now /\ commits' = commits + 1 /\ log' = log \cup {Own(c)}
  BY DEF HistoryInv, TypeInv, CommitCheck, OneHolder
<1>2. /\ IsFiniteSet(log') /\ Cardinality(log') = commits'
      /\ \A r \in log' : r.id \in 1 .. commits'
  BY <1>1, OwnIsNew, Zenon
<1>3. now' <= MaxTime /\ commits' <= MaxResults
  BY <1>1, HistoryBounds DEF HistoryInv, TypeInv, CountsInv
<1>4. /\ \A d \in Checker : check'[d].at # "rated"
      /\ \A d \in Checker : Percent(check'[d].day) /\ Percent(check'[d].week)
  BY <1>1 DEF CountsInv, Idle, Percent
<1>5. state'.last \in {None} \cup 0 .. now'
  <2>1. now \in Nat /\ check[c].checked \in Nat /\ check[c].checked <= now
    BY <1>1 DEF HistoryInv, TypeInv, CheckRow, TimesInv, InTime
  <2> QED
    BY <1>1, <2>1 DEF CommitCheck, AfterCheck, LastChecked, Column, CountsInv
<1>6. Percent(state'.day) /\ Percent(state'.week)
  BY DEF CommitCheck, AfterCheck, Column, CountsInv
<1> QED
  BY <1>2, <1>3, <1>4, <1>5, <1>6 DEF CountsInv

LEMMA CountsInit == Init => CountsInv
<1> SUFFICES ASSUME Init PROVE CountsInv
  OBVIOUS
<1>1. IsFiniteSet(log) /\ Cardinality(log) = commits
  BY FS_EmptySet DEF Init
<1> QED
  BY <1>1, HistoryBounds DEF Init, CountsInv, Idle, FreshState, Percent

LEMMA CountsNext == HistoryInv /\ TimesInv /\ CountsInv /\ [Next]_vars => CountsInv'
<1> SUFFICES ASSUME HistoryInv, TimesInv, CountsInv, [Next]_vars PROVE CountsInv'
  OBVIOUS
<1>1. CASE Tick
  <2>1. now' \in Nat /\ now \in Nat /\ now <= now' /\ now' <= MaxTime
    BY <1>1, HistoryBounds DEF Tick, HistoryInv, TypeInv
  <2>2. state'.last \in {None} \cup 0 .. now'
    BY <1>1, <2>1 DEF Tick, CountsInv
  <2> QED
    BY <1>1, <2>1, <2>2 DEF Tick, CountsInv, Percent
<1>2. ASSUME NEW c \in Checker, Check(c) PROVE CountsInv'
  <2>1. check \in [Checker -> CheckRow]
    BY DEF HistoryInv, TypeInv
  <2>2. Percent(None)
    BY DEF Percent
  <2>3. CASE StartCheck(c)
    <3>1. check'[c].at = "probing" /\ check'[c].day = None /\ check'[c].week = None
      BY <2>1, <2>3 DEF StartCheck, Idle
    <3> QED
      BY <2>1, <2>2, <2>3, <3>1, ThreadKeepsCounts DEF StartCheck
  <2>4. CASE \E ok \in BOOLEAN : LoadState(c, ok)
    <3>1. check'[c].at = "loaded" /\ check'[c].day = check[c].day /\ check'[c].week = check[c].week
      BY <2>1, <2>4 DEF LoadState, CheckRow
    <3> QED
      BY <2>1, <2>4, <3>1, ThreadKeepsCounts DEF LoadState, CountsInv
  <2>5. CASE RateUptime(c)
    <3>1. /\ check'[c].day = Ratio(Since(InView(c), now - Day))
          /\ check'[c].week = Ratio(Since(InView(c), now - Week))
      BY <2>1, <2>5 DEF RateUptime, CheckRow
    <3>2. Percent(check'[c].day) /\ Percent(check'[c].week)
      BY <3>1, ViewIsFinite, RatioBound
    <3> QED
      BY <2>1, <2>5, <3>2, ThreadKeepsCounts DEF RateUptime
  <2>6. CASE CommitCheck(c)
    BY <2>6, CommitKeepsCounts
  <2>7. CASE LoseCheck(c)
    <3>1. check'[c].at = "idle" /\ check'[c].day = None /\ check'[c].week = None
      BY <2>1, <2>7 DEF LoseCheck, Idle
    <3> QED
      BY <2>1, <2>2, <2>7, <3>1, ThreadKeepsCounts DEF LoseCheck
  <2> QED
    BY <1>2, <2>3, <2>4, <2>5, <2>6, <2>7 DEF Check
<1>3. CASE ResolveIncident \/ UNCHANGED vars
  BY <1>3, Zenon DEF ResolveIncident, vars, CountsInv, Percent
<1> QED
  BY <1>1, <1>2, <1>3 DEF Next

LEMMA CountsHold == Spec => []CountsInv
  BY CountsInit, CountsNext, InvHolds, TimesHold, PTL DEF Spec

\* Each commit appends one result with an id of its own, the ratios are shares of
\* one, and one thread at a time holds the writer lock.
THEOREM HistoryTypes == Spec => []HistoryTypeOK
<1>1. HistoryInv /\ TimesInv /\ CountsInv => HistoryTypeOK
  <2> SUFFICES ASSUME HistoryInv, TimesInv, CountsInv PROVE HistoryTypeOK
    OBVIOUS
  <2>1. now \in 0 .. MaxTime /\ commits \in 0 .. MaxResults /\ results \subseteq log
    BY HistoryBounds DEF HistoryInv, TypeInv, CountsInv
  <2>2. log \subseteq [id : 1 .. commits, at : 0 .. now, ok : BOOLEAN]
    <3> SUFFICES ASSUME NEW r \in log
                 PROVE  r \in [id : 1 .. commits, at : 0 .. now, ok : BOOLEAN]
      OBVIOUS
    <3>1. r \in Result /\ r.at <= now /\ r.id \in 1 .. commits /\ now \in Nat
      BY DEF HistoryInv, TypeInv, TimesInv, PastResults, CountsInv
    <3>2. r.at \in 0 .. now /\ r.ok \in BOOLEAN
      BY <3>1 DEF Result
    <3> QED
      BY <3>1, <3>2 DEF Result
  <2>3. state.status \in {"unknown", "up", "down"}
    BY DEF HistoryInv, TypeInv, StateRow
  <2>4. state.last \in {None} \cup 0 .. now /\ Cardinality(log) = commits
    BY DEF CountsInv
  <2>5. \A share \in {state.day, state.week} : share = None \/ share \in 0 .. Whole
    <3>1. Percent(state.day) /\ Percent(state.week)
      BY DEF CountsInv
    <3> QED
      BY <3>1 DEF Percent
  <2> QED
    BY <2>1, <2>2, <2>3, <2>4, <2>5, Zenon DEF HistoryTypeOK, HistoryInv, OneHolder
<1> QED
  BY <1>1, InvHolds, TimesHold, CountsHold, PTL
=============================================================================
