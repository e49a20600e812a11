---------------------------- MODULE CheckHistory -----------------------------
(***************************************************************************)
(* The history of checks of one monitor: the results and their pruning,    *)
(* the uptime ratios and the times that a check writes.                    *)
(*                                                                         *)
(* A check takes its time, checked_at, before the probe; it writes when it *)
(* gets the writer lock, and what it writes into the state row is a column *)
(* only if the value differs from the one it loaded before.  The clock is  *)
(* read again for each window and for the pruning.                         *)
(***************************************************************************)
EXTENDS Integers, FiniteSets

CONSTANTS
  Checker,        \* threads that check the monitor: the scheduler's and requests
  Day, Week,      \* the two windows
  Retention,      \* the setting DATA_RETENTION_DAYS
  MaxCheckTime,   \* from checked_at to the commit: probe, lock and mail have timeouts
  MaxTime,        \* the clock stops here
  MaxResults,     \* how many checks are committed
  MaxRollbacks    \* how many are lost

ASSUME HistoryBounds ==
  /\ Day \in Nat /\ Week \in Nat /\ Day <= Week
  /\ Retention \in Nat /\ MaxCheckTime \in Nat
  /\ MaxTime \in Nat /\ MaxResults \in Nat /\ MaxRollbacks \in Nat

None == -1        \* NULL in a column of numbers

VARIABLES
  now,        \* the clock
  results,    \* table check_results
  state,      \* the row of monitor_states, as far as results and times go
  incident,   \* the newest incident of the monitor
  check,      \* what each thread is doing
  log,        \* history: all results that were ever committed
  commits,    \* history: how many
  rating,     \* history: when the last committed check computed its ratios, and
              \* whether no other check had committed since it loaded the state
  rollbacks

vars == <<now, results, state, incident, check, log, commits, rating, rollbacks>>

FreshState == [status |-> "unknown", last |-> None, day |-> None, week |-> None]
NoIncident == [status |-> "none", started |-> None, resolved |-> None]
Idle == [at |-> "idle", checked |-> 0, ok |-> TRUE, loaded |-> FreshState, commits |-> 0,
         rated |-> 0, alone |-> TRUE, day |-> None, week |-> None]

-----------------------------------------------------------------------------
Since(S, time) == {r \in S : r.at >= time}

\* The share of successes, rounded to six digits; in millionths here.
Whole == 1000000
Share(ok, total) == (2 * Whole * ok + total) \div (2 * total)
Ratio(S) == IF S = {} THEN None ELSE Share(Cardinality({r \in S : r.ok}), Cardinality(S))

\* (faulty) A result as old as the retention goes already.
PrunedEarly(S, time) == {r \in S : r.at > time - Retention}
\* prune_old_check_results
Pruned(S, time) == {r \in S : ~(r.at < time - Retention)}

\* A column is written if its value differs from the loaded one.
Column(db, loaded, new) == IF new = loaded THEN db ELSE new

\* (faulty) The time is kept from the first check.
FirstChecked(c) == IF check[c].loaded.last = None THEN check[c].checked
                   ELSE check[c].loaded.last
LastChecked(c) == check[c].checked

\* (faulty) An incident ends when its monitor was last changed: at the start.
ResolvedAtChange(c) == 0
ResolvedAt(c) == check[c].checked

\* The result a thread has in hand.
Own(c) == [id |-> commits + 1, at |-> check[c].checked, ok |-> check[c].ok]

\* (faulty) Sessions do not flush before a query, and the result is not flushed.
Unflushed(c) == results
\* The results its queries find.
InView(c) == results \cup {Own(c)}

\* (faulty) The insert is put off until the commit, so computing takes no lock.
InsertPutOff == TRUE
\* SQLite's writer lock, which the insert takes and the commit releases.
LockFree == \A c \in Checker : check[c].at # "rated"

Init ==
  /\ now = 0 /\ results = {} /\ log = {} /\ commits = 0 /\ rollbacks = 0
  /\ state = FreshState /\ incident = NoIncident
  /\ check = [c \in Checker |-> Idle]
  /\ rating = [at |-> 0, alone |-> TRUE]

-----------------------------------------------------------------------------
\* Nobody takes longer than its timeouts allow.
Tick ==
  /\ now < MaxTime
  /\ \A c \in Checker : check[c].at # "idle" => now - check[c].checked < MaxCheckTime
  /\ now' = now + 1
  /\ UNCHANGED <<results, state, incident, check, log, commits, rating, rollbacks>>

\* run_monitor_check reads the clock and sends its request.
StartCheck(c) ==
  /\ check[c].at = "idle" /\ commits < MaxResults
  /\ check' = [check EXCEPT ![c] = [Idle EXCEPT !.at = "probing", !.checked = now]]
  /\ UNCHANGED <<now, results, state, incident, log, commits, rating, rollbacks>>

\* It has an outcome, and record_check_result loads the state row.
LoadState(c, ok) ==
  /\ check[c].at = "probing"
  /\ check' = [check EXCEPT ![c].at = "loaded", ![c].ok = ok,
                            ![c].loaded = state, ![c].commits = commits]
  /\ UNCHANGED <<now, results, state, incident, log, commits, rating, rollbacks>>

\* It inserts the result, which takes the writer lock, and computes the ratios
\* from what the table and its own insert hold.
RateUptime(c) ==
  /\ check[c].at = "loaded" /\ LockFree /\ commits < MaxResults
  /\ check' = [check EXCEPT ![c].at = "rated", ![c].rated = now,
                            ![c].alone = (check[c].commits = commits),
                            ![c].day = Ratio(Since(InView(c), now - Day)),
                            ![c].week = Ratio(Since(InView(c), now - Week))]
  /\ UNCHANGED <<now, results, state, incident, log, commits, rating, rollbacks>>

\* The state row after the flush.
AfterCheck(c) ==
  LET old == check[c].loaded IN
  [status |-> Column(state.status, old.status, IF check[c].ok THEN "up" ELSE "down"),
   last   |-> Column(state.last, old.last, LastChecked(c)),
   day    |-> Column(state.day, old.day, check[c].day),
   week   |-> Column(state.week, old.week, check[c].week)]

\* evaluate_monitor_transition compares the loaded with the refreshed status; the
\* monitor is linked to its newest incident while that is open.
IncidentAfter(c, new) ==
  LET old == check[c].loaded.status IN
  IF old # "down" /\ new = "down" /\ incident.status # "open"
  THEN [status |-> "open", started |-> check[c].checked, resolved |-> None]
  ELSE IF old = "down" /\ new = "up" /\ incident.status = "open"
  THEN [incident EXCEPT !.status = "resolved", !.resolved = ResolvedAt(c)]
  ELSE incident

\* It prunes, opens or resolves the incident, and commits.
CommitCheck(c) ==
  /\ check[c].at = "rated"
  /\ results' = Pruned(results \cup {Own(c)}, now)
  /\ state' = AfterCheck(c)
  /\ incident' = IncidentAfter(c, AfterCheck(c).status)
  /\ log' = log \cup {Own(c)} /\ commits' = commits + 1
  /\ rating' = [at |-> check[c].rated, alone |-> check[c].alone]
  /\ check' = [check EXCEPT ![c] = Idle]
  /\ UNCHANGED <<now, rollbacks>>

\* The session fails at any moment.
LoseCheck(c) ==
  /\ check[c].at # "idle" /\ rollbacks < MaxRollbacks
  /\ rollbacks' = rollbacks + 1
  /\ check' = [check EXCEPT ![c] = Idle]
  /\ UNCHANGED <<now, results, state, incident, log, commits, rating>>

\* resolve_incident, by hand
ResolveIncident ==
  /\ LockFree /\ incident.status = "open"
  /\ incident' = [incident EXCEPT !.status = "resolved", !.resolved = now]
  /\ UNCHANGED <<now, results, state, check, log, commits, rating, rollbacks>>

Check(c) ==
  \/ StartCheck(c) \/ (\E ok \in BOOLEAN : LoadState(c, ok))
  \/ RateUptime(c) \/ CommitCheck(c) \/ LoseCheck(c)

Next == Tick \/ (\E c \in Checker : Check(c)) \/ ResolveIncident

Spec == Init /\ [][Next]_vars

-----------------------------------------------------------------------------
(* Properties *)

\* Results, columns and threads have their types, and one thread at a time
\* holds the writer lock.
HistoryTypeOK ==
  /\ now \in 0 .. MaxTime /\ commits \in 0 .. MaxResults /\ results \subseteq log
  /\ log \subseteq [id : 1 .. commits, at : 0 .. now, ok : BOOLEAN]
  /\ Cardinality(log) = commits
  /\ state.status \in {"unknown", "up", "down"} /\ state.last \in {None} \cup 0 .. now
  /\ \A share \in {state.day, state.week} : share = None \/ share \in 0 .. Whole
  /\ \A c, d \in Checker : check[c].at = "rated" /\ check[d].at = "rated" => c = d

\* Pruning takes no result that is within the retention.
RetentionKept == \A r \in log : r.at >= now - Retention => r \in results

\* With a retention no shorter than the windows the uptime ratios are those of
\* everything that was ever recorded in the window, although old results are
\* deleted and results come in out of order: unless the last check overlapped
\* another, when an unchanged value is not written over the other's.
RatioIsTrue ==
  Retention >= Week /\ rating.alone =>
    /\ state.day = Ratio(Since(log, rating.at - Day))
    /\ state.week = Ratio(Since(log, rating.at - Week))

\* last_check_at may go backwards when a slow check commits last, but no result
\* is newer by more than a check may take.
LastCheckNearlyNewest == \A r \in log : r.at <= state.last + MaxCheckTime

\* An incident may end before it started, by a slow check that saw the service
\* before the failing one did, but by no more than a check may take.
SpanNearlySound ==
  incident.status = "resolved" => incident.started <= incident.resolved + MaxCheckTime
=============================================================================
