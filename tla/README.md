# Verification of the service health and incident monitor

TLA+ models of the monitor's backend (`src/src/service_monitor`), the TLC runs
that check them and theorems about them that TLAPS proves.  The models are
written from the code; where a comment, a document or a test says something else,
a run shows the difference (see [Findings](#findings)).

## The system

One process serves an HTTP API (FastAPI, a pool of threads), runs a check of
every active monitor at its interval (APScheduler, another pool of threads) and
keeps everything but the scheduler's jobs in a database (SQLite by default).

| Part | State | Operations | Talks to |
|---|---|---|---|
| Monitors API (`api/v1/monitors.py`) | table `monitors` | create, update (pause, resume, edit), delete, run a check | scheduler (told before the commit), check runner |
| Scheduler (`scheduler/`) | jobs in memory | start, sync, remove, run | check runner, in sessions of its own |
| Check runner, probe (`services/check_runner.py`, `checks.py`) | semaphore | load the monitor, probe its URL, record | state |
| Monitor state (`services/state.py`, `monitor_transitions.py`) | `monitor_states`, `check_results` | record a check, synchronise a pause, prune | incidents, alerts |
| Incidents (`services/incidents.py`, `api/v1/incidents.py`) | `incidents`, `incident_updates`, `monitor_states.open_incident_id` | open and resolve on transitions; acknowledge, resolve, reopen by request | monitor state |
| Alerts (`services/alerts.py`, `api/v1/alert_settings.py`) | `alert_settings`, `alert_events`, `monitor_states.alert_open` | mail an outage, mail a recovery, change settings, test mail | SMTP |
| Status pages (`services/status_pages.py`, `api/v1/status_page.py`, `api/public/status.py`) | pages, components, links | component and link requests, the public page | monitor state |
| Fleet summary, sample data (`services/fleet.py`, `public_demo.py`, `app.py`) | none | counts, sample payloads, list of incidents | monitors, incidents, counters |
| Request counters (`state.py`) | counters under a lock | count, summarise | none |
| Sessions (`db/engine.py`, `db/repositories.py`) | one session per request or job | commit, roll back | database |
| Authentication, URL policy, configuration (`auth.py`, `ssrf.py`, `config.py`) | none | decide | DNS |

What makes it hard:

* **Stale rows.**  A session loads rows without a lock.  A check then waits for
  the probed service, up to its timeout, before it writes; every request has a
  gap between its reads and its first write.  What it decides may rest on rows
  that another session has changed since.
* **Column-wise writes.**  The ORM updates only the columns whose new value
  differs from the loaded one, so an overlapping write is neither lost as a whole
  nor applied as a whole.
* **Side effects before the commit.**  Mails are sent and the scheduler is told
  before the transaction commits; a rollback takes neither back.
* **Jobs and rows.**  The jobs are a copy of the `monitors` table in memory,
  kept by the requests, and lost at a restart.
* **No foreign keys.**  SQLite is opened without `PRAGMA foreign_keys`, and
  gives a new row the id after the largest one: rows of deleted monitors can
  outlive them and be inherited.
* **No snapshot.**  A reader's queries each see another moment.
* **Scarce things.**  A check holds a connection while it waits for a permit, and
  a permit while it waits for row locks, which sessions take in different orders.
* **Clocks.**  The time of a check is read before the probe; it is written after a
  wait, beside ratios that rest on later readings of the clock.

What must be right, per part: an outage has exactly one incident, linked to its
monitor, from the commit that marks it down to the one that marks it up; the
columns of an incident, of a state row and of a monitor tell one story; an
outage mail and a recovery mail alternate; every active monitor has a job and is
checked for ever, and no paused one has a job; the status page and the summary
tell an outage that lasts, and none that is not; what is pruned is in no window;
every session gives back what it took, and ends.

## Modules

| Module | Models |
|---|---|
| `MonitorIncidents` | sessions of checks and requests, monitors, their states, incidents, mails |
| `IncidentLedger` | abstract: what the incidents promise, without sessions, rows, checks and mails |
| `MonitorScheduler` | jobs, timers, worker threads, requests that sync the jobs before they commit, restarts |
| `StatusPages` | components, links, aggregation, the public page read query by query |
| `MonitorRegistry` | the table of monitors: the limit on their number, the range of status codes, updates column by column, and what checks leave in states and incidents |
| `PublicSummary` | extends `MonitorRegistry` by a visitor who is told the summary or the incidents, query by query |
| `CheckHistory` | results of one monitor, retention, ratios and times, with a clock |
| `SessionResources` | connections, semaphore, row locks of PostgreSQL, the lock of the request counters |
| `MonitorIncidentsProofs`, `MonitorSchedulerProofs`, `StatusPagesProofs`, `CheckHistoryProofs`, `SessionResourcesProofs` | theorems about the modules they extend |
| `MonitorRegistryProofs` | theorems about `MonitorRegistry` and `PublicSummary` |
| `AlertMailsProofs`, `OverlappingSessionsProofs` | more theorems about `MonitorIncidents`: the mails; by which overlaps the tables come to disagree, and the ledger |
| `MC...` | sets of threads, operations and payloads for the runs |

Definitions marked `(faulty)` are deliberate errors: each differs from the
definition after it as a plausible bug would, and a run's property is known to
fail when it takes that definition's place.  Nothing else refers to them.

### MonitorIncidents

The database has one writer at a time: the first INSERT, UPDATE or DELETE of a
session takes the lock and the commit gives it back, while reads outside a
transaction see what is committed.  So an operation is a *load* step, which
remembers the rows it read in `session[p]`, and a *write* step, which does all
from the first write to the commit.  A check has three: `StartCheck` (the monitor
was not paused: `execute_monitor_check`), `FinishProbe` (the HTTP request ended
and `record_check_result` loaded the state row) and `RecordCheck` (the rest).

* `AfterOutcome` and `AfterPause` are the state row after the flush and the
  refresh: `Column(db, loaded, new)` keeps the column of the database where the
  assigned value equals the loaded one.
* `WentDown` and `Recovered` compare the status that was loaded with the
  refreshed one, as `evaluate_monitor_transition` does, while the link and
  `alert_open` are those of the refreshed row: most properties under
  overlapping checks hang on that difference.
* `OpenIncident`, `CloseIncident`, `KeepIncident` are the three outcomes of
  `process_monitor_incident_transition`; `MailFor` and `AlertAfter` are
  `process_monitor_alert_transition`.
* `LoseCheck` is a check whose commit fails after the mail has left, `AbortCheck`
  one whose flush fails because its row is gone, `Rollback` any other failure.
* `CreateMonitor`, `LoadMonitor`/`PatchMonitor`, `LoadForDelete`/`DeleteMonitor`,
  `LoadIncident`/`Acknowledge`/`Resolve`/`Reopen` and `SetAlerts` are the
  administrator's requests.

An incident row keeps its status, monitor, the two timestamps as set or not, and
the last status in its timeline.  A mail is counted when it is attempted; whether
SMTP accepted it makes no difference to the code.

### IncidentLedger

A monitor has at most one current incident; opening makes one current, closing
it, by hand or by a recovery, ends that; a reopened incident is open but nobody's
current one.  `MonitorIncidents` ends with the mapping (`Ledger`), which reads `status` from the incident rows, `current` from
the links and `live` from the monitors.

### MonitorScheduler

`job[m]` is what APScheduler has for monitor m: nothing, a timer, or a run that is
due.  `WriteMonitor` tells the scheduler what it finds after its flush and holds
the writer lock until `Commit`; every one of these requests writes (`updated_at`
always changes), so none reaches the scheduler without the lock, except
`UnscheduleMonitor`: a deletion removes the job before its first write.
`LoseCommit` leaves the scheduler told and the table unchanged.  `Restart` loses
jobs, checks and requests and rebuilds the jobs from the table.  A run that
cannot start, because one of the same monitor is under way or no worker is free,
is dropped (`SkipRun`).  There may be fewer workers than monitors: `MAX_MONITORS`
allows 25, and `BackgroundScheduler()` has APScheduler's default pool of 10.

### StatusPages

The administrator's requests load and then write, as above.  A visit counts
monitors, lists components, then for each lists its monitors and loads the state
of every one that is not paused; the ORM's identity map still holds the
monitors of the previous component, so these are not read again.  `stillDown`,
`neverUp` and `onceDown` are history variables of the visit, and `had` remembers of
a deletion which links its component had when they were loaded.  The default page
exists from the start (`app.py` creates it before the first request).

### MonitorRegistry and PublicSummary

A creation counts (`CountMonitors`) and, after a name has been resolved, inserts
(`CreateMonitor`).  A payload gives some of the `Columns`; `Given` completes it
by the loaded row or by the defaults.  An update remembers in `request[q].set` only the columns whose
value is not the loaded one, as the ORM does, and validates the range of status
codes against the loaded row.  A creation whose payload has no maximum is not
validated: the validator belongs to that field.  A check is one step here, its
overlaps being the subject of `MonitorIncidents`; incidents are only counted.

A visit goes through the counts of `should_use_public_sample_data` (`Counts`, in
the order of the code, after the count that `GET /incidents` makes before), then
through the two queries of `fleet_summary` and the two of
`get_open_incident_count`.  `seen`, `stillDown` and `onceDown` are history
variables of the visit; `RightAnswer` is what one query would have told.

### CheckHistory

`StartCheck` reads the clock, `LoadState` remembers the row, `RateUptime` inserts
the result, which takes the writer lock, and computes both ratios, `CommitCheck`
prunes and commits; the clock may tick between any of these.  The deletion of old
results and the ratios each read the clock anew.  Ratios are rounded to
millionths (`Share`).  `log`, `commits` and `rating` are history variables.
`Tick` keeps every check within `MaxCheckTime`: its probe, its wait for the lock
and its mail all have timeouts.

### SessionResources

A burst of sessions, each of which runs once, over one monitor.  A session takes
a connection at its first query and keeps it to its end; a check goes through
`_get_check_semaphore` in the four steps between which another thread can come
(`Look`, `MakeSemaphore`, `AnnounceLimit`, `FetchSemaphore`), waits for a permit,
probes, and locks the rows it writes in the order of the code (`FirstRows`,
`MoreRows`): a check the monitor (by the foreign key of its result), the state and
the linked incident, which a recovery updates, and which an outage that goes on may
update too (`Touched`: only if the message differs from the last one); a resolution
the incident and the state; a pause the monitor and the state; a deletion the
state, the monitor and all incidents.  Foreign keys
share the lock of the row they point to.  PostgreSQL ends one of those that wait
for each other (`DetectDeadlock`).  A request counted by `POST /simulate/request`
and a summary take the lock of the counters instead.

## Runs

| Run | Threads and bounds | States | Shows |
|---|---|---|---|
| `serial` | a job, a manual check, an administrator, one session at a time; 2 monitors, 2 incidents, 1 failure | 392 000 | `LedgerSpec` |
| `outages` | the same threads, 3 sessions at a time; settings, pause, resume and deletion; 1 monitor, 2 incidents, 2 failures | 772 000 | `TypeOK`, `DownHasIncident`, `MailsAlternate`, `OneIncidentPerOutage`, `OutageOpensIncident`, `FailuresFitUnlessStale`, `StateUnlessOutlived`, `PausedUnlessProbed`, `RecoveryUnlessUnseen` |
| `recovery` | one job and an administrator of incidents, 2 sessions, 2 failures, a lost commit, fairness | 25 000 | `LinkSound`, `CoherentUnlessStale`, `OutageEnds` |
| `scheduler` | 2 administrators, 2 monitors, 1 worker, a lost commit, a restart, fairness | 277 000 | `SchedulerTypeOK`, `ActiveHasJob`, `PausedHasNoJob`, `ActiveIsChecked` |
| `pages` | 2 administrators and a visitor, 2 requests at a time; 2 monitors, 2 components, 2 links, 2 changes per visit; administrators are symmetric | 4 196 000 | `StatusPagesTypeOK`, `LinkUnlessOverlapped`, `OutageIsShown`, `OutageIsReal`, `OperationalIsReal` |
| `registry` | 2 administrators and a visitor; a limit of 1 monitor, 3 ids, 1 incident, 2 changes per visit; administrators are symmetric | 487 000 | `RegistryTypeOK`, `MonitorCountBounded`, `AnswerWasRight`, `DownCountIsReal`, `UpdateKeepsOthers` |
| `history` | 2 checks at a time, 3 in all and a lost one; windows of 1 and 2, retention 2, time up to 4; threads are symmetric | 1 394 000 | `HistoryTypeOK`, `RetentionKept`, `RatioIsTrue`, `LastCheckNearlyNewest`, `SpanNearlySound` |
| `resources` | 4 sessions, 3 connections, 1 permit; six bursts, each from a healthy and a failing monitor, with and without a semaphore made before; fairness | 329 000 | `ResourcesTypeOK`, `SlotsConserved`, `LinkedIsOpen`, `CountersAddUp`, `SemaphoreSettles`, `BurstEnds` |

The four other runs each end in the counterexample of a finding.  Deadlock is
checked except in `history`, where clock and checks run out, and in
`resources`, where the burst ends.

What the properties say that is not obvious:

* `OutageOpensIncident` and `LinkSound` hold however sessions overlap.  A check
  that loaded "down" cannot turn the row down again, because the column is then
  not written; one that loaded something else sees the transition.
* `DownHasIncident` and `OneIncidentPerOutage` need manual resolution to be left
  out (`AdminOps`): an administrator who resolves an incident while the monitor is
  still down leaves a down monitor without one, by design, and a check still under
  way may then open a second (hazard at `incidents.py:146`).
* The properties named `...Unless...` are about columns and rows that agree as long
  as sessions come one after the other and that some overlap does part.  Each is an
  action property: whichever step parts them is the end of such an overlap, and
  nothing else that goes on at the same time ever does it.  Every exception is a
  state the runs reach; it is a weakness of the code (see the hazards), and the
  property says how far it goes:
  * `CoherentUnlessStale`: an acknowledgement decided on a row loaded before a
    recovery or a resolution writes "acknowledged" over "resolved"
    (`incidents.py:208`), or a reopening writes over what has changed.
  * `FailuresFitUnlessStale`: two checks count from the same loaded row
    (`state.py:80`), each writing only the columns it found different.
  * `StateUnlessOutlived`: a scheduled check under way when its monitor is deleted,
    which looks for the state row only then, inserts one, and the next monitor
    inherits it (`state.py:122`).  A check that had loaded the row fails at its flush
    instead, and a request's check at the reload of the monitor.
  * `PausedUnlessProbed`: a check that was probing when its monitor was paused
    writes over "paused" (`state.py:74`).
  * `RecoveryUnlessUnseen`: of the first two checks of a monitor, or the first two
    after a pause, one fails and the other, which loaded the same row, succeeds: the
    monitor is up and the incident stays open.
* `LedgerSpec` is checked without overlapping sessions: the stale acknowledgement
  is a step the ledger does not have, nor is the link that a check under way leaves
  to a monitor deleted meanwhile.  Without these two operations it holds under any
  overlap, which is proved (`LedgerOverlapping` below).
* `MailsAlternate` is about monitors that exist: mails about a deleted one by a
  check that outlived it follow nothing.  A new monitor may inherit a state row
  with `alert_open` set, and then begins as if its outage had been mailed.
* `ActiveHasJob` and `PausedHasNoJob` hold however requests overlap, while no
  commit was lost since the process started.  A job of a monitor that is gone may
  stay, when a request that loaded the monitor before tells the scheduler after
  the deletion did (`monitors.py:282`); it logs that there is nothing to check.
* `ActiveIsChecked` excepts a monitor that is crowded out again and again
  (`CrowdedOut`): it is due while checks of other monitors have every worker.  With
  fewer workers than monitors this may go on for ever, since a run that finds no
  worker is dropped after a second and the pool is not fair.  The run has one worker for two
  monitors, so it happens there; without the exception TLC refutes the property.
* `MonitorCountBounded` is the bound that is reached: with two administrators the
  limit is exceeded by one.
* `DownCountIsReal` is about ids: an id that is deleted between the two
  queries of the summary and given to another monitor counts for that one.
* `RatioIsTrue` leaves out ratios of a check that overlapped another
  (`rating.alone`): if it computes the very value it had loaded, that column is
  not written, and the other's older one stays.  Without the premise TLC finds that.
* `LastCheckNearlyNewest` and `SpanNearlySound` allow a slack of `MaxCheckTime`:
  a slow check that commits last does set `last_check_at` back, and an incident may
  end before it started.  Without the slack both are violated.
* `SemaphoreSettles` does not say that no more than `Limit` probes run: first
  checks that overlap may each make a semaphore and keep it.  It says that this
  ends once the limit is announced and nobody is making one.
* `LinkedIsOpen` is the counterpart of `LinkSound` under row locks instead of one
  writer; reopening and acknowledging, which lock only the incident, are left out.
* `BurstEnds` includes the deadlock of `incidents.py:243`, which happens, and ends
  because PostgreSQL aborts one of the two; the other then goes on.  It does not
  count on the pool giving up on a session (`Refuse`), nor on queries that fail:
  neither is in the fair actions.
* `LinkUnlessOverlapped`: a link is left to a component that is gone by a deletion
  that had loaded the links before this one was added, or by an addition whose
  component was deleted after it was looked up.  SQLite enforces no foreign key, and
  the id of the component is used again.
* `OutageIsShown` is about one link all through the visit.  A monitor that is
  moved from one component to another during a visit can be missed by it, although
  it is on the page at every moment.

### Bounds

* `MaxOverlap` bounds how many sessions are open at a time.  Three sessions, two
  checks and a request, cover every pair of stale decisions around a third change.
* `MaxFailures`: no check fails once the counter is there.  The code tells zero,
  one and more only through "is the status down"; two failures are in `outages`
  and `recovery`.
* `IncidentCount`, `MonitorCount`, `ComponentCount`, `LinkCount`: ids.  Ids are
  reused after a deletion as SQLite does, so the bound cuts runs off only when all
  ids are taken; `IncidentsToSpare` and the guard of `LoadForLink` keep a session
  from starting what no id is left for.
* `MaxRollbacks`, `MaxLostCommits`, `MaxRestarts`, `MaxChanges` count failures
  and changes.  `MaxLostCommits` is per process: a restart starts it anew.
* `registry`: a limit of one and two administrators is the least with which the
  limit is exceeded; the third id lets ids be reused while two monitors exist.
  Updates give a maximum or a pause: columns that differ and that overlap.  Two
  changes per visit suffice to make three queries see three moments.
* `history`: a retention as long as the week is the least with which the ratios
  are right, so pruning and both windows bite at the same boundary; three results
  of two threads come in out of order, with one pruned between two ratings.
* `scheduler`: one worker for two monitors is the least with which a run is crowded
  out.  The theorems leave `Workers` open.
* `pages`: `MaxOverlap` bounds the requests that are open, the visit included: two
  administrators overlap, or one of them and the visitor.  During a visit the tables
  change only before a step that queries them (`MayChange`); between two steps that
  do not query, a change is seen by the same queries.  Two changes per visit let
  three queries see three moments.
* `resources`: three connections for four sessions, so that one may be refused;
  one permit, so that one check holds it while the other waits with a connection;
  two sessions that write on either side of the checks close every cycle of locks
  of two or three.  The pool of the service has 15 connections, which changes how
  many sessions it takes and not what they wait for.
* One monitor suffices for overlapping sessions, since sessions of different
  monitors share only the incident ids; `serial` has two, for links and ids across
  monitors.

### Fairness

`recovery`: a scheduled check starts again and again (the interval trigger) and
ends (the HTTP client has a timeout, SQLite a busy timeout).  Nothing is assumed of
requests, of manual checks, or of any outcome: that checks succeed from some time
on is the premise of `OutageEnds`.  Pausing and deleting are left out there; with a
pause the property fails (the finding `recovery_after_pause`).

`resources`: some session that can go on does.  Each runs once and no step can be
undone, so nothing stronger is needed: a thread that waits for a lock, permit or
connection gets its turn when the others have ended.  That a session is refused a
connection after a time (`Refuse`) or fails (`Fail`) may happen and is not counted on:
the sessions that hold connections must end for the others to go on.

`scheduler`: time passes for every job, a due run starts if it can, a check ends.
Nothing is assumed of requests; `ActiveIsChecked` is about monitors that requests
have left alone.  Nor is it assumed that a worker is free when a run is due, or that
the pool gives every monitor its turn: a start is owed only while it stays possible.

## Findings

| Run | Property | The code |
|---|---|---|
| `recovery_after_pause` | `UpHasNoIncident` | pausing overwrites the status a recovery is recognised by: the incident stays open, and swallows the next outage |
| `outage_unmailed` | `OutageIsMailed` | with `send_resolved` off `alert_open` is never cleared, and later outages are not mailed |
| `status_range` | `RangeSound` | a creation with a minimum above 399 and no maximum is not validated and makes an empty range; so may two updates that overlap |
| `synthetic_count` | `OpenCountIsReal` | with monitors and no incident the summary tells one open incident, of the synthetic ones |

`PROJECT.json` quotes what the repository says in each case.

## Proofs

Every invariant and action property of the passing runs, and the refinement, is a
theorem for every value of the constants; where a premise on the constants is
needed, it is named below with the reason.  No theorem assumes that sessions or
requests come one after the other.  Each argument has an inductive
invariant, which TLC checked on the run before it was proved.

### MonitorIncidents, however sessions overlap

`MonitorIncidentsProofs` has no bound on overlapping sessions:

* `TypeCorrect`: `TypeOK` always holds.  It is inductive, because it includes what
  a session has loaded (`SessionOK`): a failing check in hand has a counter below
  the bound.
* `LinksSound`: `LinkSound` always holds.  Relative to `TypeOK` it is inductive.
  The critical steps are the write of an acknowledgement or a reopening, which may
  only turn a linked incident into an open one; a resolution, which drops the
  link of the very incident (`Unlinked`); and a new incident, whose id was used by
  nobody.  A linked incident exists, so it is never the new one.
* `OutagesOpenIncidents`: `OutageOpensIncident` is an action property.  If the row
  turns down in a step, the column was written, so the loaded status was another
  one, so the check sees the transition and opens an incident unless the row has
  a link.
* `DownMonitorsHaveIncidents`: if "resolve" is not among the operations,
  `DownHasIncident` always holds.  Besides the step above, a link is dropped only by
  a recovery, which leaves the monitor up.
* `OneIncidentEach`: under the same premise `OneIncidentPerOutage`.  A check opens
  an incident only where there is no link, which a down monitor then has; and a
  request never makes an incident appear, because what it loaded is still there
  (`LoadedIncidents`, `ChangedStatus`).

`AlertMailsProofs` proves `AlertMailsAlternate`: `MailsAlternate` always holds if
`MaxRollbacks` is 0.  A mail that has left cannot be taken back, so a lost commit
does break it (the hazard at `alerts.py:270`).  The invariant adds
`AbsentIsBlank`: where there is no state row, a check or a pause that inserts one
starts without the flag; where there is one, the flag decides on the mail and is
written with it.

`OverlappingSessionsProofs` proves the `...Unless...` properties, for every number of
threads and sessions that overlap:

* `IncidentsCoherentUnlessStale`: `CoherentUnlessStale`.  What a check writes to an
  incident it has read under the lock (`CheckCoherent`).  A request writes column by
  column over what another session left (`StaleChange`); a resolution sets status and
  timestamp whatever it loaded, because what it loaded was not resolved (`LoadedOpen`,
  inductive), so both columns are written.
* `FailuresFitUnlessStaleHolds`: `FailuresFitUnlessStale`.  `StateWrites` names the
  steps that write a state row; if counter and status are as loaded, both columns end
  up as the check or the pause computed them (`OutcomeFits`, `PauseSets`).
* `StatesHaveMonitorsUnlessOutlived`: `StateUnlessOutlived`.  The invariant is that a
  monitor has its row (`MonitorHasState`) and that a check which is to synchronise a
  pause had loaded one (`SyncsLoaded`); a row without a monitor is then inserted by
  nobody but a scheduled check that found neither.
* `PausedShownUnlessProbed`: `PausedUnlessProbed`.  A step that pauses a monitor, or
  synchronises one that is paused, leaves "paused" whatever it had loaded (`PauseSets`,
  `MaintainedRow`).
* `RecoveriesCloseUnlessUnseen`: `RecoveryUnlessUnseen`, relative to `LinkSound`.  A
  check that had found the monitor down sees the recovery and reads the link from the
  refreshed row (`SeenDownCloses`); one that had found it up does not write the status
  at all, so the monitor stays down.
* `LedgerOverlapping`: `LedgerSpec` for every `MaxOverlap`, if "acknowledge" and
  "delete" are not among the operations: an acknowledgement may write over a
  resolution, and a check may outlive its monitor.  `OverlapInv` says what remains
  true of loaded rows: the monitor of a check is still there, and what a request is
  about to resolve was not resolved when it was loaded.  `OverlapEffect` says what each
  step does to statuses, links and monitors, in one of a few shapes (`Effect`), and
  `LedgerStep` takes each shape to a step of the ledger or a stutter.

### MonitorScheduler

`MonitorSchedulerProofs`, for every number of administrators, monitors, workers,
lost commits and restarts:

* `SchedulerTypeCorrect`: `SchedulerTypeOK`, with the unique holder of the writer
  lock, always holds.
* `ActiveMonitorsHaveJobs`: `ActiveHasJob` always holds.  It is not inductive: a
  commit makes a monitor active whose job was made a step earlier, and a deletion,
  which does not wait for the lock, may have removed that job in between.
  `ToldHasJob` says what is left: a request that told the scheduler "active" has
  its job until it commits, unless a deletion that came after it is still to
  delete the row.  The deletion then keeps the monitor in hand past the commit.
* `PausedMonitorsHaveNoJob`: `PausedHasNoJob` always holds, by the same argument
  for a request that told the scheduler "paused"; a removal by a deletion only
  helps here, so nothing is left to except.

### StatusPages

`StatusPagesProofs`, for every number of threads, monitors, components, links and
changes during a visit:

* `StatusPagesTypeCorrect`: `StatusPagesTypeOK`; a request that adds a link has both
  its ends (`LinksWhole`).
* `LastingOutagesShown`, `OperationalReal`: `OutageIsShown` and `OperationalIsReal`.
  `Covered` is the argument: the component of a monitor that was down (or not up)
  so far is still to be read, is being read, or has already made the page tell it.
  `GotInv` adds that what the identity map holds of such a monitor is still unread,
  or says the same.
* `OutagesReal`: `OutageIsReal`, by `DownSeen`: whatever tells an outage was read
  from a monitor that was down.
* `LinksHaveComponents`: `LinkUnlessOverlapped`.  `CascadeLoaded`, inductive, says that
  a deletion has loaded all links its component had then; `RequestLinks` goes through
  the requests that write.

### MonitorRegistry and PublicSummary

`MonitorRegistryProofs`, for every number of administrators and monitors, all
payloads and every limit:

* `MonitorsBounded`: `MonitorCountBounded` always holds.  It is not inductive:
  `RegistryInv` also counts the creations under way (`Creating`).  A count that finds
  room adds at most as many as there are administrators to less than the limit;
  an insert moves one from the creations to the monitors.
* `RegistryTypeCorrect`: `RegistryTypeOK`, by `TypesInv`, with what a request carries
  (`RequestFits`): there are open incidents for all links, so a recovery or a
  resolution never counts below zero.
* `UpdatesKeepOthers`: `UpdateKeepsOthers`, an action property: the columns an update
  sets are among those of its payload.
* `SummaryImplementsRegistry`: visits only read, so whatever holds of
  `MonitorRegistry` holds of `PublicSummary` too.
* `AnswersWereRight`, `DownCountsAreReal`: `AnswerWasRight` and `DownCountIsReal`.
  `CountingFits` says for each point between two counts what the counts so far can
  still lead to and that this was right at some moment; incidents are never deleted
  (a deletion of their monitor keeps them), so if a later count finds none there
  were none before.  `FleetFits` puts what
  has been read of the fleet between what was down all the time and what was down
  at some time.

### CheckHistory

`CheckHistoryProofs`, for every number of threads, all windows, retentions and
timings:

* `RetentionIsKept`: `RetentionKept` always holds.  The clock only goes forward,
  so what a pruning took is never within the retention again.
* `RatiosTrue`: `RatioIsTrue` always holds.  `HistoryInv` adds that one thread at
  a time holds the lock, that what it computed is true of everything recorded and
  its own result (`RatedTruly`; here the retention must cover the week), and that a
  thread which overlapped no commit has loaded the ratios that are in the
  database (`LoadedIsCurrent`), so that a column it does not write is right.
* `LastCheckNearly`, `SpansNearlySound`: `LastCheckNearlyNewest` and
  `SpanNearlySound`.  `TimesInv` says that every check is within `MaxCheckTime` of
  its reading of the clock, that no result and no incident is of the future, and
  that who wrote `last_check_at` after a check had loaded it began not long before
  that check (`LastMoved`).
* `HistoryTypes`: `HistoryTypeOK`.  `CountsInv` numbers the results by their commits,
  and bounds the rounded quotient of two counts by one (`Percent`).

### SessionResources

`SessionResourcesProofs`, for every number of threads, every pool and every limit.
`ResourcesInv` is one inductive invariant for all:

* `ResourcesTypeCorrect`: `ResourcesTypeOK`.  `LocksFit`: a lock is taken only where
  it clashes with none that is held, and the rows to lock are rows.
* `SlotsAreConserved`: `SlotsConserved`, inductive relative to the types: each step
  moves one thread into or out of the holders of one semaphore or of the pool.
* `LinksAreOpen`: `LinkedIsOpen`.  `LinkFits` drops the premise that the monitor is
  there.  A recovery and a resolution each drop the link together with the incident
  they close, on rows they have locked.
* `SummariesAddUp`: `CountersAddUp`.  `CountersFit` has the moment in which the total
  is one ahead (`Ahead`), and that whoever is in the middle is alone there.
* `SemaphoresSettle`: `SemaphoreSettles`, an action property: only a check that is
  making a semaphore replaces it, and a check that looks when the limit is
  announced starts to make none.

### Assumptions

The theorems rest on the named assumptions of the modules (threads are disjoint
and finite, bounds are naturals, `AdminOps` are operations, the settings at the
start are Booleans, payloads give columns values of their type, a day is no longer
than a week), which TLC evaluates in every run.

Only model-checked: liveness (`OutageEnds`, `ActiveIsChecked`, `BurstEnds`), which
rests on fairness and so on ENABLED, which the prover has no rules for.  The four
findings are counterexamples, and stay with TLC too.

## Not modelled

* PostgreSQL beyond `SessionResources`: its snapshots and foreign keys differ from
  SQLite's, and the other modules keep to SQLite, the default.
* Row locks of pruning, of acknowledging and reopening, and of mails.
* Response times and their average, the arithmetic of the error budget.
* The contents of incidents, mails and payloads; manual timeline entries, which
  change no other state; names and order of components; visibility of the page.
* Validation of requests but for the range of status codes, authentication, URL
  policy: stateless decisions.
* The SMTP exchange: a mail is sent or attempted, the code treats both alike.
* Migrations, the static dashboard, deployment files.

## Plan

What is left, in this order.

1. A composition of `MonitorScheduler` and `MonitorIncidents`: checks only of
   monitors that have a job, restarts under open incidents.
2. Which other properties of `MonitorIncidents` depend on the single writer: its
   sessions with the row locks of `SessionResources`.
3. The list of recent incidents on the status page, with the visibility of the page.
