-------------------------- MODULE MonitorScheduler --------------------------
(***************************************************************************)
(* The interval scheduler and the table of monitors it follows.            *)
(*                                                                         *)
(* The jobs live in the memory of the process, the monitors in the         *)
(* database.  A request changes its monitor, tells the scheduler, and only *)
(* then commits; a deletion tells the scheduler before it even writes.     *)
(* SCHEDULER_ENABLED is taken to be true: otherwise there are no jobs.     *)
(***************************************************************************)
EXTENDS Naturals, FiniteSets

CONSTANTS
  Admin,           \* threads serving administrator requests
  AdminOps,        \* the requests that happen
  MonitorCount,    \* monitor ids are 1..MonitorCount
  Workers,         \* worker threads of the scheduler's pool
  MaxLostCommits,  \* how many requests of one process may fail to commit
  MaxRestarts      \* how often the process may restart

Monitor == 1 .. MonitorCount
PatchOps == {"pause", "resume", "edit"}
LoadingOps == PatchOps \cup {"run"}
Operations == LoadingOps \cup {"create", "delete"}

ASSUME SchedulerBounds ==
  /\ MonitorCount \in Nat /\ Workers \in Nat
  /\ MaxLostCommits \in Nat /\ MaxRestarts \in Nat
ASSUME SchedulerOperations == AdminOps \subseteq Operations

VARIABLES
  monitor,      \* table monitors, committed
  job,          \* the scheduler's job of each monitor, and its timer
  running,      \* the monitors with a scheduled check under way
  request,      \* what each administrator thread is doing
  lostCommits,  \* requests that failed to commit since the process started
  restarts

vars == <<monitor, job, running, request, lostCommits, restarts>>

MonitorStatus == {"absent", "active", "paused"}
JobStatus == {"none", "waiting", "due"}

\* "loaded" has read its monitor, "unscheduled" is a deletion that has removed
\* the job, "written" holds the writer lock until it commits.
RequestRow == [at  : {"idle", "loaded", "unscheduled", "written"},
               op  : Operations \cup {"none"},
               mon : Monitor \cup {0},
               was : MonitorStatus,     \* the monitor as loaded
               new : MonitorStatus]     \* the monitor once committed
Idle == [at |-> "idle", op |-> "none", mon |-> 0, was |-> "absent", new |-> "absent"]

-----------------------------------------------------------------------------
\* The writer lock of the database is free.
LockFree == \A q \in Admin : request[q].at # "written"

\* SQLite gives a new monitor the id after the last one.
FreshMonitor(m) == /\ \A k \in Monitor : m <= k => monitor[k] = "absent"
                   /\ m > 1 => monitor[m - 1] # "absent"

\* What update_monitor leaves in the row: is_paused is written only if the
\* request changes the value it had when it was loaded.
Patched(op, was, now) ==
  IF op = "pause" /\ was = "active" THEN "paused"
  ELSE IF op = "resume" /\ was = "paused" THEN "active" ELSE now

\* (faulty) The scheduler is not told, or a job is paused or kept and not removed.
Unsynced(m, status) == job
JobPaused(m, status) ==
  [job EXCEPT ![m] = IF status = "active" THEN "waiting" ELSE "paused"]
JobKept(m, status) == IF status = "active" THEN [job EXCEPT ![m] = "waiting"] ELSE job
\* sync_monitor: a job for an active monitor, with its timer started again, and
\* none for a paused one.
Synced(m, status) ==
  [job EXCEPT ![m] = IF status = "active" THEN "waiting" ELSE "none"]

\* (faulty) A restart leaves the jobs to the next request.
NotRebuilt == [m \in Monitor |-> "none"]
\* start: a job for every active monitor.
Rebuilt == [m \in Monitor |-> IF monitor[m] = "active" THEN "waiting" ELSE "none"]

Init ==
  /\ monitor \in [Monitor -> {"absent"}]
  /\ job = [m \in Monitor |-> "none"]
  /\ running = {}
  /\ request = [q \in Admin |-> Idle]
  /\ lostCommits = 0 /\ restarts = 0

-----------------------------------------------------------------------------
(* Requests *)

\* POST /monitors inserts the monitor and schedules it.
CreateMonitor(q, status) ==
  /\ request[q].at = "idle" /\ LockFree
  /\ \E m \in Monitor :
       /\ FreshMonitor(m)
       /\ job' = Synced(m, status)
       /\ request' = [request EXCEPT ![q] = [at |-> "written", op |-> "create", mon |-> m,
                                             was |-> "absent", new |-> status]]
  /\ UNCHANGED <<monitor, running, lostCommits, restarts>>

\* PATCH /monitors/{id} and POST /checks/run/{id} load the monitor ...
LoadMonitor(q, op, m) ==
  /\ request[q].at = "idle" /\ monitor[m] # "absent"
  /\ request' = [request EXCEPT ![q] = [at |-> "loaded", op |-> op, mon |-> m,
                                        was |-> monitor[m], new |-> "absent"]]
  /\ UNCHANGED <<monitor, job, running, lostCommits, restarts>>

\* ... and later write, refresh it, and tell the scheduler what they find.
WriteMonitor(q) ==
  LET r == request[q]
      status == Patched(r.op, r.was, monitor[r.mon])
  IN
  /\ r.at = "loaded" /\ LockFree
  /\ monitor[r.mon] # "absent"
  /\ job' = Synced(r.mon, status)
  /\ request' = [request EXCEPT ![q].at = "written", ![q].new = status]
  /\ UNCHANGED <<monitor, running, lostCommits, restarts>>

\* Its monitor was deleted meanwhile: the update or the refresh fails.
FailToWrite(q) ==
  /\ request[q].at = "loaded" /\ LockFree
  /\ monitor[request[q].mon] = "absent"
  /\ request' = [request EXCEPT ![q] = Idle]
  /\ UNCHANGED <<monitor, job, running, lostCommits, restarts>>

\* DELETE /monitors/{id} removes the job as soon as it has found the monitor,
\* and deletes the row when it commits.
UnscheduleMonitor(q, m) ==
  /\ request[q].at = "idle" /\ monitor[m] # "absent"
  /\ job' = [job EXCEPT ![m] = "none"]
  /\ request' = [request EXCEPT ![q] = [at |-> "unscheduled", op |-> "delete", mon |-> m,
                                        was |-> monitor[m], new |-> "absent"]]
  /\ UNCHANGED <<monitor, running, lostCommits, restarts>>

DeleteMonitor(q) ==
  /\ request[q].at = "unscheduled" /\ LockFree
  /\ monitor' = [monitor EXCEPT ![request[q].mon] = "absent"]
  /\ request' = [request EXCEPT ![q] = Idle]
  /\ UNCHANGED <<job, running, lostCommits, restarts>>

Commit(q) ==
  /\ request[q].at = "written"
  /\ monitor' = [monitor EXCEPT ![request[q].mon] = request[q].new]
  /\ request' = [request EXCEPT ![q] = Idle]
  /\ UNCHANGED <<job, running, lostCommits, restarts>>

\* The database refuses the write or the commit; the scheduler is not told.
LoseCommit(q) ==
  /\ request[q].at # "idle" /\ lostCommits < MaxLostCommits
  /\ lostCommits' = lostCommits + 1
  /\ request' = [request EXCEPT ![q] = Idle]
  /\ UNCHANGED <<monitor, job, running, restarts>>

-----------------------------------------------------------------------------
(* The scheduler *)

\* The interval of a job is over.
Elapse(m) ==
  /\ job[m] = "waiting"
  /\ job' = [job EXCEPT ![m] = "due"]
  /\ UNCHANGED <<monitor, running, request, lostCommits, restarts>>

\* max_instances=1, and a thread of the pool is free.
MayRun(m) == m \notin running /\ Cardinality(running) < Workers

StartRun(m) ==
  /\ job[m] = "due" /\ MayRun(m)
  /\ running' = running \cup {m}
  /\ job' = [job EXCEPT ![m] = "waiting"]
  /\ UNCHANGED <<monitor, request, lostCommits, restarts>>

\* coalesce, misfire_grace_time: a run that cannot start is dropped.
SkipRun(m) ==
  /\ job[m] = "due" /\ ~MayRun(m)
  /\ job' = [job EXCEPT ![m] = "waiting"]
  /\ UNCHANGED <<monitor, running, request, lostCommits, restarts>>

\* _run_scheduled_check returns, whatever the check did.
EndRun(m) ==
  /\ m \in running
  /\ running' = running \ {m}
  /\ UNCHANGED <<monitor, job, request, lostCommits, restarts>>

\* The process ends, with its requests, checks and jobs, and starts again.
Restart ==
  /\ restarts < MaxRestarts
  /\ restarts' = restarts + 1
  /\ job' = Rebuilt
  /\ running' = {}
  /\ request' = [q \in Admin |-> Idle]
  /\ lostCommits' = 0
  /\ UNCHANGED monitor

-----------------------------------------------------------------------------
Request(q) ==
  \/ "create" \in AdminOps /\ \E s \in {"active", "paused"} : CreateMonitor(q, s)
  \/ \E op \in AdminOps \cap LoadingOps, m \in Monitor : LoadMonitor(q, op, m)
  \/ "delete" \in AdminOps /\ \E m \in Monitor : UnscheduleMonitor(q, m)

Serve(q) == WriteMonitor(q) \/ FailToWrite(q) \/ DeleteMonitor(q) \/ Commit(q)

Next ==
  \/ \E q \in Admin : Request(q) \/ Serve(q) \/ LoseCommit(q)
  \/ \E m \in Monitor : Elapse(m) \/ StartRun(m) \/ SkipRun(m) \/ EndRun(m)
  \/ Restart

Spec == Init /\ [][Next]_vars

\* Time passes for every job, and a check ends: probe, database and mail have
\* timeouts.
Fairness == \A m \in Monitor : /\ WF_vars(Elapse(m))
                               /\ WF_vars(StartRun(m))
                               /\ WF_vars(EndRun(m))
FairSpec == Spec /\ Fairness

-----------------------------------------------------------------------------
(* Properties *)

\* The tables, the jobs and the requests have their types, and one request at
\* a time holds the writer lock.
SchedulerTypeOK ==
  /\ monitor \in [Monitor -> MonitorStatus]
  /\ job \in [Monitor -> JobStatus]
  /\ running \subseteq Monitor
  /\ request \in [Admin -> RequestRow]
  /\ \A q \in Admin : request[q].at # "idle" => request[q].mon \in Monitor
  /\ \A p, q \in Admin : request[p].at = "written" /\ request[q].at = "written" => p = q
  /\ lostCommits \in 0 .. MaxLostCommits /\ restarts \in 0 .. MaxRestarts

\* A request has this monitor in hand: it holds the lock for it, or is about to
\* delete it.
InHand(m) == \E q \in Admin : /\ request[q].at \in {"written", "unscheduled"}
                              /\ request[q].mon = m

\* No active monitor is left without a job, however requests overlap, except
\* while a request has it in hand or after a commit was lost; a restart repairs
\* what a lost commit left behind.
ActiveHasJob ==
  lostCommits = 0 =>
    \A m \in Monitor : monitor[m] = "active" /\ ~InHand(m) => job[m] # "none"

\* Nor does a paused monitor keep or get one, by a check or an edit that overlaps
\* the pause.  (A monitor that is gone may, for ever: a request that loaded it
\* before its deletion tells the scheduler after that.)
PausedHasNoJob ==
  lostCommits = 0 =>
    \A m \in Monitor : monitor[m] = "paused" /\ ~InHand(m) => job[m] = "none"

\* Its run is due while the checks of other monitors have every worker: the pool
\* promises it nothing, and it may be dropped.
CrowdedOut(m) == job[m] = "due" /\ Cardinality(running \ {m}) >= Workers

\* A monitor that stays active is checked again and again, once the requests
\* have come to an end and none of them was lost since the last start, unless it
\* is crowded out again and again.  With as many workers as monitors it cannot be;
\* MAX_MONITORS allows 25, and the pool of BackgroundScheduler has 10.
Untouched == lostCommits = 0 /\ \A q \in Admin : request[q].at = "idle"
ActiveIsChecked ==
  \A m \in Monitor : <>[](monitor[m] = "active" /\ Untouched)
                        => []<>(m \in running \/ CrowdedOut(m))
=============================================================================
