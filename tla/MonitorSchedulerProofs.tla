----------------------- MODULE MonitorSchedulerProofs -----------------------
(***************************************************************************)
(* Type correctness of the scheduler's model, and that no active monitor   *)
(* is left without a job, for any number of administrators and monitors.   *)
(***************************************************************************)
EXTENDS MonitorScheduler, TLAPS

-----------------------------------------------------------------------------
(* Types *)

LEMMA IdleRequest == Idle \in RequestRow
BY DEF Idle, RequestRow, MonitorStatus

LEMMA SyncedType ==
  ASSUME SchedulerTypeOK, NEW m \in Monitor, NEW status
  PROVE  Synced(m, status) \in [Monitor -> JobStatus]
BY DEF SchedulerTypeOK, Synced, JobStatus

LEMMA PatchedType ==
  ASSUME NEW op, NEW was, NEW now \in MonitorStatus, now # "absent"
  PROVE  Patched(op, was, now) \in {"active", "paused"}
<1>1. CASE op = "pause" /\ was = "active"
  BY <1>1 DEF Patched
<1>2. CASE op = "resume" /\ was = "paused"
  BY <1>2 DEF Patched
<1>3. CASE ~(op = "pause" /\ was = "active") /\ ~(op = "resume" /\ was = "paused")
  <2>1. Patched(op, was, now) = now
    BY <1>3 DEF Patched
  <2>2. QED
    BY <2>1 DEF MonitorStatus
<1>4. QED
  BY <1>1, <1>2, <1>3

LEMMA SchedulerTypeInit == Init => SchedulerTypeOK
<1> SUFFICES ASSUME Init PROVE SchedulerTypeOK
  OBVIOUS
<1>1. request \in [Admin -> RequestRow]
  BY IdleRequest DEF Init
<1>2. \A q \in Admin : request[q].at = "idle"
  BY DEF Init, Idle
<1>3. QED
  BY <1>1, <1>2, SchedulerBounds DEF Init, SchedulerTypeOK, MonitorStatus, JobStatus

\* A step that changes one request and keeps the counters.
LEMMA RequestStep ==
  ASSUME SchedulerTypeOK, NEW q \in Admin, NEW r \in RequestRow,
         request' = [request EXCEPT ![q] = r],
         r.at # "idle" => r.mon \in Monitor,
         r.at = "written" => LockFree
  PROVE  /\ request' \in [Admin -> RequestRow]
         /\ \A p \in Admin : request'[p].at # "idle" => request'[p].mon \in Monitor
         /\ \A p, s \in Admin :
              request'[p].at = "written" /\ request'[s].at = "written" => p = s
<1>1. request \in [Admin -> RequestRow]
  BY DEF SchedulerTypeOK
<1>2. \A p \in Admin : request'[p] = IF p = q THEN r ELSE request[p]
  BY <1>1
<1>3. \A p \in Admin : request'[p].at # "idle" => request'[p].mon \in Monitor
  BY <1>2 DEF SchedulerTypeOK
<1>4. ASSUME NEW p \in Admin, NEW s \in Admin,
             request'[p].at = "written", request'[s].at = "written"
      PROVE  p = s
  <2>1. CASE r.at = "written"
    BY <1>2, <1>4, <2>1 DEF LockFree
  <2>2. CASE r.at # "written"
    BY <1>2, <1>4, <2>2 DEF SchedulerTypeOK
  <2>3. QED
    BY <2>1, <2>2
<1>5. QED
  BY <1>1, <1>3, <1>4

LEMMA SchedulerTypeRequest ==
  ASSUME SchedulerTypeOK, NEW q \in Admin, Request(q)
  PROVE  SchedulerTypeOK'
<1>1. ASSUME NEW s \in {"active", "paused"}, CreateMonitor(q, s)
      PROVE  SchedulerTypeOK'
  <2>1. PICK m \in Monitor :
          /\ job' = Synced(m, s)
          /\ request' = [request EXCEPT ![q] = [at |-> "written", op |-> "create", mon |-> m,
                                                was |-> "absent", new |-> s]]
    BY <1>1 DEF CreateMonitor
  <2> DEFINE r == [at |-> "written", op |-> "create", mon |-> m, was |-> "absent", new |-> s]
  <2>2. r \in RequestRow
    BY DEF RequestRow, Operations, MonitorStatus
  <2>3. LockFree
    BY <1>1 DEF CreateMonitor
  <2>4. QED
    BY <1>1, <2>1, <2>2, <2>3, RequestStep, SyncedType DEF CreateMonitor, SchedulerTypeOK
<1>2. ASSUME NEW op \in AdminOps \cap LoadingOps, NEW m \in Monitor, LoadMonitor(q, op, m)
      PROVE  SchedulerTypeOK'
  <2> DEFINE r == [at |-> "loaded", op |-> op, mon |-> m, was |-> monitor[m], new |-> "absent"]
  <2>1. r \in RequestRow
    BY DEF RequestRow, Operations, MonitorStatus, SchedulerTypeOK
  <2>2. QED
    BY <1>2, <2>1, RequestStep DEF LoadMonitor, SchedulerTypeOK
<1>3. ASSUME NEW m \in Monitor, UnscheduleMonitor(q, m)
      PROVE  SchedulerTypeOK'
  <2> DEFINE r == [at |-> "unscheduled", op |-> "delete", mon |-> m, was |-> monitor[m],
                   new |-> "absent"]
  <2>1. r \in RequestRow
    BY DEF RequestRow, Operations, MonitorStatus, SchedulerTypeOK
  <2>2. job' \in [Monitor -> JobStatus]
    BY <1>3 DEF UnscheduleMonitor, SchedulerTypeOK, JobStatus
  <2>3. QED
    BY <1>3, <2>1, <2>2, RequestStep DEF UnscheduleMonitor, SchedulerTypeOK
<1>4. QED
  BY <1>1, <1>2, <1>3 DEF Request

LEMMA SchedulerTypeServe ==
  ASSUME SchedulerTypeOK, NEW q \in Admin, Serve(q) \/ LoseCommit(q)
  PROVE  SchedulerTypeOK'
<1> DEFINE r == request[q]
<1>0. r \in RequestRow /\ Idle \in RequestRow /\ Idle.at = "idle"
  BY IdleRequest DEF SchedulerTypeOK, Idle
<1>1. CASE WriteMonitor(q)
  <2> DEFINE status == Patched(r.op, r.was, monitor[r.mon])
             w == [r EXCEPT !.at = "written", !.new = status]
  <2>1. r.mon \in Monitor
    BY <1>1 DEF WriteMonitor, SchedulerTypeOK
  <2>2. monitor[r.mon] \in MonitorStatus /\ monitor[r.mon] # "absent"
    BY <1>1, <2>1 DEF WriteMonitor, SchedulerTypeOK
  <2>3. status \in MonitorStatus
    BY <2>2, PatchedType DEF MonitorStatus
  <2> HIDE DEF status
  <2>4. w \in RequestRow /\ w.at = "written" /\ w.mon = r.mon
    BY <1>0, <2>3 DEF RequestRow
  <2>5. request' = [request EXCEPT ![q] = w]
    BY <1>1 DEF WriteMonitor, SchedulerTypeOK, status
  <2>6. job' \in [Monitor -> JobStatus]
    BY <1>1, <2>1, SyncedType DEF WriteMonitor
  <2> HIDE DEF w
  <2>7. LockFree
    BY <1>1 DEF WriteMonitor
  <2>8. QED
    BY <1>1, <2>1, <2>4, <2>5, <2>6, <2>7, RequestStep DEF WriteMonitor, SchedulerTypeOK
<1>2. CASE FailToWrite(q)
  BY <1>0, <1>2, RequestStep DEF FailToWrite, SchedulerTypeOK
<1>3. CASE DeleteMonitor(q)
  <2>1. monitor' \in [Monitor -> MonitorStatus]
    BY <1>3 DEF DeleteMonitor, SchedulerTypeOK, MonitorStatus
  <2>2. QED
    BY <1>0, <1>3, <2>1, RequestStep DEF DeleteMonitor, SchedulerTypeOK
<1>4. CASE Commit(q)
  <2>1. request[q].new \in MonitorStatus
    BY <1>0 DEF RequestRow
  <2>2. monitor' \in [Monitor -> MonitorStatus]
    BY <1>4, <2>1 DEF Commit, SchedulerTypeOK
  <2>3. QED
    BY <1>0, <1>4, <2>2, RequestStep DEF Commit, SchedulerTypeOK
<1>5. CASE LoseCommit(q)
  <2>1. lostCommits' \in 0 .. MaxLostCommits
    BY <1>5, SchedulerBounds DEF LoseCommit, SchedulerTypeOK
  <2>2. QED
    BY <1>0, <1>5, <2>1, RequestStep DEF LoseCommit, SchedulerTypeOK
<1>6. QED
  BY <1>1, <1>2, <1>3, <1>4, <1>5 DEF Serve

LEMMA SchedulerTypeRun ==
  ASSUME SchedulerTypeOK, NEW m \in Monitor,
         Elapse(m) \/ StartRun(m) \/ SkipRun(m) \/ EndRun(m)
  PROVE  SchedulerTypeOK'
<1>1. CASE Elapse(m)
  BY <1>1 DEF Elapse, SchedulerTypeOK, JobStatus
<1>2. CASE StartRun(m)
  BY <1>2 DEF StartRun, SchedulerTypeOK, JobStatus
<1>3. CASE SkipRun(m)
  BY <1>3 DEF SkipRun, SchedulerTypeOK, JobStatus
<1>4. CASE EndRun(m)
  BY <1>4 DEF EndRun, SchedulerTypeOK
<1>5. QED
  BY <1>1, <1>2, <1>3, <1>4

LEMMA SchedulerTypeRestart ==
  ASSUME SchedulerTypeOK, Restart
  PROVE  SchedulerTypeOK'
<1>1. request' \in [Admin -> RequestRow] /\ \A q \in Admin : request'[q].at = "idle"
  BY IdleRequest DEF Restart, Idle
<1>2. job' \in [Monitor -> JobStatus]
  BY DEF Restart, Rebuilt, JobStatus
<1>3. restarts' \in 0 .. MaxRestarts /\ lostCommits' \in 0 .. MaxLostCommits
  BY SchedulerBounds DEF Restart, SchedulerTypeOK
<1>4. QED
  BY <1>1, <1>2, <1>3 DEF Restart, SchedulerTypeOK

LEMMA SchedulerTypeNext == SchedulerTypeOK /\ [Next]_vars => SchedulerTypeOK'
<1> SUFFICES ASSUME SchedulerTypeOK, [Next]_vars PROVE SchedulerTypeOK'
  OBVIOUS
<1>1. CASE UNCHANGED vars
  BY <1>1 DEF vars, SchedulerTypeOK
<1>2. CASE Next
  BY <1>2, SchedulerTypeRequest, SchedulerTypeServe, SchedulerTypeRun, SchedulerTypeRestart
     DEF Next
<1>3. QED
  BY <1>1, <1>2

\* Tables, jobs and requests are well typed, and one request at a time holds
\* the writer lock, for any number of requests, monitors, lost commits and
\* restarts.
THEOREM SchedulerTypeCorrect == Spec => []SchedulerTypeOK
BY SchedulerTypeInit, SchedulerTypeNext, PTL DEF Spec

-----------------------------------------------------------------------------
(* Jobs *)

\* A deletion that has removed the job of m has still to delete its row.
BeingDeleted(m) == \E q \in Admin : request[q].at = "unscheduled" /\ request[q].mon = m

\* What a request has told the scheduler, and not committed yet, holds unless a
\* deletion came after it.
ToldHasJob ==
  \A q \in Admin, m \in Monitor :
    request[q].at = "written" /\ request[q].mon = m /\ request[q].new = "active"
      => job[m] # "none" \/ BeingDeleted(m)

JobsFollow ==
  lostCommits = 0 =>
    /\ \A m \in Monitor : monitor[m] = "active" /\ ~InHand(m) => job[m] # "none"
    /\ ToldHasJob

LEMMA JobsInit == Init => JobsFollow
BY DEF Init, JobsFollow, ToldHasJob, Idle

\* A request that writes and tells the scheduler.
LEMMA JobsTold ==
  ASSUME SchedulerTypeOK, JobsFollow, LockFree,
         monitor' = monitor, lostCommits' = lostCommits,
         NEW q \in Admin, NEW r, NEW m \in Monitor, NEW status,
         request[q].at = "idle" \/ request[q].at = "loaded",
         r.at = "written", r.mon = m, r.new = status,
         request' = [request EXCEPT ![q] = r],
         job' = Synced(m, status)
  PROVE  JobsFollow'
<1> SUFFICES ASSUME lostCommits = 0 PROVE JobsFollow'
  BY DEF JobsFollow
<1>1. \A p \in Admin : request'[p] = IF p = q THEN r ELSE request[p]
  BY DEF SchedulerTypeOK
<1>2. \A k \in Monitor : job'[k] = IF k = m THEN IF status = "active" THEN "waiting" ELSE "none"
                                             ELSE job[k]
  BY DEF Synced, SchedulerTypeOK
<1>3. ASSUME NEW k \in Monitor, monitor'[k] = "active", ~InHand(k)'
      PROVE  job'[k] # "none"
  <2>1. k # m
    BY <1>1, <1>3 DEF InHand
  <2>2. ~InHand(k)
    BY <1>1, <1>3 DEF InHand
  <2>3. QED
    BY <1>2, <1>3, <2>1, <2>2 DEF JobsFollow
<1>4. ASSUME NEW p \in Admin, request'[p].at = "written", request'[p].new = "active"
      PROVE  job'[request'[p].mon] # "none"
  <2>1. p = q
    BY <1>1, <1>4 DEF LockFree
  <2>2. QED
    BY <1>1, <1>2, <1>4, <2>1
<1>5. QED
  BY <1>3, <1>4 DEF JobsFollow, ToldHasJob

\* A request that ends without a change to the jobs: it deletes or commits its
\* row, or has not told the scheduler of any.
LEMMA JobsEnded ==
  ASSUME SchedulerTypeOK, JobsFollow, UNCHANGED <<job, lostCommits>>, NEW q \in Admin,
         FailToWrite(q) \/ DeleteMonitor(q) \/ Commit(q)
  PROVE  JobsFollow'
<1> SUFFICES ASSUME lostCommits = 0 PROVE JobsFollow'
  BY DEF JobsFollow
<1>0. Idle.at = "idle" /\ request \in [Admin -> RequestRow] /\ monitor \in [Monitor -> MonitorStatus]
  BY DEF Idle, SchedulerTypeOK
<1>1. \A p \in Admin : request'[p] = IF p = q THEN Idle ELSE request[p]
  BY <1>0 DEF FailToWrite, DeleteMonitor, Commit
<1> DEFINE n == request[q].mon
<1>2. CASE FailToWrite(q)
  <2>1. UNCHANGED monitor /\ request[q].at = "loaded"
    BY <1>2 DEF FailToWrite
  <2>2. \A k \in Monitor : (InHand(k)' <=> InHand(k)) /\ (BeingDeleted(k)' <=> BeingDeleted(k))
    BY <1>0, <1>1, <2>1 DEF InHand, BeingDeleted
  <2>3. QED
    BY <1>0, <1>1, <2>1, <2>2 DEF JobsFollow, ToldHasJob, SchedulerTypeOK
<1>3. CASE DeleteMonitor(q)
  <2>1. /\ monitor' = [monitor EXCEPT ![n] = "absent"]
        /\ request[q].at = "unscheduled" /\ n \in Monitor /\ LockFree
    BY <1>3 DEF DeleteMonitor, SchedulerTypeOK
  <2>2. \A k \in Monitor : k # n /\ ~InHand(k)' => ~InHand(k)
    BY <1>0, <1>1 DEF InHand
  <2>3. \A p \in Admin : request'[p].at # "written"
    BY <1>0, <1>1, <2>1 DEF LockFree
  <2>4. \A k \in Monitor : monitor'[k] = "active" => k # n /\ monitor[k] = "active"
    BY <1>0, <2>1
  <2>5. QED
    BY <2>2, <2>3, <2>4 DEF JobsFollow, ToldHasJob
<1>4. CASE Commit(q)
  <2>1. /\ monitor' = [monitor EXCEPT ![n] = request[q].new]
        /\ request[q].at = "written" /\ n \in Monitor
    BY <1>4 DEF Commit, SchedulerTypeOK
  <2>2. \A k \in Monitor : k # n /\ ~InHand(k)' => ~InHand(k)
    BY <1>0, <1>1 DEF InHand
  <2>3. \A p \in Admin : request'[p].at # "written"
    BY <1>0, <1>1, <2>1 DEF SchedulerTypeOK
  <2>4. \A k \in Monitor : BeingDeleted(k) => InHand(k)'
    BY <1>0, <1>1, <2>1 DEF BeingDeleted, InHand
  <2>5. ASSUME NEW k \in Monitor, monitor'[k] = "active", ~InHand(k)'
        PROVE  job'[k] # "none"
    <3>1. CASE k = n
      BY <1>0, <2>1, <2>4, <2>5, <3>1 DEF JobsFollow, ToldHasJob
    <3>2. CASE k # n
      BY <1>0, <2>1, <2>2, <2>5, <3>2 DEF JobsFollow
    <3>3. QED
      BY <3>1, <3>2
  <2>6. QED
    BY <2>3, <2>5 DEF JobsFollow, ToldHasJob
<1>5. QED
  BY <1>2, <1>3, <1>4

\* A request that only loads, or that removes the job of what it will delete.
LEMMA JobsBegun ==
  ASSUME SchedulerTypeOK, JobsFollow, UNCHANGED <<monitor, lostCommits>>,
         NEW q \in Admin, NEW m \in Monitor, request[q].at = "idle",
         NEW r, r.mon = m, request' = [request EXCEPT ![q] = r],
         \/ r.at = "loaded" /\ UNCHANGED job
         \/ r.at = "unscheduled" /\ job' = [job EXCEPT ![m] = "none"]
  PROVE  JobsFollow'
<1> SUFFICES ASSUME lostCommits = 0 PROVE JobsFollow'
  BY DEF JobsFollow
<1>0. request \in [Admin -> RequestRow] /\ job \in [Monitor -> JobStatus]
  BY DEF SchedulerTypeOK
<1>1. \A p \in Admin : request'[p] = IF p = q THEN r ELSE request[p]
  BY <1>0
<1>2. \A k \in Monitor : (InHand(k) => InHand(k)') /\ (BeingDeleted(k) => BeingDeleted(k)')
  BY <1>1 DEF InHand, BeingDeleted
<1>3. \A k \in Monitor : job'[k] # job[k] => InHand(k)' /\ BeingDeleted(k)'
  BY <1>0, <1>1 DEF InHand, BeingDeleted
<1>4. \A k \in Monitor : monitor'[k] = "active" /\ ~InHand(k)' => job'[k] # "none"
  BY <1>2, <1>3 DEF JobsFollow
<1>5. ASSUME NEW p \in Admin, NEW k \in Monitor,
             request'[p].at = "written", request'[p].mon = k, request'[p].new = "active"
      PROVE  job'[k] # "none" \/ BeingDeleted(k)'
  <2>1. request'[p] = request[p]
    BY <1>1, <1>5
  <2>2. job[k] # "none" \/ BeingDeleted(k)
    BY <1>5, <2>1 DEF JobsFollow, ToldHasJob
  <2>3. QED
    BY <1>2, <1>3, <2>2
<1>6. QED
  BY <1>4, <1>5 DEF JobsFollow, ToldHasJob

\* The scheduler's own steps keep every job.
LEMMA JobsRun ==
  ASSUME SchedulerTypeOK, JobsFollow, NEW m \in Monitor,
         Elapse(m) \/ StartRun(m) \/ SkipRun(m) \/ EndRun(m)
  PROVE  JobsFollow'
<1>1. \A k \in Monitor : job[k] # "none" => job'[k] # "none"
  BY DEF Elapse, StartRun, SkipRun, EndRun, SchedulerTypeOK
<1>2. UNCHANGED <<monitor, request, lostCommits>>
  BY DEF Elapse, StartRun, SkipRun, EndRun
<1>3. QED
  BY <1>1, <1>2 DEF JobsFollow, ToldHasJob, InHand, BeingDeleted, SchedulerTypeOK

LEMMA JobsRestart ==
  ASSUME SchedulerTypeOK, Restart
  PROVE  JobsFollow'
<1>1. \A q \in Admin : request'[q].at = "idle"
  BY DEF Restart, Idle
<1>2. \A m \in Monitor : monitor'[m] = "active" => job'[m] # "none"
  BY DEF Restart, Rebuilt
<1>3. QED
  BY <1>1, <1>2 DEF JobsFollow, ToldHasJob

LEMMA JobsNext == SchedulerTypeOK /\ JobsFollow /\ [Next]_vars => JobsFollow'
<1> SUFFICES ASSUME SchedulerTypeOK, JobsFollow, [Next]_vars PROVE JobsFollow'
  OBVIOUS
<1>1. ASSUME NEW q \in Admin, NEW s \in {"active", "paused"}, CreateMonitor(q, s)
      PROVE  JobsFollow'
  <2>1. PICK m \in Monitor :
          /\ job' = Synced(m, s)
          /\ request' = [request EXCEPT ![q] = [at |-> "written", op |-> "create", mon |-> m,
                                                was |-> "absent", new |-> s]]
    BY <1>1 DEF CreateMonitor
  <2> DEFINE r == [at |-> "written", op |-> "create", mon |-> m, was |-> "absent", new |-> s]
  <2>2. /\ LockFree /\ monitor' = monitor /\ lostCommits' = lostCommits
        /\ request[q].at = "idle" \/ request[q].at = "loaded"
    BY <1>1 DEF CreateMonitor
  <2>3. r.at = "written" /\ r.mon = m /\ r.new = s /\ request' = [request EXCEPT ![q] = r]
    BY <2>1
  <2> HIDE DEF r
  <2>4. QED
    BY <2>1, <2>2, <2>3, JobsTold
<1>2. ASSUME NEW q \in Admin, WriteMonitor(q)
      PROVE  JobsFollow'
  <2>1. /\ request[q].mon \in Monitor /\ request[q] \in RequestRow
        /\ request \in [Admin -> RequestRow]
    BY <1>2 DEF WriteMonitor, SchedulerTypeOK
  <2>2. PICK m \in Monitor : m = request[q].mon
    BY <2>1
  <2>3. PICK status : status = Patched(request[q].op, request[q].was, monitor[m])
    OBVIOUS
  <2>4. PICK r : r = [request[q] EXCEPT !.at = "written", !.new = status]
    OBVIOUS
  <2>5. /\ LockFree /\ monitor' = monitor /\ lostCommits' = lostCommits
        /\ request[q].at = "idle" \/ request[q].at = "loaded"
    BY <1>2 DEF WriteMonitor
  <2>6. job' = Synced(m, status)
    BY <1>2, <2>2, <2>3 DEF WriteMonitor
  <2>7. request' = [request EXCEPT ![q] = r]
    BY <1>2, <2>1, <2>2, <2>3, <2>4 DEF WriteMonitor
  <2>8. r.at = "written" /\ r.mon = m /\ r.new = status
    BY <2>1, <2>2, <2>4 DEF RequestRow
  <2>9. QED
    BY <2>5, <2>6, <2>7, <2>8, JobsTold
<1>3. ASSUME NEW q \in Admin, NEW op \in AdminOps \cap LoadingOps, NEW m \in Monitor,
             LoadMonitor(q, op, m)
      PROVE  JobsFollow'
  BY <1>3, JobsBegun DEF LoadMonitor
<1>4. ASSUME NEW q \in Admin, NEW m \in Monitor, UnscheduleMonitor(q, m)
      PROVE  JobsFollow'
  BY <1>4, JobsBegun DEF UnscheduleMonitor
<1>5. ASSUME NEW q \in Admin, FailToWrite(q) \/ DeleteMonitor(q) \/ Commit(q)
      PROVE  JobsFollow'
  BY <1>5, JobsEnded DEF FailToWrite, DeleteMonitor, Commit
<1>6. ASSUME NEW q \in Admin, LoseCommit(q)
      PROVE  JobsFollow'
  <2>1. lostCommits' # 0
    BY <1>6 DEF LoseCommit, SchedulerTypeOK
  <2>2. QED
    BY <2>1 DEF JobsFollow
<1>7. CASE UNCHANGED vars
  BY <1>7 DEF vars, JobsFollow, ToldHasJob, InHand, BeingDeleted
<1>8. CASE Next
  BY <1>1, <1>2, <1>3, <1>4, <1>5, <1>6, <1>8, JobsRun, JobsRestart DEF Next, Request, Serve
<1>9. QED
  BY <1>7, <1>8

\* No active monitor is left without a job while every commit succeeds, for any
\* number of overlapping requests and any number of restarts.
THEOREM ActiveMonitorsHaveJobs == Spec => []ActiveHasJob
<1>1. JobsFollow => ActiveHasJob
  BY DEF JobsFollow, ActiveHasJob
<1>2. QED
  BY <1>1, JobsInit, JobsNext, SchedulerTypeCorrect, PTL DEF Spec

-----------------------------------------------------------------------------
(* Paused monitors *)

\* What a request has told the scheduler of a monitor it pauses, or leaves
\* paused, still holds when it commits.
PausesFollow ==
  lostCommits = 0 =>
    /\ \A m \in Monitor : monitor[m] = "paused" /\ ~InHand(m) => job[m] = "none"
    /\ \A q \in Admin, m \in Monitor :
         request[q].at = "written" /\ request[q].mon = m /\ request[q].new = "paused"
           => job[m] = "none"

LEMMA PausesInit == Init => PausesFollow
BY DEF Init, PausesFollow, Idle

\* A request that writes and tells the scheduler.
LEMMA PausesTold ==
  ASSUME SchedulerTypeOK, PausesFollow, LockFree,
         monitor' = monitor, lostCommits' = lostCommits,
         NEW q \in Admin, NEW r, NEW m \in Monitor, NEW status,
         request[q].at = "idle" \/ request[q].at = "loaded",
         r.at = "written", r.mon = m, r.new = status,
         request' = [request EXCEPT ![q] = r],
         job' = Synced(m, status)
  PROVE  PausesFollow'
<1> SUFFICES ASSUME lostCommits = 0 PROVE PausesFollow'
  BY DEF PausesFollow
<1>1. \A p \in Admin : request'[p] = IF p = q THEN r ELSE request[p]
  BY DEF SchedulerTypeOK
<1>2. \A k \in Monitor : job'[k] = IF k = m THEN IF status = "active" THEN "waiting" ELSE "none"
                                             ELSE job[k]
  BY DEF Synced, SchedulerTypeOK
<1>3. ASSUME NEW k \in Monitor, monitor'[k] = "paused", ~InHand(k)'
      PROVE  job'[k] = "none"
  <2>1. k # m /\ ~InHand(k)
    BY <1>1, <1>3 DEF InHand
  <2>2. QED
    BY <1>2, <1>3, <2>1 DEF PausesFollow
<1>4. ASSUME NEW p \in Admin, request'[p].at = "written", request'[p].new = "paused"
      PROVE  job'[request'[p].mon] = "none"
  <2>1. p = q
    BY <1>1, <1>4 DEF LockFree
  <2>2. QED
    BY <1>1, <1>2, <1>4, <2>1
<1>5. QED
  BY <1>3, <1>4 DEF PausesFollow

\* A request that ends, by a failure, a deletion or a commit.
LEMMA PausesEnded ==
  ASSUME SchedulerTypeOK, PausesFollow, UNCHANGED <<job, lostCommits>>, NEW q \in Admin,
         FailToWrite(q) \/ DeleteMonitor(q) \/ Commit(q)
  PROVE  PausesFollow'
<1> SUFFICES ASSUME lostCommits = 0 PROVE PausesFollow'
  BY DEF PausesFollow
<1> DEFINE n == request[q].mon
<1>0. /\ Idle.at = "idle" /\ request \in [Admin -> RequestRow]
      /\ monitor \in [Monitor -> MonitorStatus]
  BY DEF Idle, SchedulerTypeOK
<1>1. \A p \in Admin : request'[p] = IF p = q THEN Idle ELSE request[p]
  BY <1>0 DEF FailToWrite, DeleteMonitor, Commit
<1>2. ASSUME NEW p \in Admin, NEW k \in Monitor,
             request'[p].at = "written", request'[p].mon = k, request'[p].new = "paused"
      PROVE  job'[k] = "none"
  BY <1>0, <1>1, <1>2 DEF PausesFollow
<1>3. ASSUME NEW k \in Monitor, monitor'[k] = "paused", ~InHand(k)'
      PROVE  job'[k] = "none"
  <2>1. CASE FailToWrite(q)
    <3>1. UNCHANGED monitor /\ request[q].at = "loaded"
      BY <2>1 DEF FailToWrite
    <3>2. ~InHand(k)
      BY <1>0, <1>1, <1>3, <3>1 DEF InHand
    <3>3. QED
      BY <1>3, <3>1, <3>2 DEF PausesFollow
  <2>2. CASE DeleteMonitor(q)
    <3>1. monitor' = [monitor EXCEPT ![n] = "absent"]
      BY <2>2 DEF DeleteMonitor
    <3>2. k # n /\ monitor[k] = "paused"
      BY <1>0, <1>3, <3>1
    <3>3. ~InHand(k)
      BY <1>0, <1>1, <1>3, <3>2 DEF InHand
    <3>4. QED
      BY <3>2, <3>3 DEF PausesFollow
  <2>3. CASE Commit(q)
    <3>1. monitor' = [monitor EXCEPT ![n] = request[q].new] /\ request[q].at = "written"
      BY <2>3 DEF Commit
    <3>2. CASE k = n
      BY <1>0, <1>3, <3>1, <3>2 DEF PausesFollow
    <3>3. CASE k # n
      <4>1. monitor[k] = "paused" /\ ~InHand(k)
        BY <1>0, <1>1, <1>3, <3>1, <3>3 DEF InHand
      <4>2. QED
        BY <4>1 DEF PausesFollow
    <3>4. QED
      BY <3>2, <3>3
  <2>4. QED
    BY <2>1, <2>2, <2>3
<1>4. QED
  BY <1>2, <1>3 DEF PausesFollow

\* A request that only loads, or that removes the job of what it will delete.
LEMMA PausesBegun ==
  ASSUME SchedulerTypeOK, PausesFollow, UNCHANGED <<monitor, lostCommits>>,
         NEW q \in Admin, NEW m \in Monitor, request[q].at = "idle",
         NEW r, r.at # "written", request' = [request EXCEPT ![q] = r],
         UNCHANGED job \/ job' = [job EXCEPT ![m] = "none"]
  PROVE  PausesFollow'
<1>1. \A p \in Admin : request'[p] = IF p = q THEN r ELSE request[p]
  BY DEF SchedulerTypeOK
<1>2. \A k \in Monitor : InHand(k) => InHand(k)'
  BY <1>1 DEF InHand
<1>3. \A k \in Monitor : job[k] = "none" => job'[k] = "none"
  BY DEF SchedulerTypeOK
<1>4. QED
  BY <1>1, <1>2, <1>3 DEF PausesFollow

\* The scheduler makes no jobs of its own.
LEMMA PausesRun ==
  ASSUME SchedulerTypeOK, PausesFollow, NEW m \in Monitor,
         Elapse(m) \/ StartRun(m) \/ SkipRun(m) \/ EndRun(m)
  PROVE  PausesFollow'
<1>1. \A k \in Monitor : job[k] = "none" => job'[k] = "none"
  BY DEF Elapse, StartRun, SkipRun, EndRun, SchedulerTypeOK
<1>2. UNCHANGED <<monitor, request, lostCommits>>
  BY DEF Elapse, StartRun, SkipRun, EndRun
<1>3. QED
  BY <1>1, <1>2 DEF PausesFollow, InHand

LEMMA PausesRestart ==
  ASSUME SchedulerTypeOK, Restart
  PROVE  PausesFollow'
<1>1. \A q \in Admin : request'[q].at = "idle"
  BY DEF Restart, Idle
<1>2. \A m \in Monitor : monitor'[m] = "paused" => job'[m] = "none"
  BY DEF Restart, Rebuilt
<1>3. QED
  BY <1>1, <1>2 DEF PausesFollow

LEMMA PausesNext == SchedulerTypeOK /\ PausesFollow /\ [Next]_vars => PausesFollow'
<1> SUFFICES ASSUME SchedulerTypeOK, PausesFollow, [Next]_vars PROVE PausesFollow'
  OBVIOUS
<1>1. ASSUME NEW q \in Admin, NEW s \in {"active", "paused"}, CreateMonitor(q, s)
      PROVE  PausesFollow'
  <2>1. PICK m \in Monitor :
          /\ job' = Synced(m, s)
          /\ request' = [request EXCEPT ![q] = [at |-> "written", op |-> "create", mon |-> m,
                                                was |-> "absent", new |-> s]]
    BY <1>1 DEF CreateMonitor
  <2> DEFINE r == [at |-> "written", op |-> "create", mon |-> m, was |-> "absent", new |-> s]
  <2>2. /\ LockFree /\ monitor' = monitor /\ lostCommits' = lostCommits
        /\ request[q].at = "idle" \/ request[q].at = "loaded"
    BY <1>1 DEF CreateMonitor
  <2>3. r.at = "written" /\ r.mon = m /\ r.new = s /\ request' = [request EXCEPT ![q] = r]
    BY <2>1
  <2> HIDE DEF r
  <2>4. QED
    BY <2>1, <2>2, <2>3, PausesTold
<1>2. ASSUME NEW q \in Admin, WriteMonitor(q)
      PROVE  PausesFollow'
  <2>1. /\ request[q].mon \in Monitor /\ request[q] \in RequestRow
        /\ request \in [Admin -> RequestRow]
    BY <1>2 DEF WriteMonitor, SchedulerTypeOK
  <2>2. PICK m \in Monitor : m = request[q].mon
    BY <2>1
  <2>3. PICK status : status = Patched(request[q].op, request[q].was, monitor[m])
    OBVIOUS
  <2>4. PICK r : r = [request[q] EXCEPT !.at = "written", !.new = status]
    OBVIOUS
  <2>5. /\ LockFree /\ monitor' = monitor /\ lostCommits' = lostCommits
        /\ request[q].at = "idle" \/ request[q].at = "loaded"
    BY <1>2 DEF WriteMonitor
  <2>6. job' = Synced(m, status)
    BY <1>2, <2>2, <2>3 DEF WriteMonitor
  <2>7. request' = [request EXCEPT ![q] = r]
    BY <1>2, <2>1, <2>2, <2>3, <2>4 DEF WriteMonitor
  <2>8. r.at = "written" /\ r.mon = m /\ r.new = status
    BY <2>1, <2>2, <2>4 DEF RequestRow
  <2>9. QED
    BY <2>5, <2>6, <2>7, <2>8, PausesTold
<1>3. ASSUME NEW q \in Admin, NEW op \in AdminOps \cap LoadingOps, NEW m \in Monitor,
             LoadMonitor(q, op, m)
      PROVE  PausesFollow'
  BY <1>3, PausesBegun DEF LoadMonitor
<1>4. ASSUME NEW q \in Admin, NEW m \in Monitor, UnscheduleMonitor(q, m)
      PROVE  PausesFollow'
  BY <1>4, PausesBegun DEF UnscheduleMonitor
<1>5. ASSUME NEW q \in Admin, FailToWrite(q) \/ DeleteMonitor(q) \/ Commit(q)
      PROVE  PausesFollow'
  BY <1>5, PausesEnded DEF FailToWrite, DeleteMonitor, Commit
<1>6. ASSUME NEW q \in Admin, LoseCommit(q)
      PROVE  PausesFollow'
  <2>1. lostCommits' # 0
    BY <1>6 DEF LoseCommit, SchedulerTypeOK
  <2>2. QED
    BY <2>1 DEF PausesFollow
<1>7. CASE UNCHANGED vars
  BY <1>7 DEF vars, PausesFollow, InHand
<1>8. CASE Next
  BY <1>1, <1>2, <1>3, <1>4, <1>5, <1>6, <1>8, PausesRun, PausesRestart DEF Next, Request, Serve
<1>9. QED
  BY <1>7, <1>8

\* No paused monitor has a job while every commit succeeds, for any number of
\* overlapping requests and any number of restarts.
THEOREM PausedMonitorsHaveNoJob == Spec => []PausedHasNoJob
<1>1. PausesFollow => PausedHasNoJob
  BY DEF PausesFollow, PausedHasNoJob
<1>2. QED
  BY <1>1, PausesInit, PausesNext, SchedulerTypeCorrect, PTL DEF Spec
=============================================================================
