-------------------------- MODULE SessionResources ---------------------------
(***************************************************************************)
(* What threads wait for, with PostgreSQL: a connection of the pool, a     *)
(* permit of the semaphore that limits checks, the locks of rows, and the  *)
(* lock of the request counters.  A burst of checks and requests meets one *)
(* monitor; each runs once.                                                *)
(*                                                                         *)
(* A session sees what is committed (READ COMMITTED) and keeps the rows it *)
(* wrote until it ends.  Only what decides on locks is kept of the rows:   *)
(* whether the monitor is active, its status and link, and its incidents.  *)
(***************************************************************************)
EXTENDS Integers, Sequences, FiniteSets

CONSTANTS
  Session,    \* threads: of requests and of the scheduler
  Operations, \* what they are about, as functions from Session
  PoolSize,   \* connections of the pool, its overflow included
  Limit       \* MAX_CONCURRENT_CHECKS

\* check the monitor; resolve its first incident, pause or delete it; read the
\* summary; count a simulated request
Operation == {"check", "resolve", "pause", "delete", "summary", "simulate"}

ASSUME ResourceBounds ==
  /\ IsFiniteSet(Session)
  /\ Operations \subseteq [Session -> Operation]
  /\ PoolSize \in Nat \ {0} /\ Limit \in Nat \ {0}

VARIABLES
  operation,   \* what each thread is about
  monitor,     \* "active", "paused" or "gone"
  state,       \* its row of monitor_states: status and open_incident_id
  incidents,   \* their statuses
  free,        \* connections in the pool
  permits,     \* of every semaphore that was ever made
  current,     \* _check_semaphore, 0 for None
  announced,   \* _check_semaphore_limit is set
  counters,    \* _request_count, _success_count and _failure_count
  thread       \* what each session is doing

vars == <<operation, monitor, state, incidents, free, permits, current, announced, counters, thread>>
tables == <<operation, monitor, state, incidents, counters>>
semaphore == <<permits, current, announced>>

Idle == [at |-> "idle", semaphore |-> 0, todo |-> <<>>, held |-> {},
         prior |-> "up", ok |-> TRUE, read |-> [total |-> 0, ok |-> 0, failed |-> 0]]
Checks(s) == operation[s] = "check"
Resolves(s) == operation[s] = "resolve"
Deletes(s) == operation[s] = "delete"
Summarises(s) == operation[s] = "summary"
Simulates(s) == operation[s] = "simulate"

Ended(s) == thread[s].at \in {"done", "failed"}
Active(s) == thread[s].at # "idle" /\ ~Ended(s)
Connected(s) == Active(s) /\ ~Simulates(s)

-----------------------------------------------------------------------------
(* Row locks: incidents are known by their number, the two other rows by these. *)
MonitorRow == -1
StateRow == 0

\* A foreign key to the monitor shares it with updates of other columns, but not
\* with its deletion; all other locks are exclusive.
Share(s, row) == row = MonitorRow /\ Checks(s)
Clash(s, t, row) == ~(Share(s, row) /\ ~Deletes(t)) /\ ~(Share(t, row) /\ ~Deletes(s))

Holders(s, row) == {t \in Session \ {s} : row \in thread[t].held /\ Clash(s, t, row)}
Locking(s) == thread[s].at = "locking"
WaitsFor(s, t) == Locking(s) /\ t \in Holders(s, Head(thread[s].todo))

\* Sessions that wait for each other.
Deadlocked(s) ==
  \E S \in SUBSET {t \in Session : Locking(t)} :
    /\ s \in S
    /\ \A t \in S : (\E u \in S : WaitsFor(t, u)) /\ (\E u \in S : WaitsFor(u, t))

-----------------------------------------------------------------------------
(* What a session decides *)

NewStatus(c) ==
  LET seen == IF thread[c].ok THEN "up" ELSE "down" IN
  IF seen = thread[c].prior THEN state.status ELSE seen

Opens(c) == thread[c].prior # "down" /\ NewStatus(c) = "down" /\ state.link = 0
Closes(c) == thread[c].prior = "down" /\ NewStatus(c) = "up" /\ state.link # 0
Continues(c) == thread[c].prior = "down" /\ NewStatus(c) = "down" /\ state.link # 0

\* (faulty) Every failed check links the monitor anew.
Relinked(c) == IF NewStatus(c) = "down" THEN Len(incidents) + 1
               ELSE IF Closes(c) THEN 0 ELSE state.link
NewLink(c) == IF Opens(c) THEN Len(incidents) + 1
              ELSE IF Closes(c) THEN 0 ELSE state.link

\* (faulty) The link is left to the next recovery.
StillLinked == state
\* A resolution drops the link to its incident.
Unlinked == IF state.link = 1 THEN [state EXCEPT !.link = 0] ELSE state

\* A paused monitor is not checked, only its state row synchronised.
Syncing(s) == Checks(s) /\ thread[s].semaphore = 0 /\ thread[s].todo = <<StateRow>>

\* A recovery updates the linked incident, and so does a check of an outage that
\* goes on, if what it has to tell is not what the timeline says already.
Touched(c) ==
  LET open == state.link # 0 /\ incidents[state.link] = "open" IN
  CASE open /\ Closes(c) -> {<<state.link>>}
    [] open /\ Continues(c) -> {<<state.link>>, <<>>}
    [] OTHER -> {<<>>}

\* What is left to lock when a session begins to write ...
FirstRows(s) ==
  CASE Resolves(s) -> IF incidents[1] = "resolved" THEN <<>> ELSE <<1>>
    [] Deletes(s) -> <<StateRow, MonitorRow>>
    [] OTHER -> <<MonitorRow, StateRow>>

\* ... and what may be left when it has got the first of that: a resolution goes on
\* to the state that links its incident, and a deletion unsets the monitor of all
\* its incidents.
MoreRows(s) ==
  LET row == Head(thread[s].todo) IN
  CASE Checks(s) /\ row = StateRow /\ ~Syncing(s) -> Touched(s)
    [] Resolves(s) /\ row = 1 ->
         {IF monitor # "gone" /\ state.link = 1 THEN <<StateRow>> ELSE <<>>}
    [] Deletes(s) /\ row = MonitorRow -> {[i \in 1 .. Len(incidents) |-> i]}
    [] OTHER -> {Tail(thread[s].todo)}

Writing(s, rows) == IF rows = <<>> THEN "recorded" ELSE "locking"

-----------------------------------------------------------------------------
(* The burst begins in a state that single sessions can leave behind.        *)

Init ==
  /\ operation \in Operations
  /\ monitor = "active"
  /\ \E linked \in BOOLEAN, status \in {"up", "down"} :
       /\ state = [status |-> status, link |-> IF linked THEN 1 ELSE 0]
       /\ incidents = <<IF linked THEN "open" ELSE "resolved">>
  /\ free = PoolSize
  /\ \/ permits = <<>> /\ current = 0 /\ announced = FALSE
     \/ permits = <<Limit>> /\ current = 1 /\ announced = TRUE
  /\ counters = [total |-> 400, ok |-> 399, failed |-> 1]
  /\ thread = [s \in Session |-> Idle]

\* The first query of a session takes a connection.
Connect(s) ==
  /\ thread[s].at = "idle" /\ free > 0 /\ ~Simulates(s)
  /\ free' = free - 1
  /\ LET rows == IF Checks(s) THEN <<StateRow>> ELSE FirstRows(s) IN
     thread' = [thread EXCEPT ![s] =
       CASE Summarises(s) -> [Idle EXCEPT !.at = "summarising"]
         [] monitor = "gone" /\ ~Resolves(s) /\ ~Summarises(s) -> [Idle EXCEPT !.at = "recorded"]
         [] Checks(s) /\ monitor = "active" -> [Idle EXCEPT !.at = "looking"]
         [] OTHER -> [Idle EXCEPT !.at = Writing(s, rows), !.todo = rows]]
  /\ UNCHANGED <<tables, semaphore>>

\* It waits for one only so long.
Refuse(s) ==
  /\ thread[s].at = "idle" /\ free = 0 /\ ~Simulates(s)
  /\ thread' = [thread EXCEPT ![s].at = "failed"]
  /\ UNCHANGED <<tables, free, semaphore>>

\* (faulty) Every check makes a semaphore.
AlwaysMissing == TRUE
Missing == current = 0 \/ ~announced

\* _get_check_semaphore: look, make one, announce its limit, and fetch it.
Look(c) ==
  /\ thread[c].at = "looking"
  /\ thread' = [thread EXCEPT ![c].at = IF Missing THEN "making" ELSE "fetching"]
  /\ UNCHANGED <<tables, free, semaphore>>

MakeSemaphore(c) ==
  /\ thread[c].at = "making"
  /\ permits' = Append(permits, Limit) /\ current' = Len(permits')
  /\ thread' = [thread EXCEPT ![c].at = "announcing"]
  /\ UNCHANGED <<tables, free, announced>>

AnnounceLimit(c) ==
  /\ thread[c].at = "announcing"
  /\ announced' = TRUE
  /\ thread' = [thread EXCEPT ![c].at = "fetching"]
  /\ UNCHANGED <<tables, free, permits, current>>

FetchSemaphore(c) ==
  /\ thread[c].at = "fetching"
  /\ thread' = [thread EXCEPT ![c].at = "queued", ![c].semaphore = current]
  /\ UNCHANGED <<tables, free, semaphore>>

\* with semaphore: it waits, with its connection in hand, for a permit.
Acquire(c) ==
  /\ thread[c].at = "queued" /\ permits[thread[c].semaphore] > 0
  /\ permits' = [permits EXCEPT ![thread[c].semaphore] = @ - 1]
  /\ thread' = [thread EXCEPT ![c].at = "probing"]
  /\ UNCHANGED <<tables, free, current, announced>>

\* The probe has its outcome, and the state row is loaded.
FinishProbe(c, ok) ==
  /\ thread[c].at = "probing" /\ monitor # "gone"
  /\ thread' = [thread EXCEPT ![c].at = "locking", ![c].ok = ok, ![c].prior = state.status,
                              ![c].todo = FirstRows(c)]
  /\ UNCHANGED <<tables, free, semaphore>>

\* The row it writes next is free, and still there.
LockRow(s) ==
  /\ Locking(s)
  /\ LET row == Head(thread[s].todo) IN
     /\ Holders(s, row) = {}
     /\ row \in {MonitorRow, StateRow} => monitor # "gone"
     /\ \E more \in MoreRows(s) :
          thread' = [thread EXCEPT ![s].at = Writing(s, more), ![s].todo = more,
                                   ![s].held = @ \cup {row}]
  /\ UNCHANGED <<tables, free, semaphore>>

-----------------------------------------------------------------------------
(* The request counters *)

HoldsCounters(s) == thread[s].at \in {"counting", "classing", "reading", "totalled"}

\* (faulty) The counters are not locked.
NoCounterLock == TRUE
\* with self._lock
CounterLockFree == \A t \in Session : ~HoldsCounters(t)

\* POST /simulate/request: record_request counts the request ...
BeginCounting(s) ==
  /\ thread[s].at = "idle" /\ Simulates(s) /\ CounterLockFree
  /\ thread' = [thread EXCEPT ![s].at = "counting"]
  /\ UNCHANGED <<tables, free, semaphore>>

CountRequest(s) ==
  /\ thread[s].at = "counting"
  /\ counters' = [counters EXCEPT !.total = @ + 1]
  /\ thread' = [thread EXCEPT ![s].at = "classing"]
  /\ UNCHANGED <<operation, monitor, state, incidents, free, semaphore>>

\* ... and its outcome.
CountOutcome(s, ok) ==
  /\ thread[s].at = "classing"
  /\ counters' = IF ok THEN [counters EXCEPT !.ok = @ + 1] ELSE [counters EXCEPT !.failed = @ + 1]
  /\ thread' = [thread EXCEPT ![s].at = "summarising"]
  /\ UNCHANGED <<operation, monitor, state, incidents, free, semaphore>>

\* summary, for this answer and for GET /summary, /slo and /metrics.
BeginSummary(s) ==
  /\ thread[s].at = "summarising" /\ CounterLockFree
  /\ thread' = [thread EXCEPT ![s].at = "reading"]
  /\ UNCHANGED <<tables, free, semaphore>>

ReadTotal(s) ==
  /\ thread[s].at = "reading"
  /\ thread' = [thread EXCEPT ![s].at = "totalled", ![s].read.total = counters.total]
  /\ UNCHANGED <<tables, free, semaphore>>

ReadOutcomes(s) ==
  /\ thread[s].at = "totalled"
  /\ thread' = [thread EXCEPT ![s].at = "recorded", ![s].read.ok = counters.ok,
                              ![s].read.failed = counters.failed]
  /\ UNCHANGED <<tables, free, semaphore>>

Tally(s) ==
  \/ BeginCounting(s) \/ CountRequest(s) \/ (\E ok \in BOOLEAN : CountOutcome(s, ok))
  \/ BeginSummary(s) \/ ReadTotal(s) \/ ReadOutcomes(s)

-----------------------------------------------------------------------------
(* The end of a session *)

HasPermit(s) ==
  /\ Checks(s) /\ thread[s].semaphore # 0
  /\ thread[s].at \in {"probing", "locking", "recorded"}

\* (faulty) An exception leaves without a release.
PermitLost(s, how) ==
  IF HasPermit(s) /\ how = "left" THEN [permits EXCEPT ![thread[s].semaphore] = @ + 1]
                                  ELSE permits
\* with semaphore: whether it is left or an exception is raised.
PermitBack(s, how) ==
  IF HasPermit(s) THEN [permits EXCEPT ![thread[s].semaphore] = @ + 1] ELSE permits

\* (faulty) The session of a failed request is not closed.
FreeUnclosed(s, how) == IF how = "failed" \/ Simulates(s) THEN free ELSE free + 1
\* finally: session.close()
FreeAfter(s, how) == IF Simulates(s) THEN free ELSE free + 1

ReleasePermit(c) ==
  /\ thread[c].at = "recorded" /\ HasPermit(c)
  /\ permits' = PermitBack(c, "left")
  /\ thread' = [thread EXCEPT ![c].semaphore = 0]
  /\ UNCHANGED <<tables, free, current, announced>>

End(s, how) ==
  /\ free' = FreeAfter(s, how)
  /\ thread' = [thread EXCEPT ![s] = [Idle EXCEPT !.at = how, !.read = thread[s].read]]

CommitCheck(c) ==
  /\ state' = [status |-> NewStatus(c), link |-> NewLink(c)]
  /\ incidents' = IF Opens(c) THEN Append(incidents, "open")
                  ELSE IF Closes(c) THEN [incidents EXCEPT ![state.link] = "resolved"]
                  ELSE incidents
  /\ UNCHANGED <<operation, monitor, counters>>

\* A check of a paused monitor and a pause leave its status paused.
CommitPause ==
  /\ monitor' = "paused" /\ state' = [state EXCEPT !.status = "paused"]
  /\ UNCHANGED <<operation, incidents, counters>>

CommitResolution ==
  /\ incidents' = [incidents EXCEPT ![1] = "resolved"]
  /\ state' = Unlinked
  /\ UNCHANGED <<operation, monitor, counters>>

CommitDeletion == monitor' = "gone" /\ UNCHANGED <<operation, state, incidents, counters>>

Commit(s) ==
  /\ thread[s].at = "recorded" /\ ~HasPermit(s)
  /\ \/ thread[s].held = {} /\ UNCHANGED tables
     \/ MonitorRow \in thread[s].held /\ Checks(s) /\ CommitCheck(s)
     \/ thread[s].held # {} /\ Resolves(s) /\ CommitResolution
     \/ thread[s].held # {} /\ Deletes(s) /\ CommitDeletion
     \/ MonitorRow \in thread[s].held /\ operation[s] = "pause" /\ CommitPause
     \/ thread[s].held = {StateRow} /\ Checks(s) /\ CommitPause
  /\ End(s, "done")
  /\ UNCHANGED semaphore

\* An exception at any moment, of a query or of the network; counting raises none.
Fail(s) ==
  /\ Active(s) /\ ~HoldsCounters(s)
  /\ permits' = PermitBack(s, "raised") /\ End(s, "failed")
  /\ UNCHANGED <<tables, current, announced>>

\* A row it wants is gone: StaleDataError, or a foreign key that points nowhere.
Vanished(s) ==
  /\ monitor = "gone"
  /\ \/ thread[s].at = "probing"
     \/ Locking(s) /\ Head(thread[s].todo) \in {MonitorRow, StateRow}
  /\ Fail(s)

\* PostgreSQL ends one of the sessions that wait for each other.
DetectDeadlock(s) == Locking(s) /\ Deadlocked(s) /\ Fail(s)

-----------------------------------------------------------------------------
Proceed(s) ==
  \/ Connect(s) \/ Look(s) \/ MakeSemaphore(s) \/ AnnounceLimit(s) \/ FetchSemaphore(s)
  \/ Acquire(s) \/ (\E ok \in BOOLEAN : FinishProbe(s, ok))
  \/ LockRow(s) \/ Tally(s) \/ ReleasePermit(s) \/ Commit(s) \/ Vanished(s) \/ DetectDeadlock(s)

Next == \E s \in Session : Proceed(s) \/ Refuse(s) \/ Fail(s)

\* Some thread that can go on does: as each runs once, that is all that is needed.
\* That the pool gives up on a waiting session, or a query fails, is not counted on.
Fairness == WF_vars(\E s \in Session : Proceed(s))
Spec == Init /\ [][Next]_vars /\ Fairness

-----------------------------------------------------------------------------
(* Properties *)

\* Rows, threads and what they hold have their types, and locks that clash are
\* not held together.
ResourcesTypeOK ==
  /\ monitor \in {"active", "paused", "gone"}
  /\ state.status \in {"up", "down", "paused"} /\ state.link \in 0 .. Len(incidents)
  /\ \A i \in DOMAIN incidents : incidents[i] \in {"open", "resolved"}
  /\ current \in 0 .. Len(permits) /\ announced \in BOOLEAN
  /\ \A s \in Session :
       /\ thread[s].held \subseteq {MonitorRow, StateRow} \cup DOMAIN incidents
       /\ Locking(s) => thread[s].todo # <<>>
       /\ \A t \in Session \ {s} :
            \A row \in thread[s].held \cap thread[t].held : ~Clash(s, t, row)

\* However sessions end, no permit and no connection is lost or given back twice.
SlotsConserved ==
  /\ \A k \in DOMAIN permits :
       permits[k] + Cardinality({c \in Session : HasPermit(c) /\ thread[c].semaphore = k}) = Limit
  /\ free + Cardinality({s \in Session : Connected(s)}) = PoolSize

\* First checks that overlap may probe under semaphores of their own, beyond the
\* limit; once its limit is announced and they have passed, one is used for good.
Settled == announced /\ \A c \in Session : thread[c].at \notin {"making", "announcing"}
SemaphoreSettles == [][Settled => Settled' /\ current' = current]_vars

\* Row locks are enough for the link of the monitor to be to an open incident,
\* though resolution and recovery take them in opposite orders.
LinkedIsOpen == monitor # "gone" /\ state.link # 0 => incidents[state.link] = "open"

\* What is told of the counters adds up, though they are counted one by one.
CountersAddUp ==
  \A s \in Session : thread[s].at = "done" =>
    thread[s].read.total = thread[s].read.ok + thread[s].read.failed

\* Every session gets its turn and ends, and none has to be refused a connection
\* for that: holding a connection while it waits for a permit, and a permit while
\* it waits for rows, blocks nobody for ever.
BurstEnds == <>(\A s \in Session : Ended(s))
=============================================================================
