----------------------- MODULE SessionResourcesProofs -------------------------
(***************************************************************************)
(* For any number of threads, a pool of any size and any limit of checks:  *)
(* rows, permits, connections and counters stay as SessionResources says.  *)
(***************************************************************************)
EXTENDS SessionResources, FiniteSetTheorems, TLAPS

-----------------------------------------------------------------------------
(* Types *)

Status == {"up", "down", "paused"}
Count == [total : Int, ok : Int, failed : Int]
At == {"idle", "looking", "making", "announcing", "fetching", "queued", "probing", "locking",
       "counting", "classing", "summarising", "reading", "totalled", "recorded", "done", "failed"}
Thread == [at : At, semaphore : Int, todo : Seq(Int), held : SUBSET Int,
           prior : Status, ok : BOOLEAN, read : Count]

\* The moments of a check only, of the counters only, and of a session that has
\* nothing to write.
ProbeStages == {"looking", "making", "announcing", "fetching", "queued", "probing"}
CountStages == {"counting", "classing"}
ReadStages == {"summarising", "reading", "totalled"}

Fit(s, row) ==
  /\ row \in Thread
  /\ row.at \in ProbeStages => Checks(s)
  /\ row.at \in CountStages => Simulates(s)
  /\ row.at \in ReadStages => Simulates(s) \/ Summarises(s)
  /\ row.at = "locking" => row.todo # <<>> /\ ~Simulates(s) /\ ~Summarises(s)
ThreadsFit ==
  /\ DOMAIN thread = Session /\ thread = [s \in Session |-> thread[s]]
  /\ \A s \in Session : Fit(s, thread[s])
TablesFit ==
  /\ operation \in [Session -> Operation]
  /\ monitor \in {"active", "paused", "gone"}
  /\ state \in [status : Status, link : Int]
  /\ incidents \in Seq({"open", "resolved"})
  /\ counters \in Count
SlotsFit ==
  /\ free \in Int /\ permits \in Seq(Int)
  /\ current \in Int /\ announced \in BOOLEAN
TypesFit == ThreadsFit /\ TablesFit /\ SlotsFit

LEMMA InitTypes == Init => TypesFit
<1> SUFFICES ASSUME Init PROVE TypesFit
  OBVIOUS
<1>1. Idle \in Thread /\ Idle.at = "idle"
  BY DEF Idle, Thread, At, Status, Count
<1>2. ThreadsFit
  BY <1>1 DEF Init, ThreadsFit, Fit, ProbeStages, CountStages, ReadStages
<1>3. TablesFit
  <2>1. operation \in [Session -> Operation]
    BY ResourceBounds DEF Init
  <2>2. counters \in Count
    BY DEF Init, Count
  <2>3. state \in [status : Status, link : Int] /\ incidents \in Seq({"open", "resolved"})
    BY DEF Init, Status
  <2> QED BY <2>1, <2>2, <2>3 DEF Init, TablesFit
<1>4. SlotsFit
  <2>1. Limit \in Int /\ PoolSize \in Int
    BY ResourceBounds
  <2>2. <<>> \in Seq(Int) /\ <<Limit>> \in Seq(Int)
    BY <2>1
  <2>3. permits \in Seq(Int)
    BY <2>2 DEF Init
  <2>4. current \in Int
    BY DEF Init
  <2>5. announced \in BOOLEAN
    BY DEF Init
  <2> QED BY <2>1, <2>3, <2>4, <2>5 DEF Init, SlotsFit
<1> QED BY <1>2, <1>3, <1>4 DEF TypesFit

\* What a session locks next.
LEMMA RowsToLock ==
  ASSUME TypesFit, NEW s \in Session
  PROVE  /\ FirstRows(s) \in Seq(Int)
         /\ Locking(s) => Head(thread[s].todo) \in Int /\ MoreRows(s) \subseteq Seq(Int)
<1>1. FirstRows(s) \in Seq(Int)
  BY DEF FirstRows, StateRow, MonitorRow
<1>2. ASSUME Locking(s) PROVE Head(thread[s].todo) \in Int /\ MoreRows(s) \subseteq Seq(Int)
  <2> DEFINE todo == thread[s].todo
  <2>1. todo \in Seq(Int) /\ todo # <<>>
    BY <1>2 DEF TypesFit, ThreadsFit, Fit, Thread, Locking
  <2>2. Head(todo) \in Int /\ Tail(todo) \in Seq(Int)
    BY <2>1
  <2>3. state.link \in Int
    BY DEF TypesFit, TablesFit
  <2>4. [i \in 1 .. Len(incidents) |-> i] \in Seq(Int)
    <3>1. Len(incidents) \in Nat
      BY DEF TypesFit, TablesFit
    <3> QED BY <3>1
  <2>5. <<state.link>> \in Seq(Int) /\ <<StateRow>> \in Seq(Int) /\ <<>> \in Seq(Int)
    BY <2>3 DEF StateRow
  <2>6. Touched(s) \subseteq Seq(Int)
    BY <2>5 DEF Touched
  <2> HIDE DEF todo
  <2> QED BY <2>2, <2>4, <2>5, <2>6 DEF MoreRows, todo
<1> QED BY <1>1, <1>2

\* A step is of one thread.
OfOne(s) ==
  /\ thread' = [thread EXCEPT ![s] = thread'[s]]
  /\ Fit(s, thread'[s])

LEMMA Moved ==
  ASSUME TypesFit, NEW s \in Session, NEW row, Fit(s, row), thread' = [thread EXCEPT ![s] = row]
  PROVE  OfOne(s)
BY DEF OfOne, TypesFit, ThreadsFit

\* A session after its first query.
Begun(s, rows) ==
  CASE Summarises(s) -> [Idle EXCEPT !.at = "summarising"]
    [] monitor = "gone" /\ ~Resolves(s) /\ ~Summarises(s) -> [Idle EXCEPT !.at = "recorded"]
    [] Checks(s) /\ monitor = "active" -> [Idle EXCEPT !.at = "looking"]
    [] OTHER -> [Idle EXCEPT !.at = Writing(s, rows), !.todo = rows]

LEMMA BegunFit ==
  ASSUME NEW s \in Session, NEW rows \in Seq(Int), ~Simulates(s)
  PROVE  Fit(s, Begun(s, rows))
<1> USE DEF Fit, ProbeStages, CountStages, ReadStages
<1>1. Idle \in Thread
  BY DEF Idle, Thread, At, Status, Count
<1>2. CASE Summarises(s)
  BY <1>1, <1>2 DEF Thread, At, Idle, Begun
<1>3. CASE ~Summarises(s) /\ monitor = "gone" /\ ~Resolves(s)
  BY <1>1, <1>3 DEF Thread, At, Idle, Begun
<1>4. CASE ~Summarises(s) /\ ~(monitor = "gone" /\ ~Resolves(s))
  <2>1. CASE Checks(s) /\ monitor = "active"
    BY <1>1, <1>4, <2>1 DEF Thread, At, Idle, Begun
  <2>2. CASE ~(Checks(s) /\ monitor = "active")
    BY <1>1, <1>4, <2>2 DEF Thread, At, Idle, Begun, Writing
  <2> QED BY <2>1, <2>2
<1> QED BY <1>2, <1>3, <1>4

LEMMA OneThread ==
  ASSUME TypesFit, NEW s \in Session, Proceed(s) \/ Refuse(s) \/ Fail(s)
  PROVE  OfOne(s)
<1> DEFINE was == thread[s]
<1>0. Fit(s, was) /\ was \in Thread
  BY DEF TypesFit, ThreadsFit, Fit
<1> USE DEF ProbeStages, CountStages, ReadStages
<1>1. CASE Connect(s)
  <2>1. FirstRows(s) \in Seq(Int) /\ <<StateRow>> \in Seq(Int)
    BY RowsToLock DEF StateRow
  <2>2. PICK rows \in Seq(Int) : thread' = [thread EXCEPT ![s] = Begun(s, rows)]
    BY <1>1, <2>1 DEF Connect, Begun
  <2>3. ~Simulates(s)
    BY <1>1 DEF Connect
  <2> QED BY <2>2, <2>3, BegunFit, Moved
<1>2. CASE Refuse(s)
  <2>1. Fit(s, [was EXCEPT !.at = "failed"])
    BY <1>0 DEF Fit, Thread, At
  <2> QED BY <1>2, <2>1, Moved DEF Refuse
<1>3. CASE Look(s) \/ MakeSemaphore(s) \/ AnnounceLimit(s)
  <2>1. \A at \in ProbeStages : was.at \in ProbeStages => Fit(s, [was EXCEPT !.at = at])
    BY <1>0 DEF Fit, Thread, At
  <2> QED BY <1>3, <2>1, Moved DEF Look, MakeSemaphore, AnnounceLimit
<1>4. CASE FetchSemaphore(s)
  <2>1. Fit(s, [was EXCEPT !.at = "queued", !.semaphore = current])
    BY <1>0, <1>4 DEF Fit, Thread, At, TypesFit, SlotsFit, FetchSemaphore
  <2> QED BY <1>4, <2>1, Moved DEF FetchSemaphore
<1>5. CASE Acquire(s)
  <2>1. Fit(s, [was EXCEPT !.at = "probing"])
    BY <1>0, <1>5 DEF Fit, Thread, At, Acquire
  <2> QED BY <1>5, <2>1, Moved DEF Acquire
<1>6. ASSUME NEW ok \in BOOLEAN, FinishProbe(s, ok)
      PROVE  OfOne(s)
  <2>1. Checks(s)
    BY <1>0, <1>6 DEF Fit, FinishProbe
  <2>2. FirstRows(s) \in Seq(Int) /\ FirstRows(s) # <<>>
    BY <2>1, RowsToLock DEF FirstRows, Checks, Resolves, Deletes
  <2>3. Fit(s, [was EXCEPT !.at = "locking", !.ok = ok, !.prior = state.status,
                           !.todo = FirstRows(s)])
    BY <1>0, <2>1, <2>2
    DEF Fit, Thread, At, TypesFit, TablesFit, Checks, Simulates, Summarises
  <2> QED BY <1>6, <2>3, Moved DEF FinishProbe
<1>7. CASE LockRow(s)
  <2> DEFINE row == Head(thread[s].todo)
  <2>0. PICK more \in MoreRows(s) :
          thread' = [thread EXCEPT ![s].at = Writing(s, more), ![s].todo = more,
                                   ![s].held = @ \cup {row}]
    BY <1>7 DEF LockRow
  <2>1. row \in Int /\ more \in Seq(Int) /\ was.at = "locking"
    BY <1>7, RowsToLock DEF LockRow, Locking
  <2>2. thread' = [thread EXCEPT ![s].at = Writing(s, more), ![s].todo = more,
                                 ![s].held = @ \cup {row}]
    BY <2>0
  <2> HIDE DEF row
  <2>3. Fit(s, [was EXCEPT !.at = Writing(s, more), !.todo = more, !.held = @ \cup {row}])
    BY <1>0, <2>1 DEF Fit, Thread, At, Writing
  <2> QED BY <2>2, <2>3, Moved
<1>8. CASE Tally(s)
  <2>1. CASE BeginCounting(s)
    <3>1. Fit(s, [was EXCEPT !.at = "counting"])
      BY <1>0, <2>1 DEF Fit, Thread, At, BeginCounting
    <3> QED BY <2>1, <3>1, Moved DEF BeginCounting
  <2>2. CASE CountRequest(s)
    <3>1. Fit(s, [was EXCEPT !.at = "classing"])
      BY <1>0, <2>2 DEF Fit, Thread, At, CountRequest
    <3> QED BY <2>2, <3>1, Moved DEF CountRequest
  <2>3. CASE \E ok \in BOOLEAN : CountOutcome(s, ok)
    <3>1. Fit(s, [was EXCEPT !.at = "summarising"])
      BY <1>0, <2>3 DEF Fit, Thread, At, CountOutcome
    <3> QED BY <2>3, <3>1, Moved DEF CountOutcome
  <2>4. CASE BeginSummary(s)
    <3>1. Fit(s, [was EXCEPT !.at = "reading"])
      BY <1>0, <2>4 DEF Fit, Thread, At, BeginSummary
    <3> QED BY <2>4, <3>1, Moved DEF BeginSummary
  <2>5. CASE ReadTotal(s)
    <3>1. Fit(s, [was EXCEPT !.at = "totalled", !.read.total = counters.total])
      BY <1>0, <2>5 DEF Fit, Thread, At, Count, ReadTotal, TypesFit, TablesFit
    <3> QED BY <2>5, <3>1, Moved DEF ReadTotal
  <2>6. CASE ReadOutcomes(s)
    <3>1. Fit(s, [was EXCEPT !.at = "recorded", !.read.ok = counters.ok,
                             !.read.failed = counters.failed])
      BY <1>0, <2>6 DEF Fit, Thread, At, Count, ReadOutcomes, TypesFit, TablesFit
    <3> QED BY <2>6, <3>1, Moved DEF ReadOutcomes
  <2> QED BY <1>8, <2>1, <2>2, <2>3, <2>4, <2>5, <2>6 DEF Tally
<1>9. CASE ReleasePermit(s)
  <2>1. Fit(s, [was EXCEPT !.semaphore = 0])
    BY <1>0, <1>9 DEF Fit, Thread, At, ReleasePermit
  <2> QED BY <1>9, <2>1, Moved DEF ReleasePermit
<1>10. ASSUME NEW how \in {"done", "failed"}, End(s, how)
       PROVE  OfOne(s)
  <2>1. Idle \in Thread /\ was.read \in Count /\ how \in At
    BY <1>0, <1>10 DEF Idle, Thread, At, Status, Count
  <2>2. [Idle EXCEPT !.at = how, !.read = was.read] \in Thread
    BY <2>1 DEF Thread
  <2>3. [Idle EXCEPT !.at = how, !.read = was.read].at = how
    BY DEF Idle
  <2>4. Fit(s, [Idle EXCEPT !.at = how, !.read = was.read])
    BY <1>10, <2>2, <2>3 DEF Fit
  <2> QED BY <1>10, <2>4, Moved DEF End
<1>11. CASE Commit(s) \/ Vanished(s) \/ DetectDeadlock(s) \/ Fail(s)
  BY <1>10, <1>11 DEF Commit, Vanished, DetectDeadlock, Fail
<1> QED
  BY <1>1, <1>2, <1>3, <1>4, <1>5, <1>6, <1>7, <1>8, <1>9, <1>11 DEF Proceed

\* A session that locks a row goes on locking, or has recorded all.
LEMMA RowLocked ==
  ASSUME TypesFit, NEW s \in Session, LockRow(s)
  PROVE  /\ thread[s].at = "locking" /\ thread'[s].at \in {"recorded", "locking"}
         /\ thread'[s].semaphore = thread[s].semaphore /\ thread'[s].read = thread[s].read
         /\ free' = free /\ UNCHANGED tables /\ UNCHANGED semaphore
<1>1. thread[s] \in Thread /\ s \in DOMAIN thread
  BY DEF TypesFit, ThreadsFit, Fit
<1>2. PICK more \in MoreRows(s) :
        thread' = [thread EXCEPT ![s].at = Writing(s, more), ![s].todo = more,
                                 ![s].held = @ \cup {Head(thread[s].todo)}]
  BY DEF LockRow
<1>3. /\ thread'[s].at = Writing(s, more) /\ thread'[s].semaphore = thread[s].semaphore
      /\ thread'[s].read = thread[s].read
  BY <1>1, <1>2 DEF Thread
<1>4. thread[s].at = "locking" /\ UNCHANGED <<tables, free, semaphore>>
  BY DEF LockRow, Locking
<1> QED BY <1>3, <1>4 DEF Writing

\* The tables change when a session commits, or counts a request.
LEMMA TablesOfCommit ==
  ASSUME NEW s \in Session, Commit(s)
  PROVE  UNCHANGED tables \/ CommitCheck(s) \/ CommitResolution \/ CommitDeletion \/ CommitPause
BY DEF Commit

\* Steps that neither commit nor count leave the tables alone.
LEMMA TablesKept ==
  ASSUME NEW s \in Session, Proceed(s) \/ Refuse(s) \/ Fail(s)
  PROVE  UNCHANGED tables \/ Commit(s) \/ CountRequest(s) \/ \E ok \in BOOLEAN : CountOutcome(s, ok)
BY DEF Proceed, Tally, Fail, Connect, Refuse, Look, MakeSemaphore, AnnounceLimit, FetchSemaphore,
       Acquire, FinishProbe, LockRow, BeginCounting, BeginSummary, ReadTotal, ReadOutcomes,
       ReleasePermit, Vanished, DetectDeadlock

LEMMA ElementChanged ==
  ASSUME NEW S, NEW q \in Seq(S), NEW k, NEW x, k \in DOMAIN q => x \in S
  PROVE  /\ [q EXCEPT ![k] = x] \in Seq(S)
         /\ Len([q EXCEPT ![k] = x]) = Len(q)
         /\ k \in DOMAIN q => [q EXCEPT ![k] = x][k] = x
         /\ \A i \in DOMAIN q : i # k => [q EXCEPT ![k] = x][i] = q[i]
<1> DEFINE r == [q EXCEPT ![k] = x]
<1>1. PICK n \in Nat : q \in [1 .. n -> S]
  OBVIOUS
<1>2. r \in [1 .. n -> S]
  BY <1>1
<1>3. Len(q) = n /\ Len(r) = n /\ r \in Seq(S)
  BY <1>1, <1>2
<1> QED BY <1>1, <1>3

LEMMA TablesNext ==
  ASSUME TypesFit, NEW s \in Session, Proceed(s) \/ Refuse(s) \/ Fail(s)
  PROVE  operation' = operation /\ TablesFit'
<1> USE DEF TypesFit, TablesFit
<1>1. CASE UNCHANGED tables
  BY <1>1 DEF tables
<1>2. CASE CountRequest(s)
  BY <1>2 DEF CountRequest, Count
<1>3. CASE \E ok \in BOOLEAN : CountOutcome(s, ok)
  BY <1>3 DEF CountOutcome, Count
<1>4. CASE CommitCheck(s)
  <2>1. NewStatus(s) \in Status
    BY DEF NewStatus, Status
  <2>2. NewLink(s) \in Int
    BY DEF NewLink
  <2>3. incidents' \in Seq({"open", "resolved"})
    BY <1>4, ElementChanged DEF CommitCheck
  <2> QED BY <1>4, <2>1, <2>2, <2>3 DEF CommitCheck
<1>5. CASE CommitResolution
  BY <1>5, ElementChanged DEF CommitResolution, Unlinked
<1>6. CASE CommitDeletion
  BY <1>6 DEF CommitDeletion
<1>7. CASE CommitPause
  BY <1>7 DEF CommitPause, Status
<1> HIDE DEF TypesFit, TablesFit
<1>8. CASE Commit(s)
  BY <1>1, <1>4, <1>5, <1>6, <1>7, <1>8, TablesOfCommit
<1> QED BY <1>1, <1>2, <1>3, <1>8, TablesKept

LEMMA SlotsNext ==
  ASSUME TypesFit, NEW s \in Session, Proceed(s) \/ Refuse(s) \/ Fail(s)
  PROVE  SlotsFit'
<1> DEFINE k == thread[s].semaphore
<1>0. free \in Int /\ permits \in Seq(Int) /\ current \in Int /\ announced \in BOOLEAN /\ Limit \in Int
  BY ResourceBounds DEF TypesFit, SlotsFit
<1>1. Append(permits, Limit) \in Seq(Int) /\ Len(permits) \in Nat
  BY <1>0
<1>2. [permits EXCEPT ![k] = @ - 1] \in Seq(Int) /\ [permits EXCEPT ![k] = @ + 1] \in Seq(Int)
  <2>1. \A x \in {permits[k] - 1, permits[k] + 1} : k \in DOMAIN permits => x \in Int
    BY <1>0
  <2>2. \A x \in {permits[k] - 1, permits[k] + 1} : [permits EXCEPT ![k] = x] \in Seq(Int)
    BY <1>0, <2>1, ElementChanged
  <2> QED BY <2>2
<1>3. \A how : PermitBack(s, how) \in Seq(Int)
  BY <1>0, <1>2 DEF PermitBack
<1>4. \A how : FreeAfter(s, how) \in Int
  BY <1>0 DEF FreeAfter
<1> HIDE DEF k
<1>5. CASE Connect(s)
  BY <1>0, <1>5 DEF Connect, semaphore, SlotsFit
<1>6. CASE Refuse(s) \/ Look(s) \/ FetchSemaphore(s) \/ LockRow(s) \/ Tally(s)
  BY <1>0, <1>6 DEF Refuse, Look, FetchSemaphore, LockRow, Tally, BeginCounting, CountRequest,
     CountOutcome, BeginSummary, ReadTotal, ReadOutcomes, semaphore, SlotsFit
<1>7. CASE MakeSemaphore(s)
  <2>1. permits' \in Seq(Int) /\ current' = Len(permits') /\ free' = free /\ announced' = announced
    BY <1>1, <1>7 DEF MakeSemaphore
  <2> QED BY <1>0, <2>1 DEF SlotsFit
<1>8. CASE AnnounceLimit(s)
  BY <1>0, <1>8 DEF AnnounceLimit, SlotsFit
<1>9. CASE Acquire(s)
  BY <1>0, <1>2, <1>9 DEF Acquire, SlotsFit, k
<1>10. CASE \E ok \in BOOLEAN : FinishProbe(s, ok)
  BY <1>0, <1>10 DEF FinishProbe, semaphore, SlotsFit
<1>11. CASE ReleasePermit(s)
  BY <1>0, <1>3, <1>11 DEF ReleasePermit, SlotsFit
<1>12. CASE Commit(s)
  BY <1>0, <1>4, <1>12 DEF Commit, End, semaphore, SlotsFit
<1>13. CASE Vanished(s) \/ DetectDeadlock(s) \/ Fail(s)
  BY <1>0, <1>3, <1>4, <1>13 DEF Vanished, DetectDeadlock, Fail, End, SlotsFit
<1> QED
  BY <1>5, <1>6, <1>7, <1>8, <1>9, <1>10, <1>11, <1>12, <1>13 DEF Proceed

LEMMA TypesNext ==
  ASSUME TypesFit, NEW s \in Session, Proceed(s) \/ Refuse(s) \/ Fail(s)
  PROVE  TypesFit'
<1>1. OfOne(s) /\ operation' = operation /\ TablesFit' /\ SlotsFit'
  BY OneThread, TablesNext, SlotsNext
<1>2. ThreadsFit'
  BY <1>1 DEF TypesFit, ThreadsFit, OfOne, Fit, Checks, Simulates, Summarises
<1> QED BY <1>1, <1>2 DEF TypesFit

-----------------------------------------------------------------------------
(* The inductive invariant *)

Rows == {MonitorRow, StateRow} \cup DOMAIN incidents

\* What sessions hold and wait for are rows, and clashing locks exclude each other.
LocksFit ==
  /\ \A s \in Session : /\ thread[s].held \subseteq Rows
                        /\ \A i \in DOMAIN thread[s].todo : thread[s].todo[i] \in Rows
  /\ \A s \in Session : \A t \in Session \ {s} :
       \A row \in thread[s].held \cap thread[t].held : ~Clash(s, t, row)

\* The link is to an open incident, even when the monitor is gone.
LinkFits ==
  /\ Len(incidents) >= 1 /\ state.link \in 0 .. Len(incidents)
  /\ state.link # 0 => incidents[state.link] = "open"

\* A limit is announced, and a semaphore fetched, once there is a semaphore.
SemaphoresFit ==
  /\ current \in 0 .. Len(permits) /\ (announced => current # 0)
  /\ \A s \in Session :
       /\ thread[s].at \in {"announcing", "fetching"} => current # 0
       /\ thread[s].semaphore \in 0 .. Len(permits)
       /\ thread[s].at = "queued" => thread[s].semaphore # 0

\* Between the two counts of a request the total is one ahead, and who is between
\* them, or between two readings, is alone at the counters.
Ahead == \E s \in Session : thread[s].at = "classing"
AddsUp(read) == read.total = read.ok + read.failed
CountersFit ==
  /\ \A s, t \in Session : HoldsCounters(s) /\ HoldsCounters(t) => s = t
  /\ IF Ahead THEN counters.total = counters.ok + counters.failed + 1 ELSE AddsUp(counters)
  /\ \A s \in Session : IF thread[s].at = "totalled" THEN thread[s].read.total = counters.total
                        ELSE AddsUp(thread[s].read)

ResourcesInv ==
  TypesFit /\ LocksFit /\ LinkFits /\ SemaphoresFit /\ SlotsConserved /\ CountersFit

-----------------------------------------------------------------------------
(* Links *)

LEMMA LinkOfCheck ==
  ASSUME TypesFit, LinkFits, NEW s \in Session, CommitCheck(s)
  PROVE  LinkFits' /\ Rows \subseteq Rows'
<1>1. /\ incidents \in Seq({"open", "resolved"}) /\ Len(incidents) \in Nat
      /\ DOMAIN incidents = 1 .. Len(incidents)
  BY DEF TypesFit, TablesFit
<1>2. state' = [status |-> NewStatus(s), link |-> NewLink(s)]
  BY DEF CommitCheck
<1>3. CASE Opens(s)
  <2>1. incidents' = Append(incidents, "open")
    BY <1>3 DEF CommitCheck
  <2>2. /\ Len(incidents') = Len(incidents) + 1 /\ incidents'[Len(incidents) + 1] = "open"
        /\ DOMAIN incidents' = 1 .. Len(incidents) + 1
    BY <1>1, <2>1
  <2>3. state'.link = Len(incidents) + 1
    BY <1>2, <1>3 DEF NewLink
  <2> QED BY <1>1, <2>2, <2>3 DEF LinkFits, Rows
<1>4. CASE ~Opens(s) /\ Closes(s)
  <2>1. incidents' = [incidents EXCEPT ![state.link] = "resolved"]
    BY <1>4 DEF CommitCheck
  <2>2. Len(incidents') = Len(incidents) /\ DOMAIN incidents' = DOMAIN incidents
    BY <1>1, <2>1, ElementChanged
  <2>3. state'.link = 0
    BY <1>2, <1>4 DEF NewLink
  <2> QED BY <1>1, <2>2, <2>3 DEF LinkFits, Rows
<1>5. CASE ~Opens(s) /\ ~Closes(s)
  BY <1>2, <1>5 DEF CommitCheck, NewLink, LinkFits, Rows
<1> QED BY <1>3, <1>4, <1>5

LEMMA LinkOfResolution ==
  ASSUME TypesFit, LinkFits, CommitResolution
  PROVE  LinkFits' /\ Rows \subseteq Rows'
<1>1. /\ incidents \in Seq({"open", "resolved"}) /\ Len(incidents) \in Nat
      /\ DOMAIN incidents = 1 .. Len(incidents)
  BY DEF TypesFit, TablesFit
<1>2. incidents' = [incidents EXCEPT ![1] = "resolved"]
  BY DEF CommitResolution
<1>3. /\ Len(incidents') = Len(incidents) /\ DOMAIN incidents' = DOMAIN incidents
      /\ \A i \in DOMAIN incidents : i # 1 => incidents'[i] = incidents[i]
  BY <1>1, <1>2, ElementChanged
<1>4. state'.link = IF state.link = 1 THEN 0 ELSE state.link
  BY DEF CommitResolution, Unlinked, TypesFit, TablesFit
<1> QED BY <1>1, <1>3, <1>4 DEF LinkFits, Rows

LEMMA LinkNext ==
  ASSUME TypesFit, LinkFits, NEW s \in Session, Proceed(s) \/ Refuse(s) \/ Fail(s)
  PROVE  LinkFits' /\ Rows \subseteq Rows'
<1>1. CASE UNCHANGED tables \/ CommitDeletion
           \/ CountRequest(s) \/ \E ok \in BOOLEAN : CountOutcome(s, ok)
  BY <1>1 DEF tables, CommitDeletion, CountRequest, CountOutcome, LinkFits, Rows
<1>2. CASE CommitPause
  BY <1>2 DEF CommitPause, LinkFits, Rows, TypesFit, TablesFit
<1> QED
  BY <1>1, <1>2, TablesKept, TablesOfCommit, LinkOfCheck, LinkOfResolution

-----------------------------------------------------------------------------
(* Locks *)

\* All that a session is to lock are rows.
OnlyRows(q) == \A i \in DOMAIN q : q[i] \in Rows

LEMMA MoreAreRows ==
  ASSUME TypesFit, LinkFits, LocksFit, NEW s \in Session
  PROVE  /\ OnlyRows(FirstRows(s)) /\ OnlyRows(<<StateRow>>)
         /\ Locking(s) => Head(thread[s].todo) \in Rows /\ \A more \in MoreRows(s) : OnlyRows(more)
<1>1. /\ Len(incidents) \in Nat /\ Len(incidents) >= 1 /\ DOMAIN incidents = 1 .. Len(incidents)
      /\ 1 \in Rows /\ StateRow \in Rows /\ MonitorRow \in Rows
  BY DEF TypesFit, TablesFit, LinkFits, Rows
<1>2. /\ OnlyRows(<<>>) /\ OnlyRows(<<1>>) /\ OnlyRows(<<StateRow>>)
      /\ OnlyRows(<<StateRow, MonitorRow>>) /\ OnlyRows(<<MonitorRow, StateRow>>)
  BY <1>1 DEF OnlyRows
<1>3. OnlyRows(FirstRows(s))
  BY <1>2 DEF FirstRows
<1>4. ASSUME Locking(s) PROVE Head(thread[s].todo) \in Rows /\ \A more \in MoreRows(s) : OnlyRows(more)
  <2> DEFINE todo == thread[s].todo
  <2>1. todo \in Seq(Int) /\ todo # <<>> /\ OnlyRows(todo)
    BY <1>4 DEF TypesFit, ThreadsFit, Fit, Thread, Locking, LocksFit, OnlyRows
  <2>2. Head(todo) \in Rows
    <3>1. 1 \in DOMAIN todo /\ Head(todo) = todo[1]
      BY <2>1
    <3> QED BY <2>1, <3>1 DEF OnlyRows
  <2>3. OnlyRows(Tail(todo))
    <3>1. \A i \in DOMAIN Tail(todo) : i + 1 \in DOMAIN todo /\ Tail(todo)[i] = todo[i + 1]
      BY <2>1
    <3> QED BY <2>1, <3>1 DEF OnlyRows
  <2>4. \A more \in Touched(s) : OnlyRows(more)
    <3>1. state.link # 0 => OnlyRows(<<state.link>>)
      BY <1>1 DEF LinkFits, OnlyRows, Rows
    <3>2. CASE state.link = 0
      <4>1. Touched(s) = {<<>>}
        BY <3>2 DEF Touched
      <4> QED BY <1>2, <4>1
    <3>3. CASE state.link # 0
      <4>1. Touched(s) \subseteq {<<state.link>>, <<>>}
        BY DEF Touched
      <4> QED BY <1>2, <3>1, <3>3, <4>1
    <3> QED BY <3>2, <3>3
  <2>5. OnlyRows([i \in 1 .. Len(incidents) |-> i])
    BY <1>1 DEF OnlyRows, Rows
  <2> HIDE DEF todo
  <2>6. \A more \in MoreRows(s) : OnlyRows(more)
    BY <1>2, <2>3, <2>4, <2>5 DEF MoreRows, todo
  <2> QED BY <2>2, <2>6 DEF todo
<1> QED BY <1>2, <1>3, <1>4

LEMMA BegunLocks ==
  ASSUME NEW s \in Session, NEW rows, OnlyRows(rows)
  PROVE  Begun(s, rows).held = {} /\ OnlyRows(Begun(s, rows).todo)
<1>1. /\ Idle.held = {} /\ Idle.todo = <<>> /\ OnlyRows(<<>>)
      /\ DOMAIN Idle = {"at", "semaphore", "todo", "held", "prior", "ok", "read"}
  BY DEF Idle, OnlyRows
<1>2. CASE Summarises(s)
  BY <1>1, <1>2 DEF Begun
<1>3. CASE ~Summarises(s) /\ monitor = "gone" /\ ~Resolves(s)
  BY <1>1, <1>3 DEF Begun
<1>4. CASE ~Summarises(s) /\ ~(monitor = "gone" /\ ~Resolves(s))
  <2>1. CASE Checks(s) /\ monitor = "active"
    BY <1>1, <1>4, <2>1 DEF Begun
  <2>2. CASE ~(Checks(s) /\ monitor = "active")
    BY <1>1, <1>4, <2>2 DEF Begun
  <2> QED BY <2>1, <2>2
<1> QED BY <1>2, <1>3, <1>4

\* Only LockRow takes a lock.
NothingLocked(s) == thread'[s].held \subseteq thread[s].held /\ OnlyRows(thread'[s].todo)

LEMMA LocksOfStep ==
  ASSUME TypesFit, LinkFits, LocksFit, NEW s \in Session, Proceed(s) \/ Refuse(s) \/ Fail(s)
  PROVE  LockRow(s) \/ NothingLocked(s)
<1>1. thread[s] \in Thread /\ s \in DOMAIN thread /\ OnlyRows(thread[s].todo)
  BY DEF TypesFit, ThreadsFit, Fit, LocksFit, OnlyRows
<1>2. CASE Connect(s)
  <2>1. PICK rows : OnlyRows(rows) /\ thread' = [thread EXCEPT ![s] = Begun(s, rows)]
    BY <1>2, MoreAreRows DEF Connect, Begun
  <2>2. thread'[s] = Begun(s, rows)
    BY <1>1, <2>1
  <2> QED BY <2>1, <2>2, BegunLocks DEF NothingLocked
<1>3. CASE /\ thread'[s].held = thread[s].held /\ thread'[s].todo = thread[s].todo
  BY <1>1, <1>3 DEF NothingLocked
<1>4. CASE Refuse(s) \/ Look(s) \/ MakeSemaphore(s) \/ AnnounceLimit(s) \/ FetchSemaphore(s)
           \/ Acquire(s) \/ Tally(s) \/ ReleasePermit(s)
  <2>1. thread'[s].held = thread[s].held /\ thread'[s].todo = thread[s].todo
    BY <1>1, <1>4 DEF Refuse, Look, MakeSemaphore, AnnounceLimit, FetchSemaphore, Acquire, Tally,
       BeginCounting, CountRequest, CountOutcome, BeginSummary, ReadTotal, ReadOutcomes,
       ReleasePermit, Thread
  <2> QED BY <1>3, <2>1
<1>5. CASE \E ok \in BOOLEAN : FinishProbe(s, ok)
  <2>1. thread'[s].held = thread[s].held /\ thread'[s].todo = FirstRows(s)
    BY <1>1, <1>5 DEF FinishProbe, Thread
  <2> QED BY <2>1, MoreAreRows DEF NothingLocked
<1>6. CASE \E how : End(s, how)
  <2>1. thread'[s].held = {} /\ thread'[s].todo = <<>>
    BY <1>1, <1>6 DEF End, Idle
  <2> QED BY <2>1 DEF NothingLocked, OnlyRows
<1>7. CASE Commit(s) \/ Vanished(s) \/ DetectDeadlock(s) \/ Fail(s)
  BY <1>6, <1>7 DEF Commit, Vanished, DetectDeadlock, Fail
<1> QED BY <1>2, <1>4, <1>5, <1>7 DEF Proceed

LEMMA LocksNext ==
  ASSUME TypesFit, LinkFits, LocksFit, NEW s \in Session, Proceed(s) \/ Refuse(s) \/ Fail(s)
  PROVE  LocksFit'
<1>1. /\ thread[s] \in Thread /\ s \in DOMAIN thread /\ OnlyRows(thread[s].todo)
      /\ operation' = operation /\ Rows \subseteq Rows'
      /\ \A t \in Session \ {s} : thread'[t] = thread[t]
  BY TablesNext, LinkNext, OneThread
  DEF OfOne, TypesFit, ThreadsFit, Fit, LocksFit, OnlyRows
<1>2. \A t, u \in Session : \A row : Clash(t, u, row)' <=> Clash(t, u, row)
  BY <1>1 DEF Clash, Share, Checks, Deletes
<1>3. \A t, u \in Session : \A row : Clash(t, u, row) <=> Clash(u, t, row)
  BY DEF Clash
<1>4. CASE NothingLocked(s)
  <2>1. \A t \in Session : thread'[t].held \subseteq thread[t].held
    BY <1>1, <1>4 DEF NothingLocked
  <2>2. \A t \in Session : /\ thread'[t].held \subseteq Rows
                           /\ \A i \in DOMAIN thread'[t].todo : thread'[t].todo[i] \in Rows
    BY <1>1, <1>4, <2>1 DEF LocksFit, NothingLocked, OnlyRows
  <2> QED BY <1>1, <1>2, <2>1, <2>2 DEF LocksFit
<1>5. CASE LockRow(s)
  <2> DEFINE row == Head(thread[s].todo)
  <2>0. PICK more \in MoreRows(s) :
          thread' = [thread EXCEPT ![s].at = Writing(s, more), ![s].todo = more,
                                   ![s].held = @ \cup {row}]
    BY <1>5 DEF LockRow
  <2>1. /\ thread'[s].held = thread[s].held \cup {row} /\ thread'[s].todo = more
        /\ Holders(s, row) = {} /\ Locking(s)
    BY <1>1, <1>5, <2>0 DEF LockRow, Thread
  <2> HIDE DEF row
  <2>2. row \in Rows /\ OnlyRows(more)
    BY <2>1, MoreAreRows DEF row
  <2>3. \A t \in Session : /\ thread'[t].held \subseteq Rows
                           /\ \A i \in DOMAIN thread'[t].todo : thread'[t].todo[i] \in Rows
    BY <1>1, <2>1, <2>2 DEF LocksFit, OnlyRows
  <2>4. \A t \in Session \ {s} : row \in thread[t].held => ~Clash(s, t, row)
    BY <2>1 DEF Holders
  <2>5. ASSUME NEW t \in Session, NEW u \in Session \ {t},
               NEW r \in thread'[t].held \cap thread'[u].held
        PROVE  ~Clash(t, u, r)
    <3>1. CASE t # s /\ u # s
      BY <1>1, <3>1, <2>5 DEF LocksFit
    <3>2. CASE t = s
      BY <1>1, <3>2, <2>1, <2>4, <2>5 DEF LocksFit
    <3>3. CASE u = s
      BY <1>1, <1>3, <3>3, <2>1, <2>4, <2>5 DEF LocksFit
    <3> QED BY <3>1, <3>2, <3>3
  <2> QED BY <1>1, <1>2, <2>3, <2>5 DEF LocksFit
<1> QED BY <1>4, <1>5, LocksOfStep

-----------------------------------------------------------------------------
(* Counters *)

LEMMA BegunElsewhere ==
  ASSUME NEW s \in Session, NEW rows
  PROVE  /\ Begun(s, rows).at \in {"summarising", "recorded", "looking", "locking"}
         /\ AddsUp(Begun(s, rows).read) /\ Begun(s, rows).semaphore = 0
<1>1. /\ AddsUp(Idle.read) /\ Idle.semaphore = 0
      /\ DOMAIN Idle = {"at", "semaphore", "todo", "held", "prior", "ok", "read"}
  BY DEF Idle, AddsUp
<1>2. CASE Summarises(s)
  BY <1>1, <1>2 DEF Begun
<1>3. CASE ~Summarises(s) /\ monitor = "gone" /\ ~Resolves(s)
  BY <1>1, <1>3 DEF Begun
<1>4. CASE ~Summarises(s) /\ ~(monitor = "gone" /\ ~Resolves(s))
  <2>1. CASE Checks(s) /\ monitor = "active"
    BY <1>1, <1>4, <2>1 DEF Begun
  <2>2. CASE ~(Checks(s) /\ monitor = "active")
    BY <1>1, <1>4, <2>2 DEF Begun, Writing
  <2> QED BY <2>1, <2>2
<1> QED BY <1>2, <1>3, <1>4

\* Other steps than those of the counters leave them alone.
Elsewhere(s) ==
  /\ counters' = counters
  /\ ~HoldsCounters(s) /\ thread'[s].at \notin {"counting", "classing", "reading", "totalled"}
  /\ AddsUp(thread[s].read) => AddsUp(thread'[s].read)

LEMMA CountersOfStep ==
  ASSUME TypesFit, NEW s \in Session, Proceed(s) \/ Refuse(s) \/ Fail(s)
  PROVE  Tally(s) \/ Elsewhere(s)
<1> USE DEF Elsewhere, HoldsCounters
<1>1. thread[s] \in Thread /\ s \in DOMAIN thread
  BY DEF TypesFit, ThreadsFit, Fit
<1>2. CASE Connect(s)
  <2>1. PICK rows : thread' = [thread EXCEPT ![s] = Begun(s, rows)]
    BY <1>2 DEF Connect, Begun
  <2>2. thread'[s] = Begun(s, rows)
    BY <1>1, <2>1
  <2>3. counters' = counters /\ thread[s].at = "idle"
    BY <1>2 DEF Connect, tables
  <2> QED BY <2>2, <2>3, BegunElsewhere
<1>3. CASE \/ Refuse(s) \/ Look(s) \/ MakeSemaphore(s) \/ AnnounceLimit(s) \/ FetchSemaphore(s)
           \/ Acquire(s) \/ ReleasePermit(s)
  <2>1. CASE Refuse(s) \/ Look(s)
    BY <1>1, <2>1 DEF Refuse, Look, Thread, tables
  <2>2. CASE MakeSemaphore(s) \/ AnnounceLimit(s)
    BY <1>1, <2>2 DEF MakeSemaphore, AnnounceLimit, Thread, tables
  <2>3. CASE FetchSemaphore(s) \/ Acquire(s)
    BY <1>1, <2>3 DEF FetchSemaphore, Acquire, Thread, tables
  <2>4. CASE ReleasePermit(s)
    BY <1>1, <2>4 DEF ReleasePermit, Thread, tables
  <2> QED BY <1>3, <2>1, <2>2, <2>3, <2>4
<1>8. CASE \E ok \in BOOLEAN : FinishProbe(s, ok)
  <2>1. /\ thread[s].at = "probing" /\ thread'[s].at = "locking"
        /\ thread'[s].read = thread[s].read /\ counters' = counters
    BY <1>1, <1>8 DEF FinishProbe, Thread, tables
  <2> QED BY <2>1
<1>4. CASE LockRow(s)
  <2>1. thread'[s].read = thread[s].read /\ thread'[s].at \in {"recorded", "locking"}
    BY <1>4, RowLocked
  <2> QED BY <1>4, <2>1, RowLocked DEF tables
<1>5. ASSUME NEW how \in {"done", "failed"}, End(s, how)
      PROVE  thread'[s].at = how /\ thread'[s].read = thread[s].read
  BY <1>1, <1>5 DEF End, Idle
<1>6. CASE Commit(s)
  <2>1. counters' = counters
    BY <1>6, TablesOfCommit
    DEF tables, CommitCheck, CommitResolution, CommitDeletion, CommitPause
  <2> QED BY <1>5, <1>6, <2>1 DEF Commit
<1>7. CASE Vanished(s) \/ DetectDeadlock(s) \/ Fail(s)
  BY <1>5, <1>7 DEF Vanished, DetectDeadlock, Fail, tables
<1> QED BY <1>2, <1>3, <1>4, <1>6, <1>7, <1>8 DEF Proceed

LEMMA CountersNext ==
  ASSUME TypesFit, CountersFit, NEW s \in Session, Proceed(s) \/ Refuse(s) \/ Fail(s)
  PROVE  CountersFit'
<1> USE DEF CountersFit, HoldsCounters, Ahead, AddsUp
<1>1. /\ thread[s] \in Thread /\ s \in DOMAIN thread
      /\ \A t \in Session \ {s} : thread'[t] = thread[t]
      /\ counters.total \in Int /\ counters.ok \in Int /\ counters.failed \in Int
  BY OneThread DEF OfOne, TypesFit, ThreadsFit, Fit, TablesFit, Count
<1>2. CASE Elsewhere(s)
  BY <1>1, <1>2 DEF Elsewhere
<1>3. CASE BeginCounting(s)
  <2>1. thread'[s].at = "counting" /\ thread'[s].read = thread[s].read /\ counters' = counters
    BY <1>1, <1>3 DEF BeginCounting, Thread, tables
  <2> QED BY <1>1, <1>3, <2>1 DEF BeginCounting, CounterLockFree
<1>4. CASE CountRequest(s)
  <2>1. /\ thread[s].at = "counting" /\ thread'[s].at = "classing"
        /\ thread'[s].read = thread[s].read
        /\ counters'.total = counters.total + 1 /\ counters'.ok = counters.ok
        /\ counters'.failed = counters.failed
    BY <1>1, <1>4 DEF CountRequest, Thread, TypesFit, TablesFit, Count
  <2> QED BY <1>1, <2>1
<1>5. CASE \E ok \in BOOLEAN : CountOutcome(s, ok)
  <2>1. /\ thread[s].at = "classing" /\ thread'[s].at = "summarising"
        /\ thread'[s].read = thread[s].read
        /\ counters'.total = counters.total
        /\ counters'.ok + counters'.failed = counters.ok + counters.failed + 1
    BY <1>1, <1>5 DEF CountOutcome, Thread, TypesFit, TablesFit, Count
  <2> QED BY <1>1, <2>1
<1>6. CASE BeginSummary(s)
  <2>1. /\ thread[s].at = "summarising" /\ thread'[s].at = "reading"
        /\ thread'[s].read = thread[s].read /\ counters' = counters
    BY <1>1, <1>6 DEF BeginSummary, Thread, tables
  <2> QED BY <1>1, <1>6, <2>1 DEF BeginSummary, CounterLockFree
<1>7. CASE ReadTotal(s)
  <2>1. /\ thread[s].at = "reading" /\ thread'[s].at = "totalled"
        /\ thread'[s].read.total = counters.total /\ counters' = counters
    BY <1>1, <1>7 DEF ReadTotal, Thread, Count, tables
  <2> QED BY <1>1, <2>1
<1>8. CASE ReadOutcomes(s)
  <2>1. /\ thread[s].at = "totalled" /\ thread'[s].at = "recorded"
        /\ thread'[s].read.total = thread[s].read.total /\ thread'[s].read.ok = counters.ok
        /\ thread'[s].read.failed = counters.failed /\ counters' = counters
    BY <1>1, <1>8 DEF ReadOutcomes, Thread, Count, tables
  <2> QED BY <1>1, <2>1
<1> QED BY <1>2, <1>3, <1>4, <1>5, <1>6, <1>7, <1>8, CountersOfStep DEF Tally

-----------------------------------------------------------------------------
(* Semaphores *)

\* What a session has of semaphores, at the moments that depend on them.
SemaphoreFit(s) ==
  /\ thread[s].at \in {"announcing", "fetching"} => current # 0
  /\ thread[s].semaphore \in 0 .. Len(permits)
  /\ thread[s].at = "queued" => thread[s].semaphore # 0

LEMMA SemaphoresNext ==
  ASSUME TypesFit, SemaphoresFit, NEW s \in Session, Proceed(s) \/ Refuse(s) \/ Fail(s)
  PROVE  SemaphoresFit'
<1>1. /\ thread[s] \in Thread /\ s \in DOMAIN thread
      /\ \A t \in Session \ {s} : thread'[t] = thread[t]
  BY OneThread DEF OfOne, TypesFit, ThreadsFit, Fit
<1>2. /\ permits \in Seq(Int) /\ Len(permits) \in Nat /\ Limit \in Int
      /\ current \in 0 .. Len(permits) /\ (announced => current # 0)
      /\ \A t \in Session : SemaphoreFit(t)
  BY ResourceBounds DEF TypesFit, SlotsFit, SemaphoresFit, SemaphoreFit
<1>3. ASSUME Len(permits') >= Len(permits), Len(permits') \in Nat,
             current' \in 0 .. Len(permits'), current # 0 => current' # 0,
             announced' => current' # 0, SemaphoreFit(s)'
      PROVE  SemaphoresFit'
  BY <1>1, <1>2, <1>3 DEF SemaphoresFit, SemaphoreFit
<1>4. \A how : Len(PermitBack(s, how)) = Len(permits)
  BY <1>2 DEF PermitBack
<1>5. CASE MakeSemaphore(s)
  <2>1. /\ permits' = Append(permits, Limit) /\ current' = Len(permits')
        /\ thread'[s].at = "announcing" /\ thread'[s].semaphore = thread[s].semaphore
    BY <1>1, <1>5 DEF MakeSemaphore, Thread
  <2>2. Len(permits') = Len(permits) + 1
    BY <1>2, <2>1
  <2> QED BY <1>2, <1>3, <2>1, <2>2 DEF SemaphoreFit
<1>6. CASE AnnounceLimit(s)
  <2>1. /\ thread[s].at = "announcing" /\ thread'[s].at = "fetching"
        /\ thread'[s].semaphore = thread[s].semaphore /\ permits' = permits /\ current' = current
    BY <1>1, <1>6 DEF AnnounceLimit, Thread
  <2> QED BY <1>2, <1>3, <2>1 DEF SemaphoreFit
<1>7. CASE FetchSemaphore(s)
  <2>1. /\ thread[s].at = "fetching" /\ thread'[s].at = "queued" /\ UNCHANGED semaphore
        /\ thread'[s].semaphore = current
    BY <1>1, <1>7 DEF FetchSemaphore, Thread
  <2> QED BY <1>2, <1>3, <2>1 DEF SemaphoreFit, semaphore
<1>8. CASE Look(s)
  <2>1. /\ thread'[s].at \in {"making", "fetching"} /\ UNCHANGED semaphore
        /\ thread'[s].at = "fetching" => current # 0
        /\ thread'[s].semaphore = thread[s].semaphore
    BY <1>1, <1>8 DEF Look, Missing, Thread
  <2> QED BY <1>2, <1>3, <2>1 DEF SemaphoreFit, semaphore
<1>9. ASSUME Len(permits') = Len(permits), current' = current, announced' = announced,
             thread'[s].at \notin {"announcing", "fetching", "queued"},
             thread'[s].semaphore \in {0, thread[s].semaphore}
      PROVE  SemaphoresFit'
  BY <1>2, <1>3, <1>9 DEF SemaphoreFit
<1>10. CASE Connect(s)
  <2>1. PICK rows : thread' = [thread EXCEPT ![s] = Begun(s, rows)]
    BY <1>10 DEF Connect, Begun
  <2>2. thread'[s] = Begun(s, rows)
    BY <1>1, <2>1
  <2> QED BY <1>9, <1>10, <2>2, BegunElsewhere DEF Connect, semaphore
<1>11. CASE Refuse(s)
  BY <1>1, <1>9, <1>11 DEF Refuse, semaphore, Thread
<1>12. CASE Acquire(s)
  <2>1. /\ permits' = [permits EXCEPT ![thread[s].semaphore] = @ - 1] /\ current' = current
        /\ announced' = announced /\ thread'[s].at = "probing"
        /\ thread'[s].semaphore = thread[s].semaphore
    BY <1>1, <1>12 DEF Acquire, Thread
  <2>2. Len(permits') = Len(permits)
    BY <1>2, <2>1
  <2> QED BY <1>9, <2>1, <2>2
<1>13. CASE \E ok \in BOOLEAN : FinishProbe(s, ok)
  BY <1>1, <1>9, <1>13 DEF FinishProbe, semaphore, Thread
<1>14. CASE LockRow(s)
  <2>1. /\ thread'[s].at \in {"recorded", "locking"} /\ UNCHANGED semaphore
        /\ thread'[s].semaphore = thread[s].semaphore
    BY <1>14, RowLocked
  <2> QED BY <1>9, <2>1 DEF semaphore
<1>15. CASE Tally(s)
  <2>1. /\ UNCHANGED semaphore /\ thread'[s].semaphore = thread[s].semaphore
        /\ thread'[s].at \in {"counting", "classing", "summarising", "reading", "totalled", "recorded"}
    BY <1>1, <1>15 DEF Tally, BeginCounting, CountRequest, CountOutcome, BeginSummary, ReadTotal,
       ReadOutcomes, Thread
  <2> QED BY <1>9, <2>1 DEF semaphore
<1>16. CASE ReleasePermit(s)
  <2>1. thread'[s].at = "recorded" /\ thread'[s].semaphore = 0
    BY <1>1, <1>16 DEF ReleasePermit, Thread
  <2> QED BY <1>4, <1>9, <1>16, <2>1 DEF ReleasePermit
<1>17. ASSUME NEW how \in {"done", "failed"}, End(s, how)
       PROVE  thread'[s].at = how /\ thread'[s].semaphore = 0
  BY <1>1, <1>17 DEF End, Idle
<1>18. CASE Commit(s)
  BY <1>9, <1>17, <1>18 DEF Commit, semaphore
<1>19. CASE Vanished(s) \/ DetectDeadlock(s) \/ Fail(s)
  <2>1. Fail(s)
    BY <1>19 DEF Vanished, DetectDeadlock
  <2> QED BY <1>4, <1>9, <1>17, <2>1 DEF Fail
<1> QED
  BY <1>5, <1>6, <1>7, <1>8, <1>10, <1>11, <1>12, <1>13, <1>14, <1>15, <1>16, <1>18, <1>19
  DEF Proceed

-----------------------------------------------------------------------------
(* Permits and connections *)

Holds(s, k) == HasPermit(s) /\ thread[s].semaphore = k
Holding(k) == {c \in Session : HasPermit(c) /\ thread[c].semaphore = k}
Connections == {c \in Session : Connected(c)}
One(b) == IF b THEN 1 ELSE 0

LEMMA OneMoreOrLess ==
  ASSUME NEW s \in Session, NEW A \in SUBSET Session, NEW B \in SUBSET Session,
         A \ {s} = B \ {s}
  PROVE  /\ Cardinality(A) \in Nat /\ Cardinality(B) \in Nat
         /\ Cardinality(B) + One(s \in A) = Cardinality(A) + One(s \in B)
<1>1. IsFiniteSet(A) /\ IsFiniteSet(B)
  BY ResourceBounds, FS_Subset
<1>2. Cardinality(A) \in Nat /\ Cardinality(B) \in Nat
  BY <1>1, FS_CardinalityType
<1>3. CASE s \in A /\ s \notin B
  <2>1. B = A \ {s}
    BY <1>3
  <2>2. Cardinality(B) = Cardinality(A) - 1
    BY <1>1, <1>3, <2>1, FS_RemoveElement
  <2> QED BY <1>2, <1>3, <2>2 DEF One
<1>4. CASE s \notin A /\ s \in B
  <2>1. A = B \ {s}
    BY <1>4
  <2>2. Cardinality(A) = Cardinality(B) - 1
    BY <1>1, <1>4, <2>1, FS_RemoveElement
  <2> QED BY <1>2, <1>4, <2>2 DEF One
<1>5. CASE s \in A <=> s \in B
  <2>1. A = B
    BY <1>5
  <2> QED BY <1>2, <2>1
<1> QED BY <1>2, <1>3, <1>4, <1>5

\* A permit is taken as it is got, and given back as it is let go.
Balanced(s) ==
  /\ DOMAIN permits' = DOMAIN permits
  /\ \A k \in DOMAIN permits :
       permits'[k] + One(Holds(s, k)') = permits[k] + One(Holds(s, k))

LEMMA PermitsOfStep ==
  ASSUME TypesFit, SemaphoresFit, NEW s \in Session, Proceed(s) \/ Refuse(s) \/ Fail(s)
  PROVE  MakeSemaphore(s) \/ Balanced(s)
<1>1. /\ thread[s] \in Thread /\ s \in DOMAIN thread /\ Fit(s, thread[s])
      /\ operation' = operation
  BY TablesNext DEF TypesFit, ThreadsFit, Fit
<1>2. /\ permits \in Seq(Int) /\ Len(permits) \in Nat /\ DOMAIN permits = 1 .. Len(permits)
      /\ \A k \in DOMAIN permits : permits[k] \in Int
      /\ thread[s].semaphore \in 0 .. Len(permits)
      /\ thread[s].at = "queued" => thread[s].semaphore # 0
  BY DEF TypesFit, SlotsFit, SemaphoresFit
<1>3. ASSUME permits' = permits, \A k : Holds(s, k)' = Holds(s, k)
      PROVE  Balanced(s)
  BY <1>3 DEF Balanced
<1>4. ASSUME permits' = permits, ~HasPermit(s), ~HasPermit(s)'
      PROVE  Balanced(s)
  BY <1>4 DEF Balanced, Holds
<1>5. ASSUME NEW how, permits' = PermitBack(s, how), ~HasPermit(s)'
      PROVE  Balanced(s)
  <2>1. CASE ~HasPermit(s)
    BY <1>4, <1>5, <2>1 DEF PermitBack
  <2>2. CASE HasPermit(s)
    <3> DEFINE k == thread[s].semaphore
    <3>1. k \in DOMAIN permits /\ permits' = [permits EXCEPT ![k] = @ + 1]
      BY <1>2, <1>5, <2>2 DEF PermitBack, HasPermit
    <3>2. DOMAIN permits' = DOMAIN permits
      BY <3>1
    <3>3. ASSUME NEW i \in DOMAIN permits
          PROVE  permits'[i] + One(Holds(s, i)') = permits[i] + One(Holds(s, i))
      <4>1. One(Holds(s, i)') = 0
        BY <1>5 DEF One, Holds
      <4>2. One(Holds(s, i)) = IF i = k THEN 1 ELSE 0
        BY <2>2 DEF One, Holds
      <4>3. permits'[i] = IF i = k THEN permits[i] + 1 ELSE permits[i]
        BY <3>1
      <4> QED BY <1>2, <4>1, <4>2, <4>3
    <3> QED BY <3>2, <3>3 DEF Balanced
  <2> QED BY <2>1, <2>2
<1>6. CASE Connect(s)
  <2>1. PICK rows : thread' = [thread EXCEPT ![s] = Begun(s, rows)]
    BY <1>6 DEF Connect, Begun
  <2>2. thread'[s] = Begun(s, rows)
    BY <1>1, <2>1
  <2> QED BY <1>4, <1>6, <2>2, BegunElsewhere DEF Connect, semaphore, HasPermit
<1>7. CASE Refuse(s) \/ Look(s)
  BY <1>1, <1>4, <1>7 DEF Refuse, Look, semaphore, HasPermit, Thread
<1>8. CASE AnnounceLimit(s) \/ FetchSemaphore(s)
  BY <1>1, <1>4, <1>8 DEF AnnounceLimit, FetchSemaphore, semaphore, HasPermit, Thread
<1>9. CASE Acquire(s)
  <2> DEFINE k == thread[s].semaphore
  <2>0. thread[s].at = "queued" /\ permits' = [permits EXCEPT ![k] = @ - 1]
    BY <1>9 DEF Acquire
  <2>1. /\ k \in DOMAIN permits /\ permits' = [permits EXCEPT ![k] = @ - 1]
        /\ thread[s].at = "queued" /\ thread'[s].at = "probing" /\ thread'[s].semaphore = k
    <3>1. k \in DOMAIN permits
      BY <1>2, <2>0
    <3>2. thread'[s].at = "probing" /\ thread'[s].semaphore = k
      BY <1>1, <1>9 DEF Acquire, Thread
    <3> QED BY <2>0, <3>1, <3>2
  <2>2. ~HasPermit(s) /\ HasPermit(s)'
    BY <1>1, <1>2, <2>1 DEF HasPermit, Fit, ProbeStages, Checks
  <2>3. ASSUME NEW i \in DOMAIN permits
        PROVE  permits'[i] + One(Holds(s, i)') = permits[i] + One(Holds(s, i))
    <3>1. One(Holds(s, i)) = 0
      BY <2>2 DEF One, Holds
    <3>2. One(Holds(s, i)') = IF i = k THEN 1 ELSE 0
      BY <2>1, <2>2 DEF One, Holds
    <3>3. permits'[i] = IF i = k THEN permits[i] - 1 ELSE permits[i]
      BY <2>1
    <3> QED BY <1>2, <3>1, <3>2, <3>3
  <2> QED BY <2>1, <2>3 DEF Balanced
<1>10. CASE \E ok \in BOOLEAN : FinishProbe(s, ok)
  <2>1. /\ thread[s].at = "probing" /\ thread'[s].at = "locking" /\ permits' = permits
        /\ thread'[s].semaphore = thread[s].semaphore
    BY <1>1, <1>10 DEF FinishProbe, semaphore, Thread
  <2> QED BY <1>1, <1>3, <2>1 DEF Holds, HasPermit, Checks
<1>11. CASE LockRow(s)
  <2>1. /\ thread[s].at = "locking" /\ thread'[s].at \in {"recorded", "locking"}
        /\ permits' = permits /\ thread'[s].semaphore = thread[s].semaphore
    BY <1>11, RowLocked DEF semaphore
  <2> QED BY <1>1, <1>3, <2>1 DEF Holds, HasPermit, Checks
<1>12. CASE Tally(s)
  <2>1. permits' = permits /\ (Simulates(s) \/ Summarises(s))
    BY <1>1, <1>12
    DEF Tally, BeginCounting, CountRequest, CountOutcome, BeginSummary, ReadTotal, ReadOutcomes,
        semaphore, Fit, CountStages, ReadStages
  <2>2. ~Checks(s) /\ ~Checks(s)'
    BY <1>1, <2>1 DEF Simulates, Summarises, Checks
  <2> QED BY <1>4, <2>1, <2>2 DEF HasPermit
<1>13. CASE ReleasePermit(s)
  <2>1. thread'[s].semaphore = 0
    BY <1>1, <1>13 DEF ReleasePermit, Thread
  <2> QED BY <1>5, <1>13, <2>1 DEF ReleasePermit, HasPermit
<1>14. ASSUME NEW how \in {"done", "failed"}, End(s, how)
       PROVE  ~HasPermit(s)'
  <2>1. thread'[s].semaphore = 0
    BY <1>1, <1>14 DEF End, Idle
  <2> QED BY <2>1 DEF HasPermit
<1>15. CASE Commit(s)
  BY <1>4, <1>14, <1>15 DEF Commit, semaphore
<1>16. CASE Vanished(s) \/ DetectDeadlock(s) \/ Fail(s)
  <2>1. Fail(s)
    BY <1>16 DEF Vanished, DetectDeadlock
  <2> QED BY <1>5, <1>14, <2>1 DEF Fail
<1> QED
  BY <1>6, <1>7, <1>8, <1>9, <1>10, <1>11, <1>12, <1>13, <1>15, <1>16 DEF Proceed

\* So is a connection.
ConnectionBalanced(s) == free' + One(Connected(s)') = free + One(Connected(s))

LEMMA ConnectionOfStep ==
  ASSUME TypesFit, NEW s \in Session, Proceed(s) \/ Refuse(s) \/ Fail(s)
  PROVE  ConnectionBalanced(s)
<1>1. /\ thread[s] \in Thread /\ s \in DOMAIN thread /\ operation' = operation /\ free \in Int
      /\ Simulates(s)' = Simulates(s)
  BY TablesNext DEF TypesFit, ThreadsFit, SlotsFit, Fit, Simulates
<1>2. ASSUME free' = free, Active(s)' = Active(s)
      PROVE  ConnectionBalanced(s)
  BY <1>1, <1>2 DEF ConnectionBalanced, Connected
<1>3. CASE Connect(s)
  <2>1. PICK rows : thread' = [thread EXCEPT ![s] = Begun(s, rows)]
    BY <1>3 DEF Connect, Begun
  <2>2. thread'[s] = Begun(s, rows)
    BY <1>1, <2>1
  <2>3. thread[s].at = "idle" /\ ~Simulates(s) /\ free' = free - 1
    BY <1>3 DEF Connect
  <2>4. Connected(s)' /\ ~Connected(s)
    BY <1>1, <2>2, <2>3, BegunElsewhere DEF Connected, Active, Ended
  <2> QED BY <1>1, <2>3, <2>4 DEF ConnectionBalanced, One
<1>4. CASE Refuse(s)
  BY <1>1, <1>2, <1>4 DEF Refuse, Active, Ended, Thread
<1>5. CASE Look(s) \/ MakeSemaphore(s) \/ AnnounceLimit(s) \/ FetchSemaphore(s) \/ Acquire(s)
           \/ ReleasePermit(s)
  <2>1. /\ free' = free /\ thread[s].at \notin {"idle", "done", "failed"}
        /\ thread'[s].at \notin {"idle", "done", "failed"}
    BY <1>1, <1>5 DEF Look, MakeSemaphore, AnnounceLimit, FetchSemaphore, Acquire, ReleasePermit, Thread
  <2> QED BY <1>2, <2>1 DEF Active, Ended
<1>6. CASE \E ok \in BOOLEAN : FinishProbe(s, ok)
  <2>1. free' = free /\ thread[s].at = "probing" /\ thread'[s].at = "locking"
    BY <1>1, <1>6 DEF FinishProbe, Thread
  <2> QED BY <1>2, <2>1 DEF Active, Ended
<1>7. CASE LockRow(s)
  <2>1. free' = free /\ thread[s].at = "locking" /\ thread'[s].at \in {"recorded", "locking"}
    BY <1>7, RowLocked
  <2> QED BY <1>2, <2>1 DEF Active, Ended
<1>8. CASE BeginCounting(s)
  <2>1. free' = free /\ Simulates(s)
    BY <1>8 DEF BeginCounting
  <2> QED BY <1>1, <2>1 DEF ConnectionBalanced, Connected
<1>9. CASE Tally(s) /\ ~BeginCounting(s)
  <2>1. /\ free' = free /\ thread[s].at \notin {"idle", "done", "failed"}
        /\ thread'[s].at \notin {"idle", "done", "failed"}
    BY <1>1, <1>9
    DEF Tally, CountRequest, CountOutcome, BeginSummary, ReadTotal, ReadOutcomes, Thread
  <2> QED BY <1>2, <2>1 DEF Active, Ended
<1>10. ASSUME NEW how \in {"done", "failed"}, End(s, how), Active(s)
       PROVE  ConnectionBalanced(s)
  <2>1. thread'[s].at = how /\ free' = FreeAfter(s, how)
    BY <1>1, <1>10 DEF End, Idle
  <2>2. ~Connected(s)' /\ (Connected(s) <=> ~Simulates(s))
    BY <1>10, <2>1 DEF Connected, Active, Ended
  <2> QED BY <1>1, <2>1, <2>2 DEF ConnectionBalanced, FreeAfter, One
<1>11. CASE Commit(s)
  BY <1>10, <1>11 DEF Commit, Active, Ended
<1>12. CASE Vanished(s) \/ DetectDeadlock(s) \/ Fail(s)
  BY <1>10, <1>12 DEF Vanished, DetectDeadlock, Fail
<1> QED BY <1>3, <1>4, <1>5, <1>6, <1>7, <1>8, <1>9, <1>11, <1>12 DEF Proceed

LEMMA SlotsStayConserved ==
  ASSUME TypesFit, SemaphoresFit, SlotsConserved, NEW s \in Session, Proceed(s) \/ Refuse(s) \/ Fail(s)
  PROVE  SlotsConserved'
<1>1. /\ operation' = operation /\ \A t \in Session \ {s} : thread'[t] = thread[t]
      /\ permits \in Seq(Int) /\ DOMAIN permits = 1 .. Len(permits) /\ Len(permits) \in Nat
      /\ \A k \in DOMAIN permits : permits[k] \in Int
      /\ free \in Int /\ PoolSize \in Int /\ Limit \in Int /\ SlotsFit'
      /\ \A k \in DOMAIN permits' : permits'[k] \in Int
  BY OneThread, TablesNext, SlotsNext, ResourceBounds
  DEF OfOne, TypesFit, ThreadsFit, SlotsFit
<1>2. ASSUME NEW k
      PROVE  /\ Cardinality(Holding(k)) \in Nat /\ Cardinality(Holding(k)') \in Nat
             /\ Cardinality(Holding(k)') + One(Holds(s, k))
                = Cardinality(Holding(k)) + One(Holds(s, k)')
  <2>1. Holding(k) \subseteq Session /\ Holding(k)' \subseteq Session
    BY DEF Holding
  <2>2. Holding(k) \ {s} = Holding(k)' \ {s}
    BY <1>1 DEF Holding, HasPermit, Checks
  <2>3. (s \in Holding(k)) = Holds(s, k) /\ (s \in Holding(k)') = Holds(s, k)'
    BY DEF Holding, Holds
  <2>4. /\ Cardinality(Holding(k)) \in Nat /\ Cardinality(Holding(k)') \in Nat
        /\ Cardinality(Holding(k)') + One(s \in Holding(k))
           = Cardinality(Holding(k)) + One(s \in Holding(k)')
    BY <2>1, <2>2, OneMoreOrLess
  <2> QED BY <2>3, <2>4
<1>3. ASSUME NEW k \in DOMAIN permits'
      PROVE  permits'[k] + Cardinality(Holding(k)') = Limit
  <2>1. One(Holds(s, k)) \in Nat /\ One(Holds(s, k)') \in Nat
    BY DEF One
  <2>2. k \in DOMAIN permits => permits[k] + Cardinality(Holding(k)) = Limit
    BY DEF SlotsConserved, Holding
  <2>3. CASE Balanced(s)
    <3>1. /\ k \in DOMAIN permits /\ permits'[k] \in Int /\ permits[k] \in Int
          /\ permits'[k] + One(Holds(s, k)') = permits[k] + One(Holds(s, k))
      BY <1>1, <1>3, <2>3 DEF Balanced
    <3>2. /\ Cardinality(Holding(k)) \in Int /\ Cardinality(Holding(k)') \in Int
          /\ One(Holds(s, k)) \in Int /\ One(Holds(s, k)') \in Int /\ Limit \in Int
      BY <1>1, <1>2, <2>1
    <3>3. /\ permits[k] + Cardinality(Holding(k)) = Limit
          /\ Cardinality(Holding(k)') + One(Holds(s, k))
             = Cardinality(Holding(k)) + One(Holds(s, k)')
      BY <1>2, <2>2, <3>1
    <3> DEFINE c == Cardinality(Holding(k))  d == Cardinality(Holding(k)')
               o == One(Holds(s, k))  n == One(Holds(s, k)')  was == permits[k]  is == permits'[k]
    <3>4. /\ c \in Int /\ d \in Int /\ o \in Int /\ n \in Int /\ was \in Int /\ is \in Int
          /\ Limit \in Int /\ is + n = was + o /\ was + c = Limit /\ d + o = c + n
      BY <3>1, <3>2, <3>3
    <3> HIDE DEF c, d, o, n, was, is
    <3>5. is + d = Limit
      BY <3>4
    <3> QED BY <3>5 DEF is, d
  <2>4. CASE MakeSemaphore(s)
    <3>1. permits' = Append(permits, Limit) /\ thread[s].at = "making"
      BY <2>4 DEF MakeSemaphore
    <3>2. thread'[s].at = "announcing"
      BY <2>4 DEF MakeSemaphore, TypesFit, ThreadsFit, Fit, Thread
    <3>3. One(Holds(s, k)) = 0 /\ One(Holds(s, k)') = 0
      BY <3>1, <3>2 DEF Holds, HasPermit, One
    <3>4. CASE k \in DOMAIN permits
      <4>1. permits'[k] = permits[k]
        BY <1>1, <3>1, <3>4
      <4> QED BY <1>1, <1>2, <2>2, <3>3, <3>4, <4>1
    <3>5. CASE k \notin DOMAIN permits
      <4>1. k = Len(permits) + 1 /\ permits'[k] = Limit
        BY <1>1, <1>3, <3>1, <3>5
      <4>2. Holding(k) = {}
        BY <1>1, <4>1 DEF Holding, SemaphoresFit
      <4>3. Cardinality(Holding(k)) = 0
        BY <4>2, FS_EmptySet
      <4> QED BY <1>1, <1>2, <3>3, <4>1, <4>3
    <3> QED BY <3>4, <3>5
  <2> QED BY <2>3, <2>4, PermitsOfStep
<1>4. free' + Cardinality(Connections') = PoolSize
  <2>1. Connections \subseteq Session /\ Connections' \subseteq Session
    BY DEF Connections
  <2>2. Connections \ {s} = Connections' \ {s}
    BY <1>1 DEF Connections, Connected, Active, Ended, Simulates
  <2>3. (s \in Connections) = Connected(s) /\ (s \in Connections') = Connected(s)'
    BY DEF Connections, Connected
  <2>4. /\ Cardinality(Connections) \in Nat /\ Cardinality(Connections') \in Nat
        /\ Cardinality(Connections') + One(Connected(s))
           = Cardinality(Connections) + One(Connected(s)')
    BY <2>1, <2>2, <2>3, OneMoreOrLess
  <2>5. free + Cardinality(Connections) = PoolSize
    BY DEF SlotsConserved, Connections
  <2>6. One(Connected(s)) \in Nat /\ One(Connected(s)') \in Nat
    BY DEF One
  <2>7. free' + One(Connected(s)') = free + One(Connected(s))
    BY ConnectionOfStep DEF ConnectionBalanced
  <2>8. PoolSize \in Int /\ free \in Int /\ free' \in Int
    BY <1>1 DEF SlotsFit
  <2> DEFINE c == Cardinality(Connections)  d == Cardinality(Connections')
             o == One(Connected(s))  n == One(Connected(s)')  left == free'
  <2>9. /\ c \in Int /\ d \in Int /\ o \in Int /\ n \in Int /\ left \in Int
        /\ free + c = PoolSize /\ d + o = c + n /\ left + n = free + o
    BY <2>4, <2>5, <2>6, <2>7, <2>8
  <2> HIDE DEF c, d, o, n, left
  <2>10. left + d = PoolSize
    BY <2>8, <2>9
  <2> QED BY <2>10 DEF d, left
<1> QED BY <1>3, <1>4 DEF SlotsConserved, Holding, Connections

-----------------------------------------------------------------------------
(* The invariant holds *)

LEMMA InitResources == Init => ResourcesInv
<1> SUFFICES ASSUME Init PROVE ResourcesInv
  OBVIOUS
<1>1. /\ \A s \in Session : thread[s] = Idle
      /\ Idle.at = "idle" /\ Idle.held = {} /\ Idle.todo = <<>> /\ Idle.semaphore = 0
      /\ AddsUp(Idle.read)
  BY DEF Init, Idle, AddsUp
<1>2. TypesFit
  BY InitTypes
<1>3. LocksFit
  BY <1>1 DEF LocksFit
<1>4. LinkFits
  BY DEF Init, LinkFits
<1>5. SemaphoresFit
  <2>1. \/ permits = <<>> /\ current = 0 /\ announced = FALSE
        \/ permits = <<Limit>> /\ current = 1 /\ announced = TRUE
    BY DEF Init
  <2>2. Len(permits) \in {0, 1} /\ (announced => Len(permits) = 1) /\ current = Len(permits)
    BY <2>1
  <2> QED BY <1>1, <2>2 DEF SemaphoresFit
<1>6. SlotsConserved
  <2>1. \A k \in DOMAIN permits : permits[k] = Limit
    <3>1. permits = <<>> \/ permits = <<Limit>>
      BY DEF Init
    <3> QED BY <3>1
  <2>2. \A k : {c \in Session : HasPermit(c) /\ thread[c].semaphore = k} = {}
    BY <1>1 DEF HasPermit
  <2>3. {s \in Session : Connected(s)} = {}
    BY <1>1 DEF Connected, Active
  <2>4. Cardinality({}) = 0
    BY FS_EmptySet
  <2>5. Limit \in Int /\ PoolSize \in Int /\ free = PoolSize
    BY ResourceBounds DEF Init
  <2>6. \A k \in DOMAIN permits :
          permits[k] + Cardinality({c \in Session : HasPermit(c) /\ thread[c].semaphore = k}) = Limit
    <3>1. ASSUME NEW k \in DOMAIN permits
          PROVE  permits[k] + Cardinality({c \in Session : HasPermit(c) /\ thread[c].semaphore = k})
                 = Limit
      <4>1. Cardinality({c \in Session : HasPermit(c) /\ thread[c].semaphore = k}) = 0
        BY <2>2, <2>4
      <4>2. permits[k] = Limit
        BY <2>1, <3>1
      <4> QED BY <2>5, <4>1, <4>2
    <3> QED BY <3>1
  <2>7. free + Cardinality({s \in Session : Connected(s)}) = PoolSize
    BY <2>3, <2>4, <2>5
  <2> QED BY <2>6, <2>7 DEF SlotsConserved
<1>7. CountersFit
  <2>1. AddsUp(counters)
    BY DEF Init, AddsUp
  <2>2. ~Ahead /\ \A s \in Session : ~HoldsCounters(s)
    BY <1>1 DEF Ahead, HoldsCounters
  <2> QED BY <1>1, <2>1, <2>2 DEF CountersFit
<1> QED BY <1>2, <1>3, <1>4, <1>5, <1>6, <1>7 DEF ResourcesInv

LEMMA NextResources == ResourcesInv /\ [Next]_vars => ResourcesInv'
<1> SUFFICES ASSUME ResourcesInv, [Next]_vars PROVE ResourcesInv'
  OBVIOUS
<1>1. CASE UNCHANGED vars
  <2> USE <1>1 DEF vars
  <2>1. TypesFit'
    BY DEF ResourcesInv, TypesFit, ThreadsFit, TablesFit, SlotsFit, Fit, Checks, Simulates, Summarises
  <2>2. LocksFit' /\ LinkFits'
    BY DEF ResourcesInv, LocksFit, LinkFits, Rows, Clash, Share, Checks, Deletes
  <2>3. SemaphoresFit' /\ CountersFit'
    BY DEF ResourcesInv, SemaphoresFit, CountersFit, Ahead, HoldsCounters
  <2>4. SlotsConserved'
    BY DEF ResourcesInv, SlotsConserved, HasPermit, Checks, Connected, Active, Ended, Simulates
  <2> QED BY <2>1, <2>2, <2>3, <2>4 DEF ResourcesInv
<1>2. CASE Next
  <2>1. PICK s \in Session : Proceed(s) \/ Refuse(s) \/ Fail(s)
    BY <1>2 DEF Next
  <2> QED
    BY <2>1, TypesNext, LocksNext, LinkNext, SemaphoresNext, SlotsStayConserved, CountersNext
    DEF ResourcesInv
<1> QED BY <1>1, <1>2

-----------------------------------------------------------------------------
(* Theorems *)

\* Rows, semaphores, connections and counters keep their invariant, whatever
\* requests and checks interleave, block, fail or are chosen by the database to die.
THEOREM ResourcesInvHolds == Spec => []ResourcesInv
<1>1. Spec => Init /\ [][Next]_vars
  BY DEF Spec
<1> QED BY <1>1, InitResources, NextResources, PTL

\* Rows and threads have their types, and two sessions never hold locks that
\* clash.
THEOREM ResourcesTypeCorrect == Spec => []ResourcesTypeOK
<1>1. ResourcesInv => ResourcesTypeOK
  <2> SUFFICES ASSUME ResourcesInv PROVE ResourcesTypeOK
    OBVIOUS
  <2>1. /\ monitor \in {"active", "paused", "gone"} /\ state.status \in {"up", "down", "paused"}
        /\ \A i \in DOMAIN incidents : incidents[i] \in {"open", "resolved"}
        /\ announced \in BOOLEAN
    BY DEF ResourcesInv, TypesFit, TablesFit, SlotsFit, Status
  <2>2. state.link \in 0 .. Len(incidents) /\ current \in 0 .. Len(permits)
    BY DEF ResourcesInv, LinkFits, SemaphoresFit
  <2>3. \A s \in Session : Locking(s) => thread[s].todo # <<>>
    BY DEF ResourcesInv, TypesFit, ThreadsFit, Fit, Locking
  <2>4. \A s \in Session :
          /\ thread[s].held \subseteq {MonitorRow, StateRow} \cup DOMAIN incidents
          /\ \A t \in Session \ {s} :
               \A row \in thread[s].held \cap thread[t].held : ~Clash(s, t, row)
    BY DEF ResourcesInv, LocksFit, Rows
  <2> QED BY <2>1, <2>2, <2>3, <2>4 DEF ResourcesTypeOK
<1> QED BY <1>1, ResourcesInvHolds, PTL

\* Whichever way a request or a check ends, session.close() and the exit of the
\* semaphore give back what it took, once.
THEOREM SlotsAreConserved == Spec => []SlotsConserved
<1>1. ResourcesInv => SlotsConserved
  BY DEF ResourcesInv
<1> QED BY <1>1, ResourcesInvHolds, PTL

\* open_incident_id points to an open incident, in whatever order checks,
\* resolutions, pauses and deletions lock their rows.
THEOREM LinksAreOpen == Spec => []LinkedIsOpen
<1>1. ResourcesInv => LinkedIsOpen
  BY DEF ResourcesInv, LinkFits, LinkedIsOpen
<1> QED BY <1>1, ResourcesInvHolds, PTL

\* What summary returns of the request counters adds up, whichever requests
\* record_request counts meanwhile.
THEOREM SummariesAddUp == Spec => []CountersAddUp
<1>1. ResourcesInv => CountersAddUp
  BY DEF ResourcesInv, CountersFit, CountersAddUp, AddsUp
<1> QED BY <1>1, ResourcesInvHolds, PTL

\* When the limit of _check_semaphore is announced and the first checks have
\* passed _get_check_semaphore, no check makes another.
THEOREM SemaphoresSettle == Spec => SemaphoreSettles
<1>1. ResourcesInv /\ [Next]_vars => [Settled => Settled' /\ current' = current]_vars
  <2> SUFFICES ASSUME ResourcesInv, Next, Settled
               PROVE  Settled' /\ current' = current
    OBVIOUS
  <2>1. PICK s \in Session : Proceed(s) \/ Refuse(s) \/ Fail(s)
    BY DEF Next
  <2>2. /\ announced /\ current # 0 /\ thread[s] \in Thread /\ s \in DOMAIN thread
        /\ thread[s].at \notin {"making", "announcing"}
        /\ \A t \in Session \ {s} : thread'[t] = thread[t]
    BY <2>1, OneThread
    DEF Settled, ResourcesInv, SemaphoresFit, TypesFit, ThreadsFit, Fit, OfOne
  <2>3. ASSUME current' = current, announced' = announced,
               thread'[s].at \notin {"making", "announcing"}
        PROVE  Settled' /\ current' = current
    BY <2>2, <2>3 DEF Settled
  <2>4. CASE Connect(s)
    <3>1. PICK rows : thread' = [thread EXCEPT ![s] = Begun(s, rows)]
      BY <2>4 DEF Connect, Begun
    <3>2. thread'[s] = Begun(s, rows)
      BY <2>2, <3>1
    <3> QED BY <2>3, <2>4, <3>2, BegunElsewhere DEF Connect, semaphore
  <2>5. CASE Refuse(s) \/ Look(s)
    BY <2>2, <2>3, <2>5 DEF Refuse, Look, Missing, semaphore, Thread
  <2>6. ~MakeSemaphore(s) /\ ~AnnounceLimit(s)
    BY <2>2 DEF MakeSemaphore, AnnounceLimit
  <2>7. CASE FetchSemaphore(s)
    BY <2>2, <2>3, <2>7 DEF FetchSemaphore, semaphore, Thread
  <2>8. CASE Acquire(s) \/ ReleasePermit(s)
    BY <2>2, <2>3, <2>8 DEF Acquire, ReleasePermit, Thread
  <2>9. CASE \E ok \in BOOLEAN : FinishProbe(s, ok)
    BY <2>2, <2>3, <2>9 DEF FinishProbe, semaphore, Thread
  <2>10. CASE LockRow(s)
    <3>1. UNCHANGED semaphore /\ thread'[s].at \in {"recorded", "locking"}
      BY <2>10, RowLocked DEF ResourcesInv
    <3> QED BY <2>3, <3>1 DEF semaphore
  <2>11. CASE Tally(s)
    <3>1. /\ UNCHANGED semaphore
          /\ thread'[s].at \in {"counting", "classing", "summarising", "reading", "totalled", "recorded"}
      BY <2>2, <2>11 DEF Tally, BeginCounting, CountRequest, CountOutcome, BeginSummary, ReadTotal,
         ReadOutcomes, Thread
    <3> QED BY <2>3, <3>1 DEF semaphore
  <2>12. ASSUME NEW how \in {"done", "failed"}, End(s, how)
         PROVE  thread'[s].at = how
    BY <2>2, <2>12 DEF End, Idle
  <2>13. CASE Commit(s)
    BY <2>3, <2>12, <2>13 DEF Commit, semaphore
  <2>14. CASE Vanished(s) \/ DetectDeadlock(s) \/ Fail(s)
    BY <2>3, <2>12, <2>14 DEF Vanished, DetectDeadlock, Fail
  <2> QED
    BY <2>1, <2>4, <2>5, <2>6, <2>7, <2>8, <2>9, <2>10, <2>11, <2>13, <2>14 DEF Proceed
<1>2. Spec => [][Next]_vars
  BY DEF Spec
<1> QED BY <1>1, <1>2, ResourcesInvHolds, PTL DEF SemaphoreSettles
=============================================================================
