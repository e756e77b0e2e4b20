---------------------------- MODULE MonitorProofs ----------------------------
(***************************************************************************)
(* Theorems about the loops of RelayHealthMonitor, for any streams,        *)
(* cameras and pool size: RelayMonitor first, then AuthRetry.              *)
(***************************************************************************)
EXTENDS RelayMonitor, AuthRetry, TimeOrderProofs

\* The failure counters stay in their range, which is what makes "not 0, not
\* 1" the same as "at least 2" below.
CountersOK == failures \in [Streams -> 0..OfflineAfter]

\* One observation moves a counter by at most one, and never past the cap.
LEMMA CountFailureRange ==
  ASSUME NEW n \in 0..OfflineAfter
  PROVE  /\ CountFailure(n) \in 0..OfflineAfter
         /\ CountFailure(n) # 0
         /\ n < 2 => CountFailure(n) <= 2
  BY DEF CountFailure, OfflineAfter

\* What one cycle does to a counter. A counter at 2 or more was there before
\* or belongs to a stream the cycle asks about.
LEMMA ObserveCounters ==
  ASSUME CountersOK, SuspectsAreAsked,
         NEW views, NEW lapsed, NEW started, CycleObserve(views, lapsed, started)
  PROVE  CountersOK' /\ SuspectsAreAsked'
<1> DEFINE results  == Merged(Viewing(views))
           count    == Counted(results)
           suspects == {s \in Failing(results) : count[s] = 2}
           sources  == cycle.sources
<1>1. PICK asked \in SUBSET suspects :
        /\ failures' = [s \in Streams |->
                          IF s \in sources THEN Deferred(count, suspects \ asked)[s] ELSE 0]
        /\ examined' = {s \in examined : failures'[s] # 0} \cup asked
  BY Zenon DEF CycleObserve
<1>2. \A s \in Streams : count[s] = IF s \in Failing(results) THEN CountFailure(failures[s])
                                    ELSE IF s \in DOMAIN results THEN 0 ELSE failures[s]
  BY DEF Counted
<1>3. \A s \in Streams :
        failures'[s] = IF s \in sources
                       THEN IF s \in suspects \ asked THEN 1 ELSE count[s]
                       ELSE 0
  BY <1>1 DEF Deferred
<1> HIDE DEF results, count, suspects, sources
<1>4. \A s \in Streams : failures[s] \in 0..OfflineAfter
  BY DEF CountersOK
<1>5. \A s \in Streams : count[s] \in 0..OfflineAfter
  BY <1>2, <1>4, CountFailureRange DEF OfflineAfter
<1>6. CountersOK'
  <2>1. \A s \in Streams : failures'[s] \in 0..OfflineAfter
    BY <1>3, <1>5 DEF OfflineAfter
  <2>2. failures' = [s \in Streams |-> failures'[s]]
    BY <1>1
  <2>  QED
    BY <2>1, <2>2 DEF CountersOK
<1>7. SuspectsAreAsked'
  <2>1. SUFFICES ASSUME NEW s \in Streams, failures'[s] >= 2
                 PROVE  s \in examined'
    BY DEF SuspectsAreAsked
  <2>2. failures'[s] = count[s] /\ count[s] >= 2 /\ s \notin suspects \ asked
    BY <1>3, <2>1
  <2>3. CASE s \in asked
    BY <1>1, <2>3
  <2>4. CASE s \notin asked
    <3>1. s \notin suspects
      BY <2>2, <2>4
    <3>2. failures[s] >= 2
      <4>1. CASE s \in Failing(results)
        <5>1. count[s] = CountFailure(failures[s]) /\ count[s] # 2
          BY <1>2, <3>1, <4>1 DEF suspects
        <5>  QED
          BY <5>1, <2>2, <1>4, CountFailureRange DEF OfflineAfter
      <4>2. CASE s \notin Failing(results)
        BY <4>2, <1>2, <2>2
      <4>  QED
        BY <4>1, <4>2
    <3>3. s \in examined
      BY <3>2 DEF SuspectsAreAsked
    <3>4. failures'[s] # 0
      BY <2>1, <1>6 DEF CountersOK, OfflineAfter
    <3>  QED
      BY <1>1, <3>3, <3>4
  <2>  QED
    BY <2>3, <2>4
<1>  QED
  BY <1>6, <1>7

\* Every stream that failed twice in a row has been asked about its login,
\* for any number of streams per camera: the deferral of a sibling loses none.
THEOREM SuspectsAsked == Spec => []SuspectsAreAsked
<1> DEFINE Inv == CountersOK /\ SuspectsAreAsked
<1>1. Init => Inv
  BY DEF Init, CountersOK, SuspectsAreAsked, OfflineAfter
<1>2. Inv /\ [Next]_vars => Inv'
  <2> SUFFICES ASSUME CountersOK, SuspectsAreAsked, [Next]_vars
               PROVE  CountersOK' /\ SuspectsAreAsked'
    OBVIOUS
  <2>1. ASSUME NEW lapsed, Observe(lapsed)
        PROVE  CountersOK' /\ SuspectsAreAsked'
    BY <2>1, ObserveCounters DEF Observe
  <2>2. ASSUME UNCHANGED <<failures, examined>>
        PROVE  CountersOK' /\ SuspectsAreAsked'
    BY <2>2 DEF CountersOK, SuspectsAreAsked
  <2>3. CASE CycleBegin \/ CycleFails
    BY <2>2, <2>3 DEF CycleBegin, CycleFails, memory
  <2>4. CASE \E refused \in SUBSET cycle.asked : CycleRecord(refused)
    BY <2>2, <2>4 DEF CycleRecord, memory
  <2>5. CASE \E s \in Streams : \/ \E result \in Results : SnapshotEnds(s, result)
                                \/ VideoChanges(s) \/ RetrySucceeds(s)
    BY <2>2, <2>5 DEF SnapshotEnds, VideoChanges, RetrySucceeds, memory
  <2>6. CASE \E up \in SUBSET Streams : Reconcile(up)
    BY <2>2, <2>6 DEF Reconcile, memory
  <2>7. CASE \E c \in Cameras : Operator(c)
    BY <2>2, <2>7 DEF Operator, memory
  <2>8. CASE UNCHANGED vars
    BY <2>2, <2>8 DEF vars, memory
  <2>  QED
    BY <2>1, <2>3, <2>4, <2>5, <2>6, <2>7, <2>8 DEF Next
<1>  QED
  BY <1>1, <1>2, PTL DEF Spec

-----------------------------------------------------------------------------
(* The pool of snapshots. *)

\* What the bound rests on: the pool is a finite set of snapshots, and a cycle
\* takes logins and sources from the database it read.
PoolShape ==
  /\ login \in [Cameras -> Logins] /\ accepted \in [Cameras -> Logins]
  /\ snapshots \subseteq Snapshot /\ IsFiniteSet(snapshots)
  /\ cycle = [step |-> cycle.step, logins |-> cycle.logins, sources |-> cycle.sources,
              results |-> cycle.results, asked |-> cycle.asked]
  /\ cycle.step # "idle" =>
       cycle.logins \in [Cameras -> Logins] /\ cycle.sources \subseteq Streams

PoolInv == PoolShape /\ PoolBounded

LEMMA PoolInit == Init => PoolInv
<1> SUFFICES ASSUME Init PROVE PoolInv
  OBVIOUS
<1>1. snapshots = {} /\ IsFiniteSet({}) /\ Cardinality({}) = 0
  BY FS_EmptySet DEF Init
<1>2. PoolShape
  BY <1>1 DEF Init, CamerasInit, PoolShape, NoCycle
<1>3. PoolBounded
  BY <1>1, CamerasAssumption, RelayMonitorAssumption DEF PoolBounded
<1> QED BY <1>2, <1>3 DEF PoolInv

\* Requests and the cameras change logins, never the pool.
LEMMA PoolUntouched ==
  ASSUME PoolInv, UNCHANGED <<snapshots, cycle>>,
         login' \in [Cameras -> Logins], accepted' \in [Cameras -> Logins]
  PROVE  PoolInv'
  BY DEF PoolInv, PoolShape, PoolBounded

\* A snapshot that ends stays in the pool until a cycle collects it.
LEMMA PoolSnapshotEnds ==
  ASSUME PoolInv, NEW s \in Streams, NEW result \in Results, SnapshotEnds(s, result)
  PROVE  PoolInv'
<1>1. PICK p \in snapshots :
        /\ p.stream = s
        /\ snapshots' = (snapshots \ {p}) \cup {[p EXCEPT !.result = result]}
        /\ UNCHANGED <<row, settings, cycle>>
  BY DEF SnapshotEnds
<1> DEFINE q == [p EXCEPT !.result = result]
<1>2. p \in Snapshot
  BY DEF PoolInv, PoolShape
<1>3. q \in Snapshot /\ q.stream = p.stream
  BY <1>2 DEF Snapshot, Results
<1>3a. snapshots' = (snapshots \ {p}) \cup {q}
  BY <1>1
<1> HIDE DEF q
<1>4. IsFiniteSet(snapshots) /\ IsFiniteSet(snapshots \ {p})
  BY FS_RemoveElement DEF PoolInv, PoolShape
<1>5. Cardinality(snapshots \ {p}) = Cardinality(snapshots) - 1
  BY <1>4, FS_RemoveElement
<1>6. Cardinality(snapshots) \in Nat /\ Cardinality(snapshots \ {p}) \in Nat
  BY <1>4, FS_CardinalityType
<1>7. IsFiniteSet(snapshots') /\ Cardinality(snapshots') <= Cardinality(snapshots)
  BY <1>3a, <1>4, <1>5, <1>6, FS_AddElement
<1>8. Cardinality(snapshots') \in Nat
  BY <1>7, FS_CardinalityType
<1>9. PoolBounded'
  <2>1. \A a, b \in snapshots' : a.stream = b.stream => a = b
    BY <1>3, <1>3a DEF PoolInv, PoolBounded
  <2>2. Cardinality(snapshots') <= Capacity
    BY <1>6, <1>7, <1>8, CamerasAssumption, RelayMonitorAssumption DEF PoolInv, PoolBounded
  <2> QED BY <2>1, <2>2 DEF PoolBounded
<1>10. PoolShape'
  BY <1>1, <1>3, <1>3a, <1>7 DEF PoolInv, PoolShape, settings
<1> QED BY <1>9, <1>10 DEF PoolInv

\* The pool after a cycle: what runs, and at most as many new snapshots as
\* there was room for, of streams that had none.
LEMMA PoolObserve ==
  ASSUME PoolInv, NEW views, NEW lapsed, NEW started,
         CycleObserve(views, lapsed, started)
  PROVE  PoolInv'
<1> DEFINE Fresh(s) == [stream |-> s, login |-> cycle.logins[CameraOf[s]],
                        result |-> "running"]
           fresh == {Fresh(s) : s \in started}
<1>1. /\ cycle.step = "reading"
      /\ snapshots' = Running \cup fresh
      /\ UNCHANGED settings
  BY DEF CycleObserve
<1>2. /\ started \subseteq Due(lapsed)
      /\ Cardinality(started) <= Room(Running)
  BY DEF CycleObserve, IsStart
<1>3. started \subseteq cycle.sources /\ \A s \in started, p \in Running : p.stream # s
  BY <1>2 DEF Due
<1>4. started \subseteq Streams /\ cycle.logins \in [Cameras -> Logins]
  BY <1>1, <1>3 DEF PoolInv, PoolShape
<1>5. IsFiniteSet(started)
  BY <1>4, CamerasAssumption, FS_Subset
<1>6. IsFiniteSet(fresh) /\ Cardinality(fresh) <= Cardinality(started)
  <2> DEFINE f == [p \in fresh |-> p.stream]
  <2>1. \A p \in fresh : p.stream \in started /\ p = Fresh(p.stream)
    OBVIOUS
  <2>2. f \in Injection(fresh, started)
    <3> HIDE DEF fresh, Fresh
    <3>1. f \in [fresh -> started]
      BY <2>1
    <3>2. \A p, q \in fresh : f[p] = f[q] => p = q
      BY <2>1
    <3> QED BY <3>1, <3>2 DEF Injection, IsInjective
  <2> HIDE DEF f, fresh
  <2> QED BY <1>5, <2>2, FS_Injection
<1>7. \A p \in fresh : p \in Snapshot /\ p.stream \in started
  BY <1>4, CamerasAssumption DEF Snapshot
<1>8. \A p, q \in fresh : p.stream = q.stream => p = q
  OBVIOUS
<1> HIDE DEF fresh
<1>9. Running \subseteq snapshots /\ IsFiniteSet(Running) /\ IsFiniteSet(snapshots)
  <2>1. IsFiniteSet(snapshots) /\ Running \subseteq snapshots
    BY DEF PoolInv, PoolShape, Running
  <2> QED BY <2>1, FS_Subset
<1>10. /\ IsFiniteSet(snapshots')
       /\ Cardinality(snapshots') = Cardinality(Running) + Cardinality(fresh)
                                      - Cardinality(Running \cap fresh)
  BY <1>1, <1>6, <1>9, FS_Union
<1>11. /\ Cardinality(Running) \in Nat /\ Cardinality(fresh) \in Nat
       /\ Cardinality(Running \cap fresh) \in Nat /\ Cardinality(started) \in Nat
  BY <1>5, <1>6, <1>9, FS_CardinalityType, FS_Intersection
<1>12. Cardinality(snapshots') <= Capacity
  <2>1. Room(Running) <= Capacity - Cardinality(Running)
    BY <1>11, CamerasAssumption, RelayMonitorAssumption DEF Room, Least
  <2>2. Room(Running) \in Int
    BY <1>11, CamerasAssumption, RelayMonitorAssumption DEF Room, Least
  <2> QED BY <1>2, <1>6, <1>10, <1>11, <2>1, <2>2, CamerasAssumption, RelayMonitorAssumption
<1>13. \A p, q \in snapshots' : p.stream = q.stream => p = q
  BY <1>1, <1>3, <1>7, <1>8, <1>9 DEF PoolInv, PoolBounded
<1>14. PoolShape'
  <2>1. /\ cycle'.step = "asking"
        /\ cycle'.logins = cycle.logins /\ cycle'.sources = cycle.sources
        /\ cycle' = [step |-> cycle'.step, logins |-> cycle'.logins, sources |-> cycle'.sources,
                     results |-> cycle'.results, asked |-> cycle'.asked]
    <3>1. PICK asked, results :
            cycle' = [cycle EXCEPT !.step = "asking", !.results = results, !.asked = asked]
      BY DEF CycleObserve
    <3> QED BY <3>1 DEF PoolInv, PoolShape
  <2>2. snapshots' \subseteq Snapshot
    BY <1>1, <1>7, <1>9 DEF PoolInv, PoolShape
  <2> QED BY <1>1, <1>10, <2>1, <2>2 DEF PoolInv, PoolShape, settings
<1> QED BY <1>12, <1>13, <1>14 DEF PoolInv, PoolBounded

LEMMA PoolStep == PoolInv /\ [Next]_vars => PoolInv'
<1> SUFFICES ASSUME PoolInv, [Next]_vars PROVE PoolInv'
  OBVIOUS
<1>1. login \in [Cameras -> Logins] /\ accepted \in [Cameras -> Logins]
  BY DEF PoolInv, PoolShape
<1>2. CASE CycleBegin
  BY <1>2 DEF CycleBegin, NoCycle, PoolInv, PoolShape, PoolBounded, settings, Sources
<1>3. CASE CycleFails
  BY <1>3 DEF CycleFails, NoCycle, PoolInv, PoolShape, PoolBounded, settings
<1>4. ASSUME NEW lapsed, Observe(lapsed)
      PROVE  PoolInv'
  BY <1>4, PoolObserve DEF Observe
<1>5. ASSUME NEW refused, CycleRecord(refused)
      PROVE  PoolInv'
  BY <1>5 DEF CycleRecord, NoCycle, PoolInv, PoolShape, PoolBounded, settings
<1>6. ASSUME NEW s \in Streams, NEW result \in Results, SnapshotEnds(s, result)
      PROVE  PoolInv'
  BY <1>6, PoolSnapshotEnds
<1>7. ASSUME NEW s \in Streams, VideoChanges(s) \/ RetrySucceeds(s)
      PROVE  PoolInv'
  BY <1>1, <1>7, PoolUntouched DEF VideoChanges, RetrySucceeds, settings
<1>8. ASSUME NEW up, Reconcile(up)
      PROVE  PoolInv'
  BY <1>1, <1>8, PoolUntouched DEF Reconcile, settings
<1>9. ASSUME NEW c \in Cameras, Operator(c)
      PROVE  PoolInv'
  <2>1. snapshots' = snapshots /\ cycle' = cycle
    BY <1>9 DEF Operator
  <2>2. login' \in [Cameras -> Logins] /\ accepted' \in [Cameras -> Logins]
    BY <1>1, <1>9 DEF Operator, ReplaceCredentials, SwitchOff, SwitchOn, ChangePassword
  <2> QED BY <2>1, <2>2, PoolUntouched
<1>10. CASE UNCHANGED vars
  BY <1>1, <1>10, PoolUntouched DEF vars, settings
<1> QED
  BY <1>2, <1>3, <1>4, <1>5, <1>6, <1>7, <1>8, <1>9, <1>10 DEF Next

\* The comment "No unbounded executor queue" (_sample_periodic_sources), over all
\* cycles and for any pool and batch size: no more snapshots are under way than
\* the pool has workers, and none twice for one stream.
THEOREM PoolStaysBounded == Spec => []PoolBounded
  BY PoolInit, PoolStep, PTL DEF Spec, PoolInv

-----------------------------------------------------------------------------
(* Retries of refused logins: types and the pool of checks. *)

\* Streams fall due one after the other.
DueOK(order) ==
  /\ IsTimeOrder(order)
  /\ \A s, t \in Timed(order) : <<s, t>> \in order /\ <<t, s>> \in order => s = t

\* The inductive invariant: with its types, the bound of the pool needs that
\* the order of due streams is strict, so that one camera has one turn.
RetryInv == RetryTypeOK /\ IsFiniteSet(checks) /\ ChecksBounded

LEMMA RetryRowsType ==
  ASSUME row \in [Streams -> StreamRow], NEW results
  PROVE  RowsAfter(results) \in [Streams -> StreamRow]
<1>1. ASSUME NEW r \in StreamRow, NEW status PROVE FoldProbe(r, status) \in StreamRow
  <2>1. /\ r.health \in StreamHealth /\ r.failures \in 0..OfflineAfter
    BY DEF StreamRow
  <2>2. CountFailure(r.failures) \in 0..OfflineAfter /\ 0 \in 0..OfflineAfter
    BY <2>1, CountFailureRange DEF OfflineAfter
  <2> DEFINE failed == IF status \in {"ready", "idle"} THEN 0 ELSE CountFailure(r.failures)
  <2>3. failed \in 0..OfflineAfter
    BY <2>2
  <2>4. HealthAfter(r, status, failed) \in StreamHealth
    BY DEF HealthAfter, StreamHealth
  <2> QED BY <2>3, <2>4 DEF FoldProbe, StreamRow
<1> QED BY <1>1 DEF RowsAfter

\* Dropping streams from the order of those due.
LEMMA DueWithout ==
  ASSUME DueOK(due), NEW set, due' = Without(set)
  PROVE  DueOK(due') /\ Timed(due') = Timed(due) \ set
<1>1. IsTimeOrder(due') /\ Timed(due') = Timed(due) \ set
  <2>1. Timed(due) \cap (Timed(due) \ set) = Timed(due) \ set
    OBVIOUS
  <2> QED BY <2>1, KeptOrder DEF DueOK, Without
<1>2. due' \subseteq due
  BY DEF Without, Kept
<1> QED BY <1>1, <1>2 DEF DueOK

\* One more stream falls due, after all others.
LEMMA DueStamped ==
  ASSUME DueOK(due), NEW s, s \notin Timed(due), due' = Stamped(due, {s})
  PROVE  DueOK(due') /\ Timed(due') = Timed(due) \cup {s}
<1>1. IsTimeOrder(due') /\ Timed(due') = Timed(due) \cup {s}
  BY StampedOrder DEF DueOK
<1>2. \A t \in Timed(due) : <<s, t>> \notin due'
  BY DEF Stamped, Kept, DueOK
<1>3. \A t, u \in Timed(due) : <<t, u>> \in due' => <<t, u>> \in due
  BY DEF Stamped, Kept
<1> QED BY <1>1, <1>2, <1>3 DEF DueOK

\* The shape of RetryTypeOK that the steps below need.
LEMMA RetryTypes ==
  RetryTypeOK <=>
    /\ CamerasTypeOK
    /\ schedule \subseteq Streams
    /\ Timed(due) \subseteq schedule /\ DueOK(due)
    /\ checks \subseteq Check
    /\ round \in {NoRound} \cup [step : {"read"}, logins : [Cameras -> Logins],
                                 sources : SUBSET Streams]
    /\ restarts \in 0..MaxRestarts
  BY DEF RetryTypeOK, DueOK

LEMMA RetryInitInv == RetryInit => RetryInv
<1> SUFFICES ASSUME RetryInit PROVE RetryInv
  OBVIOUS
<1>1. CamerasTypeOK
  <2>1. row \in [Streams -> StreamRow]
    BY DEF RetryInit, StreamRow, StreamHealth, FreshRow, OfflineAfter
  <2> QED BY <2>1 DEF RetryInit, CamerasInit, CamerasTypeOK
<1>2. DueOK(due) /\ Timed(due) = {}
  BY EmptyOrder DEF RetryInit, DueOK
<1>3. RetryTypeOK
  BY <1>1, <1>2, RetryTypes, AuthRetryAssumption DEF RetryInit
<1>4. IsFiniteSet(checks) /\ ChecksBounded
  BY FS_EmptySet, CamerasAssumption DEF RetryInit, ChecksBounded
<1> QED BY <1>3, <1>4 DEF RetryInv

\* What collected checks and turns leave: no more checks than the pool has room
\* for. The last of those started is started only if there is room for all.
LEMMA StartableBounded ==
  ASSUME DueOK(due), NEW turns, turns \subseteq Timed(due), IsFiniteSet(turns),
         NEW running, IsFiniteSet(running), Cardinality(running) <= Capacity
  PROVE  /\ IsFiniteSet(Startable(turns, running))
         /\ Cardinality(Startable(turns, running)) + Cardinality(running) <= Capacity
<1> DEFINE started   == Startable(turns, running)
           before(s) == {t \in turns : <<t, s>> \in due}
<1>1. started \subseteq turns /\ IsFiniteSet(started) /\ Cardinality(started) \in Nat
  BY FS_Subset, FS_CardinalityType DEF Startable
<1>2. Cardinality(running) \in Nat /\ Capacity \in Nat
  BY FS_CardinalityType, CamerasAssumption
<1>3. CASE started = {}
  BY <1>1, <1>2, <1>3, FS_EmptySet
<1>4. CASE started # {}
  <2>1. PICK last \in started : \A s \in started : <<s, last>> \in due
    <3> HIDE DEF started
    <3> QED BY <1>1, <1>4, Latest DEF DueOK
  <2>2. Cardinality(before(last)) + Cardinality(running) <= Capacity
    BY <2>1 DEF Startable
  <2>3. started \subseteq before(last)
    BY <1>1, <2>1
  <2>4. IsFiniteSet(before(last)) /\ Cardinality(before(last)) \in Nat
    BY FS_Subset, FS_CardinalityType
  <2>5. Cardinality(started) <= Cardinality(before(last))
    <3> HIDE DEF started, before
    <3> QED BY <2>3, <2>4, FS_Subset
  <2>6. Cardinality(started) + Cardinality(running) <= Capacity
    <3> HIDE DEF started, before
    <3> QED BY <1>1, <1>2, <2>2, <2>4, <2>5
  <2> QED BY <1>1, <2>6
<1> QED BY <1>1, <1>3, <1>4

\* Steps that leave the pool and the round alone.
LEMMA RetryUntouched ==
  ASSUME RetryInv, UNCHANGED <<checks, round, restarts>>,
         CamerasTypeOK', schedule' \subseteq Streams,
         Timed(due') \subseteq schedule', DueOK(due')
  PROVE  RetryInv'
<1>1. RetryTypeOK'
  BY RetryTypes DEF RetryInv, RetryTypeOK, DueOK
<1>2. IsFiniteSet(checks)' /\ ChecksBounded'
  BY DEF RetryInv, ChecksBounded
<1> QED BY <1>1, <1>2 DEF RetryInv

\* What record_probe_results does to the schedule.
LEMMA RetryRecorded ==
  ASSUME RetryInv, NEW results, DOMAIN results \subseteq Streams, RecordRetries(results)
  PROVE  schedule' \subseteq Streams /\ Timed(due') \subseteq schedule' /\ DueOK(due')
<1> DEFINE ready == {s \in DOMAIN results : results[s] = "ready"}
<1>1. /\ schedule \ ready \subseteq schedule'
      /\ schedule' \subseteq schedule \cup DOMAIN results
      /\ due' = Without(ready)
  BY DEF RecordRetries
<1>2. schedule \subseteq Streams /\ Timed(due) \subseteq schedule /\ DueOK(due)
  BY RetryTypes DEF RetryInv
<1> HIDE DEF ready
<1>3. DueOK(due') /\ Timed(due') = Timed(due) \ ready
  BY <1>1, <1>2, DueWithout
<1> QED BY <1>1, <1>2, <1>3

\* A check that ends stays in the pool until a round collects it.
LEMMA RetryCheckEnds ==
  ASSUME RetryInv, NEW s \in Streams, NEW result \in {"frame", "nothing"},
         CheckEnds(s, result)
  PROVE  RetryInv'
<1>1. PICK c \in checks :
        /\ checks' = (checks \ {c}) \cup {[c EXCEPT !.result = result]}
        /\ UNCHANGED <<row, settings, schedule, due, round, restarts>>
  BY DEF CheckEnds
<1> DEFINE ended == [c EXCEPT !.result = result]
<1>2. c \in Check /\ checks \subseteq Check
  BY DEF RetryInv, RetryTypeOK
<1>3. ended \in Check /\ ended.stream = c.stream
  BY <1>2 DEF Check
<1>4. checks' = (checks \ {c}) \cup {ended}
  BY <1>1
<1> HIDE DEF ended
<1>5. /\ IsFiniteSet(checks) /\ IsFiniteSet(checks \ {c})
      /\ Cardinality(checks \ {c}) = Cardinality(checks) - 1
      /\ Cardinality(checks) \in Nat /\ Cardinality(checks \ {c}) \in Nat
  BY FS_RemoveElement, FS_CardinalityType DEF RetryInv
<1>6. IsFiniteSet(checks') /\ Cardinality(checks') <= Cardinality(checks)
  <2> DEFINE rest == checks \ {c}
  <2>1. checks' = rest \cup {ended} /\ IsFiniteSet(rest)
    BY <1>4, <1>5
  <2> HIDE DEF rest
  <2>2. /\ IsFiniteSet(checks')
        /\ Cardinality(checks') \in {Cardinality(rest), Cardinality(rest) + 1}
    BY <2>1, FS_AddElement
  <2> QED BY <1>5, <2>2 DEF rest
<1>7. Cardinality(checks') \in Nat
  BY <1>6, FS_CardinalityType
<1>8. ChecksBounded'
  <2>1. Cardinality(checks') <= Capacity
    BY <1>5, <1>6, <1>7, CamerasAssumption DEF RetryInv, ChecksBounded
  <2>2. \A a, b \in checks' : CameraOf[a.stream] = CameraOf[b.stream] => a = b
    BY <1>3, <1>4 DEF RetryInv, ChecksBounded
  <2> QED BY <2>1, <2>2 DEF ChecksBounded
<1>9. RetryTypeOK'
  BY <1>1, <1>2, <1>3, <1>4 DEF RetryInv, RetryTypeOK, CamerasTypeOK, settings
<1> QED BY <1>6, <1>8, <1>9 DEF RetryInv

\* The end of a round: what runs and what is started fit in the pool, and each
\* camera has one check.
LEMMA RetryRoundFinish == ASSUME RetryInv, RoundFinish PROVE RetryInv'
<1> DEFINE done    == {c \in checks : c.result # "running"}
           results == ResultsOf(Valid(done))
           running == checks \ done
           busy    == {CameraOf[c.stream] : c \in running}
           waiting == {s \in (round.sources \cap Timed(due)) \ DOMAIN results :
                         CameraOf[s] \notin busy}
           turns   == Turns(waiting)
           started == Startable(turns, running)
           Fresh(s) == [stream |-> s, login |-> round.logins[CameraOf[s]],
                        result |-> "running"]
           fresh   == {Fresh(s) : s \in started}
<1>1. /\ round.step = "read"
      /\ row' = RowsAfter(results)
      /\ schedule' = schedule \ {s \in DOMAIN results : results[s] = "ready"}
      /\ due' = Without(started \cup DOMAIN results)
      /\ checks' = running \cup fresh
      /\ round' = NoRound
      /\ UNCHANGED <<settings, restarts>>
  BY DEF RoundFinish
<1>2. /\ CamerasTypeOK /\ schedule \subseteq Streams
      /\ Timed(due) \subseteq schedule /\ DueOK(due) /\ checks \subseteq Check
      /\ round \in [step : {"read"}, logins : [Cameras -> Logins], sources : SUBSET Streams]
      /\ restarts \in 0..MaxRestarts
  BY <1>1, RetryTypes DEF RetryInv, NoRound
<1>3. \A s \in turns : /\ s \in Timed(due) /\ s \in Streams /\ CameraOf[s] \notin busy
                       /\ \A t \in turns : CameraOf[s] = CameraOf[t] => <<s, t>> \in due
  BY <1>2 DEF Turns
<1>4. \A s, t \in turns : CameraOf[s] = CameraOf[t] => s = t
  BY <1>2, <1>3 DEF DueOK
<1>5. running \subseteq checks /\ IsFiniteSet(running)
  BY FS_Subset DEF RetryInv
<1>6. Cardinality(running) <= Capacity
  <2>1. Cardinality(running) <= Cardinality(checks) /\ Cardinality(checks) <= Capacity
    BY FS_Subset DEF RetryInv, ChecksBounded
  <2>2. Cardinality(running) \in Nat /\ Cardinality(checks) \in Nat
    BY <1>5, FS_CardinalityType DEF RetryInv
  <2> HIDE DEF running
  <2> QED BY <2>1, <2>2, CamerasAssumption
<1>7. turns \subseteq Timed(due) /\ IsFiniteSet(turns)
  <2>1. turns \subseteq Timed(due) /\ turns \subseteq Streams
    BY <1>3
  <2> HIDE DEF turns
  <2> QED BY <2>1, FS_Subset, CamerasAssumption
<1>8. \A c \in running : CameraOf[c.stream] \in busy
  OBVIOUS
<1> HIDE DEF done, results, running, busy, waiting, turns, started
<1>9. \A p \in fresh : p.stream \in started /\ p = Fresh(p.stream)
  OBVIOUS
<1>10. /\ IsFiniteSet(started)
       /\ Cardinality(started) + Cardinality(running) <= Capacity
  BY <1>2, <1>5, <1>6, <1>7, StartableBounded DEF started
<1>11. started \subseteq turns
  BY DEF started, Startable
<1>12. IsFiniteSet(fresh) /\ Cardinality(fresh) <= Cardinality(started)
  <2> DEFINE f == [p \in fresh |-> p.stream]
  <2>1. f \in Injection(fresh, started)
    <3> HIDE DEF fresh, Fresh
    <3>1. f \in [fresh -> started]
      BY <1>9
    <3>2. \A p, q \in fresh : f[p] = f[q] => p = q
      BY <1>9
    <3> QED BY <3>1, <3>2 DEF Injection, IsInjective
  <2> HIDE DEF f, fresh
  <2> QED BY <1>10, <2>1, FS_Injection
<1>13. fresh \subseteq Check
  <2> SUFFICES ASSUME NEW s \in started PROVE Fresh(s) \in Check
    OBVIOUS
  <2>1. s \in Streams /\ CameraOf[s] \in Cameras
    BY <1>3, <1>11, CamerasAssumption
  <2> QED BY <1>2, <2>1 DEF Check
<1> HIDE DEF fresh, Fresh
<1>14. /\ IsFiniteSet(checks')
       /\ Cardinality(checks') = Cardinality(running) + Cardinality(fresh)
                                   - Cardinality(running \cap fresh)
  BY <1>1, <1>5, <1>12, FS_Union
<1>15. /\ Cardinality(running) \in Nat /\ Cardinality(fresh) \in Nat
       /\ Cardinality(running \cap fresh) \in Nat /\ Cardinality(started) \in Nat
  BY <1>5, <1>10, <1>12, FS_CardinalityType, FS_Intersection
<1>16. Cardinality(checks') <= Capacity
  BY <1>10, <1>12, <1>14, <1>15, CamerasAssumption
<1>17. \A a, b \in checks' : CameraOf[a.stream] = CameraOf[b.stream] => a = b
  <2> SUFFICES ASSUME NEW a \in checks', NEW b \in checks',
                      CameraOf[a.stream] = CameraOf[b.stream]
               PROVE  a = b
    OBVIOUS
  <2>1. CASE a \in running /\ b \in running
    BY <1>5, <2>1 DEF RetryInv, ChecksBounded
  <2>2. CASE a \in fresh /\ b \in fresh
    BY <1>4, <1>9, <1>11, <2>2
  <2>3. CASE a \in running /\ b \in fresh
    BY <1>3, <1>8, <1>9, <1>11, <2>3
  <2>4. CASE a \in fresh /\ b \in running
    BY <1>3, <1>8, <1>9, <1>11, <2>4
  <2> QED BY <1>1, <2>1, <2>2, <2>3, <2>4
<1>18. DueOK(due') /\ Timed(due') \subseteq schedule'
  <2>1. DueOK(due') /\ Timed(due') = Timed(due) \ (started \cup DOMAIN results)
    BY <1>1, <1>2, DueWithout
  <2> QED BY <1>1, <1>2, <2>1
<1>19. RetryTypeOK'
  <2>1. row' \in [Streams -> StreamRow]
    BY <1>1, <1>2, RetryRowsType DEF CamerasTypeOK
  <2>2. CamerasTypeOK'
    BY <1>1, <1>2, <2>1 DEF CamerasTypeOK, settings
  <2>3. schedule' \subseteq Streams /\ checks' \subseteq Check /\ restarts' \in 0..MaxRestarts
    BY <1>1, <1>2, <1>5, <1>13
  <2> QED BY <1>1, <1>18, <2>2, <2>3 DEF RetryTypeOK, DueOK
<1> QED BY <1>14, <1>16, <1>17, <1>19 DEF RetryInv, ChecksBounded

LEMMA RetryStep == RetryInv /\ [RetryNext]_retryVars => RetryInv'
<1> SUFFICES ASSUME RetryInv, [RetryNext]_retryVars PROVE RetryInv'
  OBVIOUS
<1>1. /\ CamerasTypeOK /\ schedule \subseteq Streams
      /\ Timed(due) \subseteq schedule /\ DueOK(due) /\ checks \subseteq Check
      /\ restarts \in 0..MaxRestarts
  BY RetryTypes DEF RetryInv
<1>2. /\ row \in [Streams -> StreamRow] /\ login \in [Cameras -> Logins]
      /\ accepted \in [Cameras -> Logins] /\ on \subseteq Cameras
  BY <1>1 DEF CamerasTypeOK
<1>3. ASSUME NEW results, row' = RowsAfter(results), UNCHANGED settings PROVE CamerasTypeOK'
  <2>1. row' \in [Streams -> StreamRow]
    BY <1>2, <1>3, RetryRowsType
  <2> QED BY <1>2, <1>3, <2>1 DEF CamerasTypeOK, settings
<1>4. CASE RoundBegin
  <2>1. /\ schedule' = Enrolled /\ due' = Without(Streams \ Enrolled)
        /\ UNCHANGED <<row, settings, checks, restarts>>
    BY <1>4 DEF RoundBegin
  <2>2. Enrolled \subseteq Streams
    BY DEF Enrolled
  <2>3. DueOK(due') /\ Timed(due') = Timed(due) \ (Streams \ Enrolled)
    BY <1>1, <2>1, DueWithout
  <2>4. round' \in {NoRound} \cup [step : {"read"}, logins : [Cameras -> Logins],
                                   sources : SUBSET Streams]
    BY <1>2, <1>4, <2>2 DEF RoundBegin
  <2>5. RetryTypeOK'
    BY <1>1, <2>1, <2>2, <2>3, <2>4 DEF RetryTypeOK, DueOK, CamerasTypeOK, settings
  <2> QED BY <2>1, <2>5 DEF RetryInv, ChecksBounded
<1>5. CASE RoundFinish
  BY <1>5, RetryRoundFinish
<1>6. ASSUME NEW s \in Streams, NEW result \in {"frame", "nothing"}, CheckEnds(s, result)
      PROVE  RetryInv'
  BY <1>6, RetryCheckEnds
<1>7. ASSUME NEW s \in Streams, Elapse(s) PROVE RetryInv'
  <2>1. /\ s \in schedule \ Timed(due) /\ due' = Stamped(due, {s})
        /\ UNCHANGED <<row, settings, schedule, checks, round, restarts>>
    BY <1>7 DEF Elapse
  <2>2. DueOK(due') /\ Timed(due') = Timed(due) \cup {s}
    BY <1>1, <2>1, DueStamped
  <2>3. CamerasTypeOK'
    BY <1>2, <2>1 DEF CamerasTypeOK, settings
  <2> QED BY <1>1, <2>1, <2>2, <2>3, RetryUntouched
<1>8. ASSUME NEW s \in Streams, NEW status, ObserveStream(s, status) PROVE RetryInv'
  <2> DEFINE results == [t \in {s} |-> status]
  <2>1. /\ row' = RowsAfter(results) /\ RecordRetries(results)
        /\ UNCHANGED <<settings, checks, round, restarts>>
    BY <1>8 DEF ObserveStream
  <2>2. DOMAIN results \subseteq Streams
    OBVIOUS
  <2> HIDE DEF results
  <2> QED BY <1>3, <2>1, <2>2, RetryRecorded, RetryUntouched
<1>9. ASSUME NEW up, ReconcileRelay(up) PROVE RetryInv'
  <2>1. /\ row' = RowsAfter(RelayAnswers(up)) /\ RecordRetries(RelayAnswers(up))
        /\ UNCHANGED <<settings, checks, round, restarts>>
    BY <1>9 DEF ReconcileRelay
  <2>2. DOMAIN RelayAnswers(up) \subseteq Streams
    BY DEF RelayAnswers, Sources
  <2> QED BY <1>3, <2>1, <2>2, RetryRecorded, RetryUntouched
<1>10. ASSUME NEW c \in Cameras, Elsewhere(c) PROVE RetryInv'
  <2>1. UNCHANGED <<schedule, due, checks, round, restarts>>
    BY <1>10 DEF Elsewhere
  <2>2. CamerasTypeOK'
    <3>1. CASE ReplaceCredentials(c)
      <4>1. FreshRow \in StreamRow
        BY DEF FreshRow, StreamRow, StreamHealth, OfflineAfter
      <4> QED BY <1>2, <3>1, <4>1 DEF ReplaceCredentials, CamerasTypeOK
    <3>2. CASE SwitchOff(c)
      BY <1>2, <3>2 DEF SwitchOff, CamerasTypeOK
    <3>3. CASE \E l \in Logins : ChangePassword(c, l)
      BY <1>2, <3>3 DEF ChangePassword, CamerasTypeOK
    <3> QED BY <1>10, <3>1, <3>2, <3>3 DEF Elsewhere
  <2> QED BY <1>1, <2>1, <2>2, RetryUntouched
<1>11. ASSUME NEW c \in Cameras, NEW answers, Enable(c, answers) PROVE RetryInv'
  <2>1. /\ SwitchOn(c, answers) /\ RecordRetries(answers)
        /\ UNCHANGED <<checks, round, restarts>>
    BY <1>11 DEF Enable
  <2>2. DOMAIN answers \subseteq Streams /\ row' = RowsAfter(answers)
        /\ on' \subseteq Cameras /\ UNCHANGED <<login, accepted>>
    BY <1>2, <2>1 DEF SwitchOn, StreamsOf
  <2>3. CamerasTypeOK'
    <3>1. row' \in [Streams -> StreamRow]
      BY <1>2, <2>2, RetryRowsType
    <3> QED BY <1>2, <2>2, <3>1 DEF CamerasTypeOK
  <2> QED BY <2>1, <2>2, <2>3, RetryRecorded, RetryUntouched
<1>12. CASE Restart
  <2>1. /\ checks' = {} /\ round' = NoRound /\ restarts' \in 0..MaxRestarts
        /\ UNCHANGED <<row, settings, schedule, due>>
    BY <1>1, <1>12, AuthRetryAssumption DEF Restart
  <2>2. IsFiniteSet(checks') /\ ChecksBounded'
    BY <2>1, FS_EmptySet, CamerasAssumption DEF ChecksBounded
  <2>3. RetryTypeOK'
    BY <1>1, <2>1 DEF RetryTypeOK, DueOK, CamerasTypeOK, settings
  <2> QED BY <2>2, <2>3 DEF RetryInv
<1>13. CASE UNCHANGED retryVars
  <2>1. UNCHANGED <<schedule, due, checks, round, restarts>> /\ UNCHANGED <<row, settings>>
    BY <1>13 DEF retryVars
  <2>2. CamerasTypeOK'
    BY <1>2, <2>1 DEF CamerasTypeOK, settings
  <2> QED BY <1>1, <2>1, <2>2, RetryUntouched
<1> QED
  BY <1>4, <1>5, <1>6, <1>7, <1>8, <1>9, <1>10, <1>11, <1>12, <1>13 DEF RetryNext

LEMMA RetryAlways == RetrySpec => []RetryInv
  BY RetryInitInv, RetryStep, PTL DEF RetrySpec

\* The retry rows, their order, the pool and the round always fit together:
\* only scheduled streams are due, one after the other (stream_auth_retries).
THEOREM RetryTypeCorrect == RetrySpec => []RetryTypeOK
  BY RetryAlways, PTL DEF RetryInv

\* "Recovery checks are bounded and run one at a time per camera": over all
\* rounds and restarts, for any number of streams, cameras and workers
\* (_retry_authentication).
THEOREM RetriesBounded == RetrySpec => []ChecksBounded
  BY RetryAlways, PTL DEF RetryInv

\* What the end of a round does to a row: nothing, unless a check that was
\* collected decoded a frame of the stream with the login the round read.
LEMMA RoundEnds ==
  ASSUME RoundFinish, NEW s \in Streams, row'[s] # row[s]
  PROVE  \E c \in checks \ checks' :
           /\ c.stream = s /\ c.result = "frame"
           /\ c.login = round.logins[CameraOf[s]]
<1> DEFINE done    == {c \in checks : c.result # "running"}
           results == ResultsOf(Valid(done))
<1>1. row' = RowsAfter(results)
  BY DEF RoundFinish
<1>2. s \in DOMAIN results
  <2> HIDE DEF results
  <2> QED BY <1>1 DEF RowsAfter
<1>3. PICK c \in Valid(done) : c.stream = s /\ c.result = "frame"
  BY <1>2 DEF ResultsOf
<1>4. c \in checks /\ c.login = round.logins[CameraOf[s]]
  BY <1>3 DEF Valid
<1>5. \A d \in checks' : d.result = "running"
  <2>1. PICK started :
          checks' = (checks \ done) \cup
            {[stream |-> t, login |-> round.logins[CameraOf[t]], result |-> "running"] :
               t \in started}
    BY DEF RoundFinish
  <2> QED BY <2>1
<1> QED BY <1>3, <1>4, <1>5

\* A round that was under way is over: it came to its end, or the process did.
LEMMA RoundOver ==
  ASSUME RetryNext, round.step = "read", round'.step = "idle"
  PROVE  RoundFinish \/ row' = row
<1>1. CASE RoundBegin \/ RoundFinish \/ Restart
  BY <1>1 DEF RoundBegin, Restart
<1>2. CASE ~(RoundBegin \/ RoundFinish \/ Restart)
  <2>1. round' = round
    BY <1>2 DEF RetryNext, CheckEnds, Elapse, ObserveStream, ReconcileRelay, Elsewhere, Enable
  <2> QED BY <2>1
<1> QED BY <1>1, <1>2

\* A retry that saw nothing forgets no refusal: only a decoded frame takes a
\* stream out of auth_failed at the end of a round, whatever happened since
\* the round read the database (_retry_authentication).
THEOREM RefusalsKept == RetrySpec => RefusalKeptByRetries
<1> DEFINE Seen == round.step = "read" /\ round'.step = "idle" =>
                     \A s \in Streams :
                       row[s].health = "auth_failed" /\ row'[s].health # "auth_failed" =>
                         \E c \in checks \ checks' : c.stream = s /\ c.result = "frame"
<1>1. [RetryNext]_retryVars => [Seen]_retryVars
  <2> SUFFICES ASSUME RetryNext, round.step = "read", round'.step = "idle",
                      NEW s \in Streams,
                      row[s].health = "auth_failed", row'[s].health # "auth_failed"
               PROVE  \E c \in checks \ checks' : c.stream = s /\ c.result = "frame"
    OBVIOUS
  <2>1. RoundFinish /\ row'[s] # row[s]
    BY RoundOver
  <2> QED BY <2>1, RoundEnds
<1> QED BY <1>1, PTL DEF RetrySpec, RefusalKeptByRetries

\* "Credential edits ... invalidate old work": at the end of a round a stream
\* becomes healthy by a check that used the login stored then, unless that was
\* replaced while the round was under way (_retry_authentication).
THEOREM OldWorkDropped == RetrySpec => OldWorkInvalid
<1> DEFINE InDate == round.step = "read" /\ round'.step = "idle" =>
                       \A s \in Streams :
                         /\ round.logins[CameraOf[s]] = login[CameraOf[s]]
                         /\ row[s].health # "healthy" /\ row'[s].health = "healthy"
                         => \E c \in checks : c.stream = s /\ c.login = login[CameraOf[s]]
<1>1. [RetryNext]_retryVars => [InDate]_retryVars
  <2> SUFFICES ASSUME RetryNext, round.step = "read", round'.step = "idle",
                      NEW s \in Streams,
                      round.logins[CameraOf[s]] = login[CameraOf[s]],
                      row[s].health # "healthy", row'[s].health = "healthy"
               PROVE  \E c \in checks : c.stream = s /\ c.login = login[CameraOf[s]]
    OBVIOUS
  <2>1. RoundFinish /\ row'[s] # row[s]
    BY RoundOver
  <2> QED BY <2>1, RoundEnds
<1> QED BY <1>1, PTL DEF RetrySpec, OldWorkInvalid
=============================================================================
