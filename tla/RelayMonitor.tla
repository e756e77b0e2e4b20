----------------------------- MODULE RelayMonitor -----------------------------
(***************************************************************************)
(* RelayHealthMonitor.probe and _sample_periodic_sources                   *)
(* (src/camadmiral/media.py): one cycle reads the sources and the relay's  *)
(* counters, collects finished snapshots and starts due ones in a bounded  *)
(* pool, asks a camera that keeps failing whether it refuses the login,    *)
(* and records the results. Cycles hold MEDIA_LOCK; operator requests,     *)
(* the snapshot threads and the cameras do not wait for it.                *)
(***************************************************************************)
EXTENDS MonitoredCameras, TimeOrder

CONSTANTS
  Viewed,    \* streams that consumers other than the snapshots may read
  Batch      \* snapshots one cycle may start: FRAME_PROBE_BATCH_SIZE

ASSUME RelayMonitorAssumption ==
  /\ Viewed \subseteq Streams
  /\ Batch \in Nat \ {0}

VARIABLES
  video,      \* streams whose camera sends video (external)
  counted,    \* _video_samples: streams with a packet counter kept
  failures,   \* _failure_samples: observed failures in a row; 0 is no entry
  attempted,  \* the order of _frame_probe_attempts
  retries,    \* _frame_probe_retries
  snapshots,  \* _pending_snapshots: started and not yet collected
  examined,   \* streams asked about the login since they last failed anew (ghost)
  cycle       \* the cycle under way

memory == <<counted, failures, attempted, retries>>
vars == <<row, settings, video, memory, snapshots, examined, cycle>>

Snapshot == [stream : Streams, login : Logins,
             result : {"running", "frame", "busy", "failed"}]
NoCycle == [step |-> "idle", logins |-> <<>>, sources |-> {}, results |-> <<>>,
            asked |-> {}]

\* Type invariant: what the monitor remembers between cycles; a cycle asks only
\* about its sources.
TypeOK ==
  /\ CamerasTypeOK
  /\ video \in SUBSET Streams
  /\ counted \in SUBSET Streams
  /\ failures \in [Streams -> 0..OfflineAfter]
  /\ Timed(attempted) \subseteq Streams /\ IsTimeOrder(attempted)
  /\ retries \in SUBSET Streams
  /\ snapshots \in SUBSET Snapshot
  /\ examined \in SUBSET Streams
  /\ \/ cycle = NoCycle
     \/ /\ cycle.step \in {"reading", "asking"}
        /\ cycle.logins \in [Cameras -> Logins]
        /\ cycle.asked \subseteq cycle.sources /\ cycle.sources \subseteq Streams
        /\ DOMAIN cycle.results \subseteq cycle.sources

Init ==
  /\ row = [s \in Streams |-> FreshRow]
  /\ CamerasInit
  /\ video = Streams
  /\ counted = {} /\ failures = [s \in Streams |-> 0]
  /\ attempted = {} /\ retries = {}
  /\ snapshots = {} /\ examined = {}
  /\ cycle = NoCycle

-----------------------------------------------------------------------------
(* One cycle. *)

\* probe: the sources, without refused streams, are read in one SELECT.
CycleBegin ==
  /\ cycle.step = "idle"
  /\ cycle' = [NoCycle EXCEPT !.step = "reading", !.logins = login,
                 !.sources = {s \in Sources : row[s].health # "auth_failed"}]
  /\ UNCHANGED <<row, settings, video, memory, snapshots, examined>>

\* The relay does not answer: nothing is recorded.
CycleFails ==
  /\ cycle.step = "reading"
  /\ cycle' = NoCycle
  /\ UNCHANGED <<row, settings, video, memory, snapshots, examined>>

\* What the relay may show of the sources: no consumers, no packets yet, the
\* packet counter of the last cycle, or one that moved or is a new producer's.
RuntimeViews ==
  {views \in [cycle.sources -> {"unwatched", "empty", "still", "moving"}] :
     \A s \in cycle.sources \ Viewed : views[s] = "unwatched"}

\* What probe makes of it. The first sample of a counter says "ready".
Viewing(views) ==
  [s \in {t \in cycle.sources : views[t] # "unwatched"} |->
     IF views[s] = "moving" \/ (views[s] = "still" /\ s \notin counted)
     THEN "ready" ELSE "unavailable"]

Done    == {p \in snapshots : p.result # "running"}
Running == snapshots \ Done

\* Finished snapshots of the source the cycle read; collect drops the others.
Current == {p \in Done : /\ p.stream \in cycle.sources
                         /\ p.login = cycle.logins[CameraOf[p.stream]]}
Ended(result) == {p.stream : p \in {q \in Current : q.result = result}}

\* Wrong on purpose: a snapshot that failed says nothing of its stream either.
ShotsOfFrames == [s \in Ended("frame") |-> "ready"]

\* A snapshot that found no free slot says nothing of its stream.
Shots == [s \in Ended("frame") \cup Ended("failed") |->
            IF s \in Ended("frame") THEN "ready" ELSE "unavailable"]
RetriesAfterCollect == (retries \ Ended("frame")) \cup Ended("failed") \cup Ended("busy")

\* Streams to sample: lapsed are those whose probe interval has passed.
Due(lapsed) ==
  {s \in cycle.sources :
     /\ s \notin DOMAIN Shots
     /\ \A p \in Running : p.stream # s
     /\ s \notin Timed(attempted) \/ s \in RetriesAfterCollect \cup lapsed}

\* Wrong on purpose: failing streams are tried again before the others.
GoesFirstIfFailing(s, u) ==
  IF s \in RetriesAfterCollect <=> u \in RetriesAfterCollect
  THEN NotAfter(attempted, s, u) ELSE s \in RetriesAfterCollect

\* First the streams never attempted, then those attempted longest ago.
GoesFirst(s, u) == NotAfter(attempted, s, u)

Least(m, n) == IF m < n THEN m ELSE n

\* Wrong on purpose: snapshots still running are not counted.
RoomOfIdlePool(running) == Least(Batch, Capacity)

\* How many snapshots this cycle may start.
Room(running) == Least(Batch, Capacity - Cardinality(running))

\* The first of the due streams, as many as there is room for. All of them
\* get the time the cycle began, and equal times may go in any order.
IsStart(started, due) ==
  /\ started \subseteq due
  /\ Cardinality(started) <= Room(Running)
  /\ started # due => Cardinality(started) = Room(Running)
  /\ \A s \in started, u \in due \ started : GoesFirst(s, u)

\* Which result counts when the viewers and a snapshot both have one: a viewer
\* that sees packets outweighs a snapshot that failed.
Outweighed(viewed) ==
  {s \in DOMAIN viewed \cap DOMAIN Shots : viewed[s] = "ready" /\ Shots[s] # "ready"}
Merged(viewed) ==
  [s \in DOMAIN viewed \cup DOMAIN Shots |->
     IF s \in DOMAIN Shots \ Outweighed(viewed) THEN Shots[s] ELSE viewed[s]]

Failing(results) == {s \in DOMAIN results : results[s] = "unavailable"}

Counted(results) ==
  [s \in Streams |-> IF s \in Failing(results) THEN CountFailure(failures[s])
                     ELSE IF s \in DOMAIN results THEN 0 ELSE failures[s]]

\* Wrong on purpose: a stream whose sibling is asked about loses its turn.
NotDeferred(count, waiting) == count

\* A stream whose sibling is asked about takes its turn at its next failure.
Deferred(count, waiting) == [s \in Streams |-> IF s \in waiting THEN 1 ELSE count[s]]

\* One stream of each camera with streams that just failed twice in a row.
Asks(suspects, asked) ==
  /\ \A s \in suspects : \E t \in asked : CameraOf[t] = CameraOf[s]
  /\ \A s, t \in asked : CameraOf[s] = CameraOf[t] => s = t

\* From the relay's answer to the choice of the streams to ask about, with the
\* clean-up of what is remembered of streams that are no longer sources. A
\* snapshot that ends while this runs is collected by the next cycle.
CycleObserve(views, lapsed, started) ==
  LET sources  == cycle.sources
      viewed   == Viewing(views)
      results  == Merged(viewed)
      count    == Counted(results)
      suspects == {s \in Failing(results) : count[s] = 2}
  IN  /\ cycle.step = "reading"
      /\ IsStart(started, Due(lapsed))
      /\ counted' = {s \in sources : views[s] \in {"still", "moving"}}
      /\ snapshots' = Running \cup
           {[stream |-> s, login |-> cycle.logins[CameraOf[s]], result |-> "running"] :
              s \in started}
      /\ attempted' = Stamped(Kept(attempted, sources), started)
      /\ retries' = (RetriesAfterCollect \ (started \cup Outweighed(viewed)))
                       \ (Timed(attempted) \ sources)
      /\ \E asked \in SUBSET suspects :
           /\ Asks(suspects, asked)
           /\ failures' = [s \in Streams |->
                             IF s \in sources THEN Deferred(count, suspects \ asked)[s]
                             ELSE 0]
           /\ examined' = {s \in examined : failures'[s] # 0} \cup asked
           /\ cycle' = [cycle EXCEPT !.step = "asking", !.results = results,
                                     !.asked = asked]
      /\ UNCHANGED <<row, settings, video>>

\* The cameras answer: some refuse the login that was read. Then the results
\* are recorded, as record_probe_results does.
CycleRecord(refused) ==
  /\ cycle.step = "asking"
  /\ refused \subseteq {s \in cycle.asked :
                          cycle.logins[CameraOf[s]] # accepted[CameraOf[s]]}
  /\ row' = RowsAfter([s \in DOMAIN cycle.results |->
                         IF s \in refused THEN "auth_failed" ELSE cycle.results[s]])
  /\ cycle' = NoCycle
  /\ UNCHANGED <<settings, video, memory, snapshots, examined>>

-----------------------------------------------------------------------------
(* Around the cycles. *)

\* snapshot_frame ends: with a frame, which takes video and a login that is
\* good; without, for that reason or on its deadline; or without a slot.
SnapshotEnds(s, result) ==
  \E p \in snapshots :
    /\ p.stream = s /\ p.result = "running"
    /\ result = "frame" => s \in video /\ Working(s)
    /\ snapshots' = (snapshots \ {p}) \cup {[p EXCEPT !.result = result]}
    /\ UNCHANGED <<row, settings, video, memory, examined, cycle>>

VideoChanges(s) ==
  /\ video' = IF s \in video THEN video \ {s} ELSE video \cup {s}
  /\ UNCHANGED <<row, settings, memory, snapshots, examined, cycle>>

\* AuthRetry's round, before a cycle: a refused stream works again.
RetrySucceeds(s) ==
  /\ cycle.step = "idle"
  /\ row[s].health = "auth_failed" /\ Working(s) /\ s \in Sources \cap video
  /\ row' = RowsAfter([t \in {s} |-> "ready"])
  /\ UNCHANGED <<settings, video, memory, snapshots, examined, cycle>>

\* reconcile_and_probe, under MEDIA_LOCK.
Reconcile(up) ==
  /\ cycle.step = "idle"
  /\ \A s \in up : Working(s) /\ s \in video
  /\ row' = RowsAfter(RelayAnswers(up))
  /\ UNCHANGED <<settings, video, memory, snapshots, examined, cycle>>

\* Requests, which validate new credentials and saved sources against the
\* streams themselves.
Operator(c) ==
  /\ \/ ReplaceCredentials(c) /\ StreamsOf(c) \subseteq video
     \/ SwitchOff(c)
     \/ \E answers \in [StreamsOf(c) -> Produced] :
          /\ \A s \in StreamsOf(c) : answers[s] = "ready" => s \in video
          /\ SwitchOn(c, answers)
     \/ \E l \in Logins : ChangePassword(c, l)
  /\ UNCHANGED <<video, memory, snapshots, examined, cycle>>

Observe(lapsed) ==
  /\ cycle.step = "reading"
  /\ \E views \in RuntimeViews : \E started \in SUBSET Due(lapsed) :
       CycleObserve(views, lapsed, started)

Results == {"frame", "busy", "failed"}

Next ==
  \/ CycleBegin \/ CycleFails
  \/ \E lapsed \in SUBSET Timed(attempted) : Observe(lapsed)
  \/ \E refused \in SUBSET cycle.asked : CycleRecord(refused)
  \/ \E s \in Streams :
       \/ \E result \in Results : SnapshotEnds(s, result)
       \/ VideoChanges(s) \/ RetrySucceeds(s)
  \/ \E up \in SUBSET Streams : Reconcile(up)
  \/ \E c \in Cameras : Operator(c)

\* The health loop goes on and the relay answers now and then; a snapshot has
\* a deadline, and one stream does not always find all slots taken; a
\* probe interval that has passed is still past when there is room again.
Fairness ==
  /\ WF_vars(CycleBegin)
  /\ WF_vars(\E refused \in SUBSET cycle.asked : CycleRecord(refused))
  /\ SF_vars(\E lapsed \in SUBSET Timed(attempted) : Observe(lapsed))
  /\ \A s \in Streams :
       /\ SF_vars(\E lapsed \in SUBSET Timed(attempted) :
                    s \in lapsed /\ Room(Running) > 0 /\ Observe(lapsed))
       /\ WF_vars(\E result \in Results : SnapshotEnds(s, result))
       /\ SF_vars(\E result \in {"frame", "failed"} : SnapshotEnds(s, result))

Spec == Init /\ [][Next]_vars
FairSpec == Spec /\ Fairness

-----------------------------------------------------------------------------
(* Properties. *)

\* "No unbounded executor queue": over all cycles no more snapshots are under
\* way than the pool has workers, and none twice for one stream.
PoolBounded ==
  /\ Cardinality(snapshots) <= Capacity
  /\ \A p, q \in snapshots : p.stream = q.stream => p = q

\* "let the sibling take its turn next cycle instead of missing its only
\* check": a stream that failed more than once in a row was asked about in
\* this run of failures, however its siblings failed meanwhile.
SuspectsAreAsked == \A s \in Streams : failures[s] >= 2 => s \in examined

\* An outage is noticed: a stream whose camera sends no video, or refuses the
\* login, is shown offline or refused after a while, unless that ends first.
OutageNoticed ==
  \A s \in Streams :
    LET noticed == row[s].health \in {"offline", "auth_failed"} \/ s \notin Sources
    IN  /\ s \notin video /\ Working(s) ~> noticed \/ s \in video \/ ~Working(s)
        /\ ~Working(s) ~> noticed \/ Working(s)

\* No stream is left out because others fail or are slow: one that stays a
\* source is sampled again and again.
EveryStreamSampled ==
  \A s \in Streams :
    s \in Sources ~> (\E p \in snapshots : p.stream = s) \/ s \notin Sources
                       \/ row[s].health = "auth_failed"

\* The comment in collect: "Unadopt, credential changes and address recovery
\* invalidate observations started against the previous source."
OldObservationsInvalid ==
  [][cycle.step = "asking" /\ cycle'.step = "idle" =>
       \A s \in DOMAIN cycle.results :
         row'[s] # row[s] => cycle.logins[CameraOf[s]] = login[CameraOf[s]]]_vars
=============================================================================
