------------------------------ MODULE AuthRetry ------------------------------
(***************************************************************************)
(* Automatic retries of a refused camera login: _retry_authentication of   *)
(* RelayHealthMonitor (src/camadmiral/media.py) and the table              *)
(* stream_auth_retries of CameraRepository (src/camadmiral/storage.py).    *)
(* A round of the health loop reads the schedule and the sources, then     *)
(* records what finished checks found and starts checks that are due. The  *)
(* checks run in a pool; operator requests take no lock the round holds.   *)
(***************************************************************************)
EXTENDS MonitoredCameras, TimeOrder

CONSTANT MaxRestarts   \* bound: restarts of the process

ASSUME AuthRetryAssumption == MaxRestarts \in Nat

VARIABLES
  schedule,  \* streams with a stream_auth_retries row
  due,       \* the order in which streams fell due: those whose next_attempt has passed
  checks,    \* _pending_auth: the checks started and not yet collected
  round,     \* the round under way: the sources it read
  restarts

retryVars == <<row, settings, schedule, due, checks, round, restarts>>

Check == [stream : Streams, login : Logins, result : {"running", "frame", "nothing"}]
NoRound == [step |-> "idle", logins |-> <<>>, sources |-> {}]

\* Type invariant: the due streams are scheduled ones, waiting one after the
\* other.
RetryTypeOK ==
  /\ CamerasTypeOK
  /\ schedule \in SUBSET Streams
  /\ Timed(due) \subseteq schedule /\ IsTimeOrder(due)
  /\ \A s, t \in Timed(due) : <<s, t>> \in due /\ <<t, s>> \in due => s = t
  /\ checks \in SUBSET Check
  /\ round \in {NoRound} \cup [step : {"read"}, logins : [Cameras -> Logins],
                               sources : SUBSET Streams]
  /\ restarts \in 0..MaxRestarts

\* A database written before the table existed may hold refused streams.
RetryInit ==
  /\ row \in [Streams -> {FreshRow, [health |-> "auth_failed", failures |-> 1]}]
  /\ CamerasInit
  /\ schedule = {} /\ due = {}
  /\ checks = {} /\ round = NoRound
  /\ restarts = 0

-----------------------------------------------------------------------------
Without(set) == Kept(due, Timed(due) \ set)

\* record_probe_results for the retry row of each stream it touches.
RecordRetries(results) ==
  LET ready   == {s \in DOMAIN results : results[s] = "ready"}
      refused == {s \in DOMAIN results : results[s] = "auth_failed"}
  IN  /\ schedule' = (schedule \ ready) \cup refused
      /\ due' = Without(ready)

\* Wrong on purpose: streams refused before the upgrade are not enrolled.
EnrolledSinceUpgrade == {s \in schedule : row[s].health = "auth_failed"}

\* auth_retry_schedule: rows of other streams go, missing ones come.
Enrolled == {s \in Streams : row[s].health = "auth_failed"}

\* The round reads the schedule, then the sources if there is work to do.
RoundBegin ==
  /\ round.step = "idle"
  /\ schedule' = Enrolled
  /\ due' = Without(Streams \ Enrolled)
  /\ round' = IF Enrolled = {} /\ checks = {} THEN NoRound
              ELSE [step |-> "read", logins |-> login,
                    sources |-> Enrolled \cap Sources]
  /\ UNCHANGED <<row, settings, checks, restarts>>

\* Wrong on purpose: a check that saw no video is recorded as unavailable.
ResultsOfAny(done) ==
  [s \in {c.stream : c \in done} |->
     IF \E c \in done : c.stream = s /\ c.result = "frame" THEN "ready" ELSE "unavailable"]

\* What collected checks say: only a decoded frame says anything.
ResultsOf(done) == [s \in {c.stream : c \in {d \in done : d.result = "frame"}} |-> "ready"]

\* Wrong on purpose: any check of a stream in the round counts.
ValidOfAnyLogin(done) == {c \in done : c.stream \in round.sources}

\* The checks whose source is still the one the round read.
Valid(done) ==
  {c \in done : c.stream \in round.sources /\ c.login = round.logins[CameraOf[c.stream]]}

\* Wrong on purpose: every due stream of a camera is checked at once.
TurnsOfStreams(waiting) == waiting

\* The first due stream of each camera that has no check running.
Turns(waiting) ==
  {s \in waiting : \A t \in waiting :
     CameraOf[t] = CameraOf[s] => <<s, t>> \in due}

\* The turns there is capacity for, those due longest first.
Startable(turns, running) ==
  {s \in turns : Cardinality({t \in turns : <<t, s>> \in due})
                   + Cardinality(running) <= Capacity}

\* The rest of the round: finished checks are collected, those whose source
\* is the one the round read are recorded, and due checks are claimed (which
\* pushes next_attempt back) and started.
RoundFinish ==
  LET done    == {c \in checks : c.result # "running"}
      results == ResultsOf(Valid(done))
      running == checks \ done
      busy    == {CameraOf[c.stream] : c \in running}
      waiting == {s \in (round.sources \cap Timed(due)) \ DOMAIN results :
                    CameraOf[s] \notin busy}
      started == Startable(Turns(waiting), running)
  IN  /\ round.step = "read"
      /\ row' = RowsAfter(results)
      /\ schedule' = schedule \ {s \in DOMAIN results : results[s] = "ready"}
      /\ due' = Without(started \cup DOMAIN results)
      /\ checks' = running \cup
           {[stream |-> s, login |-> round.logins[CameraOf[s]], result |-> "running"] :
              s \in started}
      /\ round' = NoRound
      /\ UNCHANGED <<settings, restarts>>

\* _validate_auth_video ends with a decoded frame, which takes a login the
\* camera accepts; or with none, for that reason, on a timeout or for want
\* of a snapshot slot.
CheckEnds(s, result) ==
  \E c \in checks :
    /\ c.stream = s /\ c.result = "running"
    /\ result = "frame" => c.login = accepted[CameraOf[s]]
    /\ checks' = (checks \ {c}) \cup {[c EXCEPT !.result = result]}
    /\ UNCHANGED <<row, settings, schedule, due, round, restarts>>

\* The retry delay of a stream runs out.
Elapse(s) ==
  /\ s \in schedule \ Timed(due)
  /\ due' = Stamped(due, {s})
  /\ UNCHANGED <<row, settings, schedule, checks, round, restarts>>

-----------------------------------------------------------------------------
(* What else changes the health of a stream. The health loop and the relay *)
(* reconciliation hold MEDIA_LOCK, so they run between rounds.             *)

\* The rest of a health cycle, which leaves refused streams out.
ObserveStream(s, status) ==
  /\ round.step = "idle"
  /\ s \in Sources /\ row[s].health # "auth_failed"
  /\ status = "ready" => Working(s)
  /\ status = "auth_failed" => ~Working(s)
  /\ row' = RowsAfter([t \in {s} |-> status])
  /\ RecordRetries([t \in {s} |-> status])
  /\ UNCHANGED <<settings, checks, round, restarts>>

\* reconcile_and_probe.
ReconcileRelay(up) ==
  /\ round.step = "idle"
  /\ \A s \in up : Working(s)
  /\ row' = RowsAfter(RelayAnswers(up))
  /\ RecordRetries(RelayAnswers(up))
  /\ UNCHANGED <<settings, checks, round, restarts>>

Enable(c, answers) ==
  /\ SwitchOn(c, answers)
  /\ RecordRetries(answers)
  /\ UNCHANGED <<checks, round, restarts>>

\* Nothing else touches the schedule or the pool.
Elsewhere(c) ==
  /\ \/ ReplaceCredentials(c)
     \/ SwitchOff(c)
     \/ \E l \in Logins : ChangePassword(c, l)
  /\ UNCHANGED <<schedule, due, checks, round, restarts>>

\* The schedule survives, the pool does not.
Restart ==
  /\ restarts < MaxRestarts
  /\ restarts' = restarts + 1
  /\ checks' = {} /\ round' = NoRound
  /\ UNCHANGED <<row, settings, schedule, due>>

RetryNext ==
  \/ RoundBegin \/ RoundFinish
  \/ \E s \in Streams : \E result \in {"frame", "nothing"} : CheckEnds(s, result)
  \/ \E s \in Streams : Elapse(s)
  \/ \E s \in Streams : \E status \in Produced : ObserveStream(s, status)
  \/ \E up \in SUBSET Streams : ReconcileRelay(up)
  \/ \E c \in Cameras : Elsewhere(c)
  \/ \E c \in Cameras : \E answers \in [StreamsOf(c) -> Produced] : Enable(c, answers)
  \/ Restart

\* The health loop repeats its rounds, a check ends (it has a deadline), a
\* delay runs out, and a check that could decode a frame is not for ever
\* the one that finds no free slot.
RetryFairness ==
  /\ WF_retryVars(RoundBegin) /\ WF_retryVars(RoundFinish)
  /\ \A s \in Streams :
       /\ WF_retryVars(\E result \in {"frame", "nothing"} : CheckEnds(s, result))
       /\ SF_retryVars(CheckEnds(s, "frame"))
       /\ WF_retryVars(Elapse(s))

RetrySpec == RetryInit /\ [][RetryNext]_retryVars
FairRetrySpec == RetrySpec /\ RetryFairness

-----------------------------------------------------------------------------
(* Properties. *)

\* "Recovery checks are bounded and run one at a time per camera": over all
\* rounds, for the checks started in earlier rounds and in this one.
ChecksBounded ==
  /\ Cardinality(checks) <= Capacity
  /\ \A c, d \in checks : CameraOf[c.stream] = CameraOf[d.stream] => c = d

\* A refusal is not forgotten by a retry that saw nothing: whatever the
\* operator, the camera and the other loops did since the round began, its end
\* takes a stream out of auth_failed only with a decoded frame of that stream.
RefusalKeptByRetries ==
  [][round.step = "read" /\ round'.step = "idle" =>
       \A s \in Streams :
         row[s].health = "auth_failed" /\ row'[s].health # "auth_failed" =>
           \E c \in checks \ checks' : c.stream = s /\ c.result = "frame"]_retryVars

\* A refused stream does not stay refused once its login is good: after any
\* mix of failed checks, restarts and a full pool it is checked again and
\* leaves auth_failed, unless it is disabled or refused anew.
RefusalEnds ==
  \A s \in Streams :
    row[s].health = "auth_failed" ~>
      (row[s].health # "auth_failed" \/ ~Working(s) \/ CameraOf[s] \notin on)

\* README.md: "a decoded video frame is required before clearing the error"
\* (or new credentials, or disabling the camera).
ClearedByFrame ==
  [][\A s \in Sources :
       row[s].health = "auth_failed" /\ row'[s].health # "auth_failed" =>
         \/ row'[s] = FreshRow
         \/ \E c \in checks \ checks' : c.stream = s /\ c.result = "frame"]_retryVars

\* "Credential edits ... invalidate old work": a check started with one login
\* never makes a stream healthy that was refused with a later one, however
\* late its answer; what is left is the login replaced within the round.
OldWorkInvalid ==
  [][round.step = "read" /\ round'.step = "idle" =>
       \A s \in Streams :
         /\ round.logins[CameraOf[s]] = login[CameraOf[s]]
         /\ row[s].health # "healthy" /\ row'[s].health = "healthy"
         => \E c \in checks : c.stream = s /\ c.login = login[CameraOf[s]]]_retryVars
=============================================================================
