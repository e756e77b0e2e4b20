--------------------------- MODULE AddressRecovery ---------------------------
(***************************************************************************)
(* Cameras that change address: recover_inventory_addresses                *)
(* (src/camadmiral/recovery.py), the relay updates of                      *)
(* src/camadmiral/media.py, the revisions and addresses kept by            *)
(* CameraRepository (src/camadmiral/storage.py), and the loops and         *)
(* requests of src/camadmiral/app.py that run them. MEDIA_LOCK allows one  *)
(* job at a time; requests write their part of the database without it     *)
(* and then wait for it to reconcile the relay.                            *)
(***************************************************************************)
EXTENDS Naturals, FiniteSets

CONSTANTS
  Cameras,      \* discovered cameras, adopted or not
  Hosts,        \* addresses
  Nowhere,      \* no address: off the network, not adopted, no stream
  MaxMoves,     \* bound: how often cameras change their address
  MaxFaults,    \* bound: failures of the relay, and restarts
  MaxRequests   \* bound: operator requests

ASSUME RecoveryAssumption ==
  /\ Nowhere \notin Hosts
  /\ MaxMoves \in Nat /\ MaxFaults \in Nat /\ MaxRequests \in Nat

Places == Hosts \cup {Nowhere}
Everywhere == [Cameras -> Places]

VARIABLES
  where,     \* where each camera is (external)
  seen,      \* address of its candidate in the inventory file: Nowhere when it
             \* is offline, in conflict or has no stable identity
  saved,     \* host of the sources of each adopted camera (onvif_profiles)
  on,        \* adopted cameras that are enabled
  incident,  \* cameras with an open camera_address_changed incident
  known,     \* the address an adoption or a camera_address_events row gave last
  period,    \* address of the current camera_identity_periods row
  resting,   \* ATTEMPTED_AT: the attempts whose retry interval has not passed
  config,    \* go2rtc's configuration file: the host of each stream
  runtime,   \* the streams go2rtc has: what it read at its start, then changes
  revision,  \* the latest media_config_revisions row
  job,       \* what the holder of MEDIA_LOCK is doing
  pending,   \* a request waits for MEDIA_LOCK to reconcile the relay
  enabling,  \* the cameras such requests enable
  broken,    \* ghost: a relay call failed since the relay was last reconciled
  crossed,   \* ghost: adopted again while recovery was moving it
  budget     \* what is left of the bounds

database == <<saved, on, incident, known, period, revision>>
relay == <<config, runtime>>
ghosts == <<broken, crossed>>
requests == <<pending, enabling>>
vars == <<where, seen, database, resting, relay, job, requests, ghosts, budget>>

Plan == [camera : Cameras, from : Hosts, to : Hosts]
Steps == {"idle", "moving", "replace", "probe", "commit", "failing", "rollback",
          "drift", "apply", "restart"}
NoJob == [kind |-> "none", step |-> "idle", plans |-> {}, moved |-> {}, gone |-> {},
          sources |-> [c \in Cameras |-> Nowhere], taken |-> FALSE, fresh |-> FALSE,
          enabling |-> {}]
Jobs ==
  [kind : {"none", "recovery", "reconcile", "settings"}, step : Steps,
   plans : SUBSET Plan, moved : SUBSET Plan, gone : SUBSET Cameras,
   sources : Everywhere, taken : BOOLEAN, fresh : BOOLEAN, enabling : SUBSET Cameras]

\* Type invariant: sources are enabled only for adopted cameras.
TypeOK ==
  /\ where \in Everywhere /\ seen \in Everywhere
  /\ saved \in Everywhere /\ known \in Everywhere /\ period \in Everywhere
  /\ config \in Everywhere /\ runtime \in Everywhere
  /\ on \in SUBSET {c \in Cameras : saved[c] # Nowhere}
  /\ incident \in SUBSET {c \in Cameras : saved[c] # Nowhere}
  /\ resting \in SUBSET (Cameras \X Hosts)
  /\ revision \in [sources : Everywhere, status : {"desired", "applied", "failed"}]
  /\ job \in Jobs
  /\ pending \in BOOLEAN /\ enabling \in SUBSET Cameras
  /\ broken \in BOOLEAN /\ crossed \in SUBSET Cameras
  /\ budget \in [moves : 0..MaxMoves, faults : 0..MaxFaults, requests : 0..MaxRequests]

\* The cameras are adopted and at home, and those that are enabled are served.
Init ==
  /\ where \in [Cameras -> Hosts] /\ \A c, d \in Cameras : where[c] = where[d] => c = d
  /\ seen = where /\ saved = where /\ known = where /\ period = where
  /\ on \in SUBSET Cameras /\ incident = {} /\ resting = {}
  /\ config = [c \in Cameras |-> IF c \in on THEN where[c] ELSE Nowhere] /\ runtime = config
  /\ revision = [sources |-> config, status |-> "applied"]
  /\ job = NoJob /\ pending = FALSE /\ enabling = {} /\ broken = FALSE /\ crossed = {}
  /\ budget = [moves |-> MaxMoves, faults |-> MaxFaults, requests |-> MaxRequests]

-----------------------------------------------------------------------------
(* The parts the jobs are made of. *)

\* managed_stream_sources.
Desired == [c \in Cameras |-> IF c \in on THEN saved[c] ELSE Nowhere]

\* Something at this address lets the login in and has the profiles: nothing
\* else is checked of it, so it may be another camera of the same kind.
Answers(h) == \E d \in Cameras : where[d] = h

PlannedCameras == {p.camera : p \in job.plans}
MovedCameras == {p.camera : p \in job.moved}

Spend(what) == budget[what] > 0 /\ budget' = [budget EXCEPT ![what] = @ - 1]

\* record_desired_media_revision: the latest row is taken up again when it has
\* the same sources and did not fail.
Reused(sources) == revision.sources = sources /\ revision.status # "failed"

RecordDesired(sources) ==
  revision' = IF Reused(sources) THEN revision
              ELSE [sources |-> sources, status |-> "desired"]

\* Is the recorded row one to complete?
Fresh(sources) == ~Reused(sources) \/ revision.status = "desired"

\* complete_media_revision: only a desired row changes.
Complete(status) ==
  revision' = IF revision.status = "desired" THEN [revision EXCEPT !.status = status]
              ELSE revision

\* replace_streams: the hosts of some cameras are written into the file, the
\* relay is restarted and reads it. It may be away, refuse the restart, or not
\* be back in time.
ReplaceOutcomes == {"done", "away", "refused", "late"}

Replace(sources, cameras, outcome) ==
  LET written == {c \in cameras : sources[c] # Nowhere}
      file    == [c \in Cameras |-> IF c \in written THEN sources[c] ELSE config[c]]
  IN  /\ outcome \in {"refused", "late"} => written # {}
      /\ config' = IF outcome = "away" THEN config ELSE file
      /\ runtime' = IF outcome \in {"away", "refused"} \/ written = {} THEN runtime
                    ELSE file
      /\ broken' = (broken \/ outcome # "done")
      /\ IF outcome = "done" THEN UNCHANGED budget ELSE Spend("faults")

-----------------------------------------------------------------------------
(* recover_inventory_addresses *)

\* Wrong on purpose: a move that failed once is not tried again.
DisplacedOnce ==
  {c \in on \ incident : seen[c] \notin {Nowhere, saved[c]} /\ <<c, seen[c]>> \notin resting}

\* Enabled cameras seen at another address than the one of their sources, and
\* not tried there a moment ago.
Displaced ==
  {c \in on : seen[c] \notin {Nowhere, saved[c]} /\ <<c, seen[c]>> \notin resting}

\* Attempts forgotten because their camera is gone or back.
Forgotten(c) == saved[c] = Nowhere \/ (c \in on /\ seen[c] = saved[c])

\* The loop takes the lock if it is free, reads adoptions and inventory, and
\* validates the new address of each displaced camera.
RecoveryBegin(valid) ==
  /\ job.kind = "none"
  /\ valid \subseteq {c \in Displaced : Answers(seen[c])}
  /\ resting' = {a \in resting : ~Forgotten(a[1])} \cup {<<c, seen[c]>> : c \in Displaced}
  /\ job' = [NoJob EXCEPT !.kind = "recovery",
                          !.step = IF valid = {} THEN "drift" ELSE "moving",
                          !.plans = {[camera |-> c, from |-> saved[c], to |-> seen[c]] :
                                       c \in valid}]
  /\ UNCHANGED <<where, seen, database, relay, requests, ghosts, budget>>

\* A plan's incident is opened and its sources take the new host, unless the
\* camera was unadopted meanwhile: both statements fail then.
MoveSources(p) ==
  /\ job.step = "moving" /\ p \in job.plans \ job.moved
  /\ IF p.camera \in job.gone
     THEN job' = [job EXCEPT !.step = "failing"] /\ UNCHANGED <<saved, incident>>
     ELSE /\ saved' = [saved EXCEPT ![p.camera] = p.to]
          /\ incident' = incident \cup {p.camera}
          /\ job' = [job EXCEPT !.moved = @ \cup {p}]
  /\ UNCHANGED <<where, seen, on, known, period, revision, resting, relay, requests,
                 ghosts, budget>>

\* All sources are read and recorded as the revision to apply.
TakeRevision ==
  /\ job.step = "moving" /\ job.moved = job.plans
  /\ RecordDesired(Desired)
  /\ job' = [job EXCEPT !.step = "replace", !.sources = Desired, !.taken = TRUE,
                          !.fresh = Fresh(Desired)]
  /\ UNCHANGED <<where, seen, saved, on, incident, known, period, resting, relay,
                 requests, ghosts, budget>>

ReplaceMoved(outcome) ==
  /\ job.step = "replace" /\ job.kind = "recovery"
  /\ Replace(job.sources, PlannedCameras, outcome)
  /\ job' = [job EXCEPT !.step = IF outcome = "done" THEN "probe" ELSE "failing"]
  /\ UNCHANGED <<where, seen, database, resting, requests, crossed>>

\* The relay has to serve every recovered stream.
Served ==
  \A c \in PlannedCameras :
    job.sources[c] # Nowhere => runtime[c] # Nowhere /\ Answers(runtime[c])

AfterProbe ==
  /\ job.step = "probe"
  /\ job' = [job EXCEPT !.step = IF Served THEN "commit" ELSE "failing"]
  /\ UNCHANGED <<where, seen, saved, on, incident, known, period, resting, relay,
                 requests, ghosts, budget>>

\* Wrong on purpose: the revision is completed before the probe.
ProbeMovedLate == AfterProbe /\ IF job.fresh THEN Complete("applied") ELSE UNCHANGED revision

ProbeMoved ==
  /\ AfterProbe
  /\ IF Served /\ job.fresh THEN Complete("applied") ELSE UNCHANGED revision

\* Wrong on purpose: the first plan that is recorded closes every incident.
CommitClosingAll(p) ==
  /\ job.step = "commit" /\ p \in job.plans
  /\ p.camera \notin job.gone
  /\ known' = [known EXCEPT ![p.camera] = p.to]
  /\ period' = [period EXCEPT ![p.camera] = p.to]
  /\ incident' = incident \ PlannedCameras
  /\ job' = [job EXCEPT !.plans = @ \ {p}, !.moved = @ \ {p},
                        !.step = IF job.plans = {p} THEN "drift" ELSE "commit"]
  /\ UNCHANGED <<where, seen, saved, on, revision, resting, relay, requests, ghosts, budget>>

\* A plan is recorded: event, identity period, incident, attempts. An
\* unadopted camera makes this fail, and the plans after it go unrecorded.
Commit(p) ==
  /\ job.step = "commit" /\ p \in job.plans
  /\ IF p.camera \in job.gone
     THEN job' = [job EXCEPT !.step = "drift"]
          /\ UNCHANGED <<known, period, incident, resting>>
     ELSE /\ known' = [known EXCEPT ![p.camera] = p.to]
          /\ period' = [period EXCEPT ![p.camera] = p.to]
          /\ incident' = incident \ {p.camera}
          /\ resting' = {a \in resting : a[1] # p.camera}
          /\ job' = [job EXCEPT !.plans = @ \ {p}, !.moved = @ \ {p},
                                !.step = IF job.plans = {p} THEN "drift" ELSE "commit"]
  /\ UNCHANGED <<where, seen, saved, on, revision, relay, requests, ghosts, budget>>

\* The revision fails, if one was recorded.
FailRevision ==
  /\ job.step = "failing"
  /\ IF job.fresh THEN Complete("failed") ELSE UNCHANGED revision
  /\ job' = [job EXCEPT !.step = "rollback"]
  /\ UNCHANGED <<where, seen, saved, on, incident, known, period, resting, relay,
                 requests, ghosts, budget>>

\* The sources of a moved camera get back the host they had when the plan was
\* made; for an unadopted one this fails and ends the rollback.
Rollback(p) ==
  /\ job.step = "rollback" /\ p \in job.moved
  /\ IF p.camera \in job.gone
     THEN job' = [job EXCEPT !.step = "drift"] /\ UNCHANGED saved
     ELSE /\ saved' = [saved EXCEPT ![p.camera] = p.from]
          /\ job' = [job EXCEPT !.moved = @ \ {p}]
  /\ UNCHANGED <<where, seen, on, incident, known, period, revision, resting, relay,
                 requests, ghosts, budget>>

\* Wrong on purpose: only the database is rolled back.
RollbackOfSources(outcome) ==
  /\ job.step = "rollback" /\ job.moved = {} /\ outcome = "done"
  /\ job' = [job EXCEPT !.step = "drift"]
  /\ UNCHANGED <<where, seen, database, resting, relay, requests, ghosts, budget>>

\* With the sources back, the relay gets them back too, if it was asked for
\* anything before; a failure of this is ignored.
RollbackDone(outcome) ==
  /\ job.step = "rollback" /\ job.moved = {}
  /\ IF job.taken THEN Replace(Desired, PlannedCameras, outcome)
     ELSE outcome = "done" /\ UNCHANGED <<relay, broken, budget>>
  /\ job' = [job EXCEPT !.step = "drift"]
  /\ UNCHANGED <<where, seen, database, resting, requests, crossed>>

-----------------------------------------------------------------------------
(* Reconciliation and the other holders of the lock. *)

Take(kind, step, cameras) ==
  /\ RecordDesired(Desired)
  /\ job' = [NoJob EXCEPT !.kind = kind, !.step = step, !.sources = Desired,
                          !.taken = TRUE, !.fresh = Fresh(Desired), !.enabling = cameras]
  /\ UNCHANGED <<where, seen, saved, on, incident, known, period, resting, relay, ghosts>>

\* reconcile_runtime_drift, which ends the loop's turn: the names of the
\* relay's streams are compared with those of the desired ones.
Names(streams) == {c \in Cameras : streams[c] # Nowhere}

\* Wrong on purpose: only missing streams count as drift.
DriftedMissing == ~ Names(Desired) \subseteq Names(runtime)

Drifted == Names(runtime) # Names(Desired)

DriftCheck ==
  /\ job.step = "drift"
  /\ IF Drifted THEN Take("reconcile", "apply", {})
     ELSE job' = NoJob /\ UNCHANGED <<where, seen, database, resting, relay, ghosts>>
  /\ UNCHANGED <<requests, budget>>

\* A request that changed the database gets the lock.
ReconcileBegin ==
  /\ job.kind = "none" /\ pending
  /\ pending' = FALSE /\ enabling' = {}
  /\ Take("reconcile", "apply", enabling)
  /\ UNCHANGED budget

\* reconcile_streams: streams are deleted and put one after the other, in the
\* relay and in its file, until one call fails; done are those before it. A
\* camera whose enabling fails is disabled again, and the relay reconciled.
Apply(done) ==
  LET mixed(streams) == [c \in Cameras |-> IF c \in done THEN job.sources[c] ELSE streams[c]]
      complete == done = Cameras
  IN  /\ job.step = "apply"
      /\ config' = mixed(config) /\ runtime' = mixed(runtime)
      /\ broken' = ~complete
      /\ IF complete THEN UNCHANGED budget ELSE Spend("faults")
      /\ job' = IF complete /\ job.kind = "settings" THEN [job EXCEPT !.step = "restart"]
                ELSE NoJob
      /\ IF job.kind = "settings" \/ ~job.fresh THEN UNCHANGED revision
         ELSE Complete(IF complete THEN "applied" ELSE "failed")
      /\ on' = IF complete THEN on ELSE on \ job.enabling
      /\ pending' = (pending \/ (~complete /\ job.enabling # {}))
      /\ UNCHANGED <<where, seen, saved, incident, known, period, resting, enabling, crossed>>

\* set_camera_stream_settings reconciles and restarts the relay under the lock;
\* a failure leaves its revision desired.
SettingsBegin ==
  /\ job.kind = "none" /\ on # {}
  /\ Spend("requests")
  /\ Take("settings", "apply", {})
  /\ UNCHANGED requests

SettingsRestart(outcome) ==
  /\ job.step = "restart"
  /\ Replace(job.sources, Cameras, outcome)
  /\ IF outcome = "done" THEN Complete("applied") ELSE UNCHANGED revision
  /\ job' = NoJob
  /\ UNCHANGED <<where, seen, saved, on, incident, known, period, resting, requests,
                 crossed>>

\* _observe_inventory_identities: cameras seen where their sources point.
ObserveIdentities ==
  /\ job.kind = "none"
  /\ period' = [c \in Cameras |-> IF saved[c] # Nowhere /\ seen[c] = saved[c]
                                  THEN seen[c] ELSE period[c]]
  /\ UNCHANGED <<where, seen, saved, on, incident, known, revision, resting, relay, job,
                 requests, ghosts, budget>>

-----------------------------------------------------------------------------
(* Requests, which do not take the lock for the database, and the cameras. *)

InRecovery(c) == job.kind = "recovery" /\ c \in PlannedCameras

\* Adopting, again or for the first time, checks the sources at the address
\* the camera is seen at.
Adopt(c) ==
  /\ Spend("requests")
  /\ seen[c] # Nowhere /\ Answers(seen[c])
  /\ saved' = [saved EXCEPT ![c] = seen[c]]
  /\ known' = [known EXCEPT ![c] = seen[c]]
  /\ period' = [period EXCEPT ![c] = seen[c]]
  /\ on' = IF saved[c] = Nowhere THEN on \cup {c} ELSE on
  /\ pending' = TRUE
  /\ crossed' = IF InRecovery(c) THEN crossed \cup {c} ELSE crossed \ {c}
  /\ UNCHANGED <<where, seen, incident, revision, resting, relay, job, enabling, broken>>

Unadopt(c) ==
  /\ Spend("requests")
  /\ saved[c] # Nowhere
  /\ saved' = [saved EXCEPT ![c] = Nowhere]
  /\ known' = [known EXCEPT ![c] = Nowhere]
  /\ period' = [period EXCEPT ![c] = Nowhere]
  /\ on' = on \ {c} /\ incident' = incident \ {c} /\ crossed' = crossed \ {c}
  /\ job' = IF InRecovery(c) THEN [job EXCEPT !.gone = @ \cup {c}] ELSE job
  /\ pending' = TRUE
  /\ UNCHANGED <<where, seen, revision, resting, relay, enabling, broken>>

SetEnabled(c) ==
  /\ Spend("requests")
  /\ saved[c] # Nowhere
  /\ on' = IF c \in on THEN on \ {c} ELSE on \cup {c}
  /\ c \notin on => Answers(saved[c])
  /\ enabling' = IF c \in on THEN enabling ELSE enabling \cup {c}
  /\ pending' = TRUE
  /\ UNCHANGED <<where, seen, saved, incident, known, period, revision, resting, relay,
                 job, ghosts>>

Elapse(a) ==
  /\ a \in resting /\ resting' = resting \ {a}
  /\ UNCHANGED <<where, seen, database, relay, job, requests, ghosts, budget>>

\* A scan finds the camera, or does not.
Scan(c) ==
  /\ seen' = [seen EXCEPT ![c] = where[c]]
  /\ UNCHANGED <<where, database, resting, relay, job, requests, ghosts, budget>>

Relocate(c, place) ==
  /\ Spend("moves")
  /\ place # where[c] /\ (place # Nowhere => ~Answers(place))
  /\ where' = [where EXCEPT ![c] = place]
  /\ UNCHANGED <<seen, database, resting, relay, job, requests, ghosts>>

\* The service is stopped and started: every process of it is new, go2rtc's
\* file too.
Restart ==
  /\ Spend("faults")
  /\ config' = [c \in Cameras |-> Nowhere] /\ runtime' = config'
  /\ job' = NoJob /\ pending' = TRUE /\ enabling' = {} /\ resting' = {} /\ broken' = FALSE
  /\ UNCHANGED <<where, seen, database, crossed>>

\* go2rtc alone ends and is started again by the supervisor.
RelayRestart ==
  /\ Spend("faults")
  /\ runtime' = config
  /\ UNCHANGED <<where, seen, database, resting, config, job, requests, ghosts>>

-----------------------------------------------------------------------------
JobStep ==
  \/ \E p \in job.plans : MoveSources(p) \/ Commit(p)
  \/ \E p \in job.moved : Rollback(p)
  \/ TakeRevision \/ ProbeMoved \/ FailRevision \/ DriftCheck
  \/ \E outcome \in ReplaceOutcomes :
       ReplaceMoved(outcome) \/ RollbackDone(outcome) \/ SettingsRestart(outcome)
  \/ \E done \in SUBSET Cameras : Apply(done)

Turn == \E valid \in SUBSET Displaced : RecoveryBegin(valid)

Next ==
  \/ JobStep \/ Turn \/ ReconcileBegin \/ SettingsBegin \/ ObserveIdentities
  \/ \E c \in Cameras :
       \/ Adopt(c) \/ Unadopt(c) \/ SetEnabled(c) \/ Scan(c)
       \/ \E place \in Places : Relocate(c, place)
  \/ \E a \in resting : Elapse(a)
  \/ Restart \/ RelayRestart

\* The loops go on, a request that waits for the lock gets it, scans follow
\* one another, retry intervals pass, and a camera that is where it was seen
\* does not fail its validation every time.
Fairness ==
  /\ WF_vars(JobStep) /\ SF_vars(Turn)
  /\ SF_vars(ReconcileBegin) /\ SF_vars(ObserveIdentities)
  /\ \A c \in Cameras :
       /\ SF_vars(\E valid \in SUBSET Displaced : c \in valid /\ RecoveryBegin(valid))
       /\ WF_vars(Scan(c))
       /\ WF_vars(\E a \in resting : a[1] = c /\ Elapse(a))

Spec == Init /\ [][Next]_vars
FairSpec == Spec /\ Fairness

-----------------------------------------------------------------------------
(* Properties. *)

\* No camera moves without a trace: sources that point elsewhere than the last
\* recorded adoption or move have an open address incident, whatever failed,
\* restarted or was removed meanwhile.
MovesAreExplained ==
  \A c \in Cameras \ crossed :
    saved[c] \notin {Nowhere, known[c]} => c \in incident

AtRest == job.kind = "none" /\ ~pending /\ ~broken

\* When nothing is under way and no call of the relay failed, it serves every
\* camera from the address its sources have, after rollbacks too.
RelayServesSaved ==
  AtRest => \A c \in Names(runtime) \cap on : runtime[c] = saved[c]

\* Then a revision marked applied is what the relay has.
AppliedIsServed == AtRest /\ revision.status = "applied" => runtime = revision.sources

\* A camera that stays where it is gets found there: its sources and its
\* identity history follow, whatever failed or restarted in between.
CameraIsFollowed ==
  \A c \in Cameras :
    c \in on /\ where[c] # Nowhere
      ~> (saved[c] = where[c] /\ period[c] = where[c]) \/ (c \notin on \/ where[c] = Nowhere)

\* The relay ends up with the streams of the enabled cameras and no others.
RelayFollowsRequests == Names(runtime) # on ~> Names(runtime) = on

\* README.md:99: "It automatically recognizes the camera at its new address,
\* reconnects its streams": the relay reads a camera that stays where it is
\* from there.
StreamsReconnect ==
  \A c \in Cameras :
    c \in on /\ where[c] # Nowhere
      ~> runtime[c] = where[c] \/ c \notin on \/ where[c] = Nowhere
=============================================================================
