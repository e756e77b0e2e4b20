------------------------------ MODULE FrigateSync ------------------------------
(***************************************************************************)
(* Synchronisation of selected cameras to one Frigate instance             *)
(* (src/camadmiral/frigate.py): the reconcile loop and the per-camera      *)
(* jobs, repair sync, removal of a camera and of the integration. They     *)
(* exclude each other through FRIGATE_LOCK; operators change selections,   *)
(* camera settings and Frigate itself meanwhile. A write to Frigate may    *)
(* succeed, fail, or take effect with its answer lost.                     *)
(***************************************************************************)
EXTENDS Naturals, FiniteSets

CONSTANTS
  Cameras,      \* adopted cameras; each has one key and two aliases in Frigate
  MaxVersion,   \* bound: versions of what CamAdmiral wants of a camera
  SecondIsCold, \* Frigate 0.17: a second camera is captured only after a restart
  MaxFaults,    \* bound: failed or lost writes, crashes of CamAdmiral
  MaxRequests   \* bound: operator actions, in CamAdmiral or in Frigate

ASSUME SyncAssumption ==
  /\ IsFiniteSet(Cameras)
  /\ MaxVersion \in Nat \ {0} /\ MaxFaults \in Nat /\ MaxRequests \in Nat
  /\ SecondIsCold \in BOOLEAN

VARIABLES
  adopted,   \* cameras CamAdmiral has
  selected,  \* frigate_camera_selections
  enabled,   \* cameras.enabled
  wanted,    \* the version of the configuration desired_camera gives
  conflict,  \* selections whose sync_error is a resource conflict
  binding,   \* frigate_bindings: status, desired and applied version, camera_enabled_applied
  marker,    \* frigate_retired_cameras: the recording setting to restore; {} is no row
  queued,    \* FRIGATE_CAMERA_JOBS: cameras with a synchronisation job of their own
  job,       \* the holder of FRIGATE_LOCK and what it has read
  entry,     \* Frigate: the camera's entry, version 0 if there is none (external)
  alias,     \* Frigate: version of the camera's go2rtc aliases, 0 if there are none
  workers,   \* Frigate: sets of capture processes of the camera
  starting,  \* Frigate: published additions it has not acted on yet
  choice,    \* ghost: the recording setting the operator chose last
  crossed,   \* ghost: cameras for which it was chosen while a marker existed
  mine,      \* ghost: entries this integration made, or took back after it had retired them
  budget     \* what is left of the bounds

database == <<adopted, selected, enabled, wanted, conflict, binding, marker>>
process == <<queued, job>>
frigate == <<entry, alias, workers, starting>>
ghosts == <<choice, crossed, mine>>
vars == <<database, process, frigate, ghosts, budget>>

Versions == 1..MaxVersion
Unbound == [status |-> "none", desired |-> 0, applied |-> 0, on |-> TRUE]
Absent == [version |-> 0, on |-> FALSE, record |-> FALSE]
Unseen == [version |-> 0, on |-> FALSE, alias |-> 0, running |-> FALSE]
Idle == [op |-> "none", step |-> "none", scope |-> {}, at |-> {}, todo |-> {},
         dropped |-> {}, aliases |-> {}, plan |-> [c \in Cameras |-> 0], restart |-> TRUE,
         second |-> FALSE, view |-> [c \in Cameras |-> Unseen]]
Operations == {"none", "pass", "camera", "repair", "remove", "unadopt"}
JobSteps == {"none", "remember", "recordOff", "turnOff", "aliases", "deselect", "unbind",
             "choose", "disable", "await", "camera", "enable", "streams", "restart", "verify",
             "forget"}

Bound(c) == binding[c].status # "none"
Exists(c) == entry[c].version # 0

Bindings == [status : {"none", "pending", "applied", "error"},
             desired : 0..MaxVersion, applied : 0..MaxVersion, on : BOOLEAN]
Entries == [version : 0..MaxVersion, on : BOOLEAN, record : BOOLEAN]
Views == [Cameras -> [version : 0..MaxVersion, on : BOOLEAN, alias : 0..MaxVersion,
                      running : BOOLEAN]]
Jobs == [op : Operations, step : JobSteps, scope : SUBSET Cameras, at : SUBSET Cameras,
         todo : SUBSET Cameras, dropped : SUBSET Cameras, aliases : SUBSET Cameras,
         plan : [Cameras -> 0..MaxVersion], restart : BOOLEAN, second : BOOLEAN,
         view : Views]

\* Type invariant: only adopted cameras are selected, only selections have errors.
TypeOK ==
  /\ adopted \subseteq Cameras /\ selected \subseteq adopted /\ enabled \subseteq Cameras
  /\ conflict \subseteq selected /\ queued \subseteq Cameras
  /\ wanted \in [Cameras -> Versions]
  /\ binding \in [Cameras -> Bindings] /\ marker \in [Cameras -> SUBSET BOOLEAN]
  /\ job \in Jobs /\ entry \in [Cameras -> Entries]
  /\ alias \in [Cameras -> 0..MaxVersion] /\ workers \in [Cameras -> Nat]
  /\ starting \in [Cameras -> Nat] /\ crossed \subseteq Cameras /\ mine \subseteq Cameras
  /\ choice \in [Cameras -> BOOLEAN]
  /\ budget \in [faults : 0..MaxFaults, requests : 0..MaxRequests]

Init ==
  /\ adopted = Cameras /\ selected = {} /\ enabled = Cameras
  /\ wanted = [c \in Cameras |-> 1] /\ conflict = {}
  /\ binding = [c \in Cameras |-> Unbound] /\ marker = [c \in Cameras |-> {}]
  /\ queued = {} /\ job = Idle
  /\ entry = [c \in Cameras |-> Absent] /\ alias = [c \in Cameras |-> 0]
  /\ workers = [c \in Cameras |-> 0] /\ starting = [c \in Cameras |-> 0]
  /\ choice = [c \in Cameras |-> TRUE] /\ crossed = {} /\ mine = {}
  /\ budget \in [faults : 0..MaxFaults, requests : 0..MaxRequests]

-----------------------------------------------------------------------------
(* Frigate. *)

Spend(what) == budget[what] > 0 /\ budget' = [budget EXCEPT ![what] = @ - 1]

\* A write works, or the client sees an error: the write was refused, or only
\* its answer was lost.
Outcomes == {"ok", "lost", "refused"}
Costs(out) == IF out = "ok" THEN UNCHANGED budget ELSE Spend("faults")

\* The processes start with one set of workers for every entry that is on.
Restarted ==
  /\ workers' = [c \in Cameras |-> IF Exists(c) /\ entry[c].on THEN 1 ELSE 0]
  /\ starting' = [c \in Cameras |-> 0]

\* A second camera that Frigate does not capture before it is restarted.
IsCold(c) ==
  /\ SecondIsCold /\ ~Exists(c)
  /\ Cardinality({d \in Cameras : Exists(d)}) = 1

\* What the add topic does, without looking at workers that run or start already.
Publish(c) ==
  starting' = IF IsCold(c) THEN starting ELSE [starting EXCEPT ![c] = @ + 1]

WorkerStarts(c) ==
  /\ starting[c] > 0 /\ Exists(c) /\ entry[c].on
  /\ starting' = [starting EXCEPT ![c] = @ - 1]
  /\ workers' = [workers EXCEPT ![c] = @ + 1]
  /\ UNCHANGED <<database, process, entry, alias, ghosts, budget>>

FrigateRestarts ==
  /\ Spend("requests") /\ Restarted
  /\ UNCHANGED <<database, process, entry, alias, ghosts>>

\* The operator turns recording of a running camera on or off.
OperatorRecords(c) ==
  /\ Spend("requests") /\ Exists(c) /\ entry[c].on
  /\ entry' = [entry EXCEPT ![c].record = ~@]
  /\ choice' = [choice EXCEPT ![c] = ~entry[c].record]
  /\ crossed' = IF marker[c] = {} THEN crossed ELSE crossed \cup {c}
  /\ UNCHANGED <<database, process, alias, workers, starting, mine>>

\* The operator removes the entry, and Frigate is restarted.
OperatorDeletes(c) ==
  /\ Spend("requests") /\ job = Idle /\ Exists(c)
  /\ entry' = [entry EXCEPT ![c] = Absent]
  /\ workers' = [workers EXCEPT ![c] = 0] /\ starting' = [starting EXCEPT ![c] = 0]
  /\ mine' = mine \ {c}
  /\ UNCHANGED <<database, process, alias, choice, crossed>>

\* _actual_mismatch: the entry and the aliases are those of version v.
Matches(c, v) == Exists(c) /\ entry[c].version = v /\ alias[c] = v

IsRetired(c) == Exists(c) /\ ~entry[c].on /\ ~entry[c].record

-----------------------------------------------------------------------------
(* Jobs: they hold FRIGATE_LOCK from Begin... to the step that leaves Idle. *)

Ended == job' = Idle /\ queued' = IF job.op = "camera" THEN queued \ job.scope ELSE queued

\* The configuration, paths, streams and statistics of Frigate, read once.
Look == [c \in Cameras |-> [version |-> entry[c].version, on |-> entry[c].on,
                            alias |-> alias[c], running |-> workers[c] > 0]]

\* Wrong on purpose: no synchronisation may restart Frigate.
PlanWithoutRestart(cameras, restart, view) ==
  [Idle EXCEPT !.step = "choose", !.todo = cameras, !.restart = restart /\ FALSE, !.view = view,
               !.plan = [c \in Cameras |-> IF c \in cameras \cap enabled THEN wanted[c] ELSE 0]]

\* reconcile_frigate reads the cameras to synchronise once, 0 is a disabled one, and
\* Frigate before the first of them.
Plan(cameras, restart, view) ==
  [Idle EXCEPT !.step = "choose", !.todo = cameras, !.restart = restart, !.view = view,
               !.plan = [c \in Cameras |-> IF c \in cameras \cap enabled THEN wanted[c] ELSE 0]]

\* _reconcile_frigate.
BeginPass ==
  /\ job = Idle /\ selected # {}
  /\ job' = [Plan(selected, TRUE, Look) EXCEPT !.op = "pass"]
  /\ UNCHANGED <<database, queued, frigate, ghosts, budget>>

\* _sync_frigate_camera_job.
BeginCamera(c) ==
  /\ job = Idle /\ c \in queued
  /\ IF c \in selected
     THEN job' = [Plan({c}, TRUE, Look) EXCEPT !.op = "camera", !.scope = {c}] /\ UNCHANGED queued
     ELSE queued' = queued \ {c} /\ UNCHANGED job
  /\ UNCHANGED <<database, frigate, ghosts, budget>>

Stale(c) == Exists(c) /\ c \notin selected /\ ~(marker[c] # {} /\ IsRetired(c))

\* full_sync_frigate: what is in Frigate and not wanted there. Repair itself
\* never restarts a Frigate that has such cameras.
BeginRepair ==
  /\ job = Idle /\ Spend("requests")
  /\ LET stale == {c \in Cameras : Stale(c)}
         running == {c \in Cameras \ selected : workers[c] > 0 /\ ~IsRetired(c)}
     IN job' = [Idle EXCEPT !.op = "repair", !.step = "remember", !.dropped = stale,
                            !.aliases = {c \in Cameras \ selected : alias[c] # 0},
                            !.restart = (stale \cup running = {})]
  /\ UNCHANGED <<database, queued, frigate, ghosts>>

\* remove_frigate_camera, as an operation of its own or as part of unadopting.
BeginRemove(c, op) ==
  /\ job = Idle /\ Spend("requests") /\ c \in adopted
  /\ op = "remove" => c \in selected
  /\ job' = [Idle EXCEPT !.op = op, !.scope = {c},
                 !.step = IF c \in selected /\ Bound(c) THEN "remember" ELSE "deselect",
                 !.dropped = IF c \in selected /\ Bound(c) /\ Exists(c) THEN {c} ELSE {},
                 !.aliases = IF c \in selected /\ Bound(c) /\ alias[c] # 0 THEN {c} ELSE {}]
  /\ UNCHANGED <<database, queued, frigate, ghosts>>

At(step) == job.step = step
Go(step) == job' = [job EXCEPT !.step = step] /\ UNCHANGED queued

\* Wrong on purpose: a retry remembers the settings it finds.
RememberLatest(c) ==
  /\ At("remember") /\ c \in job.dropped
  /\ marker' = [marker EXCEPT ![c] = {entry[c].record}]
  /\ job' = [job EXCEPT !.step = "recordOff", !.at = {c}]
  /\ UNCHANGED <<adopted, selected, enabled, wanted, conflict, binding, queued, frigate,
                 ghosts, budget>>

\* _retire_camera, first step: the settings to restore are remembered once.
Remember(c) ==
  /\ At("remember") /\ c \in job.dropped
  /\ marker' = [marker EXCEPT ![c] = IF @ = {} THEN {entry[c].record} ELSE @]
  /\ job' = [job EXCEPT !.step = "recordOff", !.at = {c}]
  /\ UNCHANGED <<adopted, selected, enabled, wanted, conflict, binding, queued, frigate,
                 ghosts, budget>>

\* Wrong on purpose: a failed write does not end the operation.
RetireStepRegardless(c, written, next) ==
  /\ c \in job.at
  /\ \E out \in Outcomes :
       /\ Costs(out)
       /\ entry' = IF out = "refused" THEN entry ELSE [entry EXCEPT ![c] = written]
       /\ job' = [job EXCEPT !.step = next, !.dropped = @ \ (IF next = "remember" THEN {c} ELSE {})]
  /\ UNCHANGED <<database, queued, alias, workers, starting, ghosts>>

RetireStep(c, written, next) ==
  /\ c \in job.at
  /\ \E out \in Outcomes :
       /\ Costs(out)
       /\ entry' = IF out = "refused" THEN entry ELSE [entry EXCEPT ![c] = written]
       /\ IF out = "ok"
          THEN job' = [job EXCEPT !.step = next, !.dropped = @ \ (IF next = "remember" THEN {c} ELSE {})]
               /\ UNCHANGED queued
          ELSE Ended
  /\ UNCHANGED <<database, alias, workers, starting, ghosts>>

RecordOff(c) ==
  At("recordOff") /\ RetireStep(c, [entry[c] EXCEPT !.record = FALSE], "turnOff")

\* Turns the camera off and hides it; repair and removal verify that it is so.
TurnOff(c) ==
  /\ At("turnOff") /\ ~entry[c].record
  /\ RetireStep(c, [entry[c] EXCEPT !.on = FALSE], "remember")

TurnOffUnverified(c) ==
  /\ At("turnOff") /\ c \in job.at /\ entry[c].record
  /\ entry' = [entry EXCEPT ![c].on = FALSE]
  /\ Ended
  /\ UNCHANGED <<database, alias, workers, starting, ghosts, budget>>

\* The aliases found at the beginning are deleted, from the saved configuration
\* first; then repair goes on with what is selected now.
DeleteAliases ==
  /\ At("remember") /\ job.dropped = {}
  /\ UNCHANGED <<database, entry, workers, starting, ghosts>>
  /\ \E out \in IF job.aliases = {} THEN {"ok"} ELSE Outcomes :
       /\ Costs(out)
       /\ alias' = IF out = "refused" THEN alias
                   ELSE [c \in Cameras |-> IF c \in job.aliases THEN 0 ELSE alias[c]]
       /\ IF out # "ok" THEN Ended
          ELSE IF job.op # "repair" THEN Go("deselect")
          ELSE IF \E c \in Cameras : Stale(c) THEN Ended
          ELSE job' = [Plan(selected, job.restart, Look') EXCEPT !.op = "repair"] /\ UNCHANGED queued

Deselect(c) ==
  /\ At("deselect") /\ c \in job.scope
  /\ selected' = selected \ {c} /\ conflict' = conflict \ {c}
  /\ IF Bound(c) \/ job.op = "unadopt" THEN Go("unbind") ELSE Ended
  /\ UNCHANGED <<adopted, enabled, wanted, binding, marker, frigate, ghosts, budget>>

\* Wrong on purpose: a selection made meanwhile outlives the camera.
UnbindKeepingSelection(c) ==
  /\ At("unbind") /\ c \in job.scope
  /\ binding' = [binding EXCEPT ![c] = Unbound]
  /\ adopted' = IF job.op = "unadopt" THEN adopted \ {c} ELSE adopted
  /\ Ended
  /\ UNCHANGED <<selected, conflict, enabled, wanted, marker, frigate, ghosts, budget>>

\* The binding goes with the camera's removal; unadopting deletes the camera and
\* every row that refers to it.
Unbind(c) ==
  /\ At("unbind") /\ c \in job.scope
  /\ binding' = [binding EXCEPT ![c] = Unbound]
  /\ IF job.op = "unadopt"
     THEN /\ adopted' = adopted \ {c}
          /\ selected' = selected \ {c} /\ conflict' = conflict \ {c}
     ELSE UNCHANGED <<adopted, selected, conflict>>
  /\ Ended
  /\ UNCHANGED <<enabled, wanted, marker, frigate, ghosts, budget>>

-----------------------------------------------------------------------------
(* reconcile_frigate, one camera after the other. It decides by the view the job has of *)
(* Frigate, which a verification or a disabling that succeeded renews, and no failure.  *)

Chosen(c) == At("choose") /\ c \in job.todo
Working(c) == c \in job.at
Want(c) == job.plan[c]
Seen(c) == job.view[c].version # 0

\* On to the next camera.
DoneSeeing(c, view) ==
  /\ job' = [job EXCEPT !.step = "choose", !.at = {}, !.todo = @ \ {c}, !.second = FALSE,
                        !.view = view]
  /\ UNCHANGED queued
Done(c) == DoneSeeing(c, job.view)

\* record_frigate_attempt.
Attempted(c, v) == [binding EXCEPT ![c].status = "pending", ![c].desired = v]

\* complete_frigate_attempt.
Failed(c) == [binding EXCEPT ![c].status = "error"]
Applied(c, v) == [binding EXCEPT ![c].status = "applied", ![c].applied = v]

\* On to another step of this camera.
WorkSeeing(c, step, view) ==
  job' = [job EXCEPT !.step = step, !.at = {c}, !.view = view] /\ UNCHANGED queued
Work(c, step) == WorkSeeing(c, step, job.view)

SkipDisabled(c) ==
  /\ Chosen(c) /\ Want(c) = 0
  /\ ~Bound(c) \/ ~Seen(c) \/ ~job.view[c].on
  /\ conflict' = conflict \ {c}
  /\ Done(c)
  /\ UNCHANGED <<adopted, selected, enabled, wanted, binding, marker, frigate, ghosts, budget>>

AttemptDisable(c) ==
  /\ Chosen(c) /\ Want(c) = 0 /\ Bound(c) /\ Seen(c) /\ job.view[c].on
  /\ conflict' = conflict \ {c}
  /\ binding' = [Attempted(c, binding[c].desired) EXCEPT ![c].on = FALSE]
  /\ Work(c, "disable")
  /\ UNCHANGED <<adopted, selected, enabled, wanted, marker, frigate, ghosts, budget>>


\* The configuration alone is read again.
ConfigRead(entries) == [d \in Cameras |-> [job.view[d] EXCEPT !.version = entries[d].version,
                                                             !.on = entries[d].on]]

Disable(c) ==
  /\ At("disable") /\ Working(c)
  /\ \E out \in Outcomes :
       /\ Costs(out)
       /\ entry' = IF out = "refused" THEN entry ELSE [entry EXCEPT ![c].on = FALSE]
       /\ binding' = IF out # "ok" THEN Failed(c)
                     ELSE Applied(c, IF binding[c].applied # 0 THEN binding[c].applied
                                     ELSE binding[c].desired)
       /\ DoneSeeing(c, IF out = "ok" THEN ConfigRead(entry') ELSE job.view)
  /\ UNCHANGED <<adopted, selected, enabled, wanted, conflict, marker, alias, workers, starting,
                 ghosts>>

\* Wrong on purpose: an existing entry is taken over.
ClaimedWithoutEntry(c) == ~Bound(c) /\ marker[c] = {} /\ ~Seen(c) /\ job.view[c].alias # 0

\* Something is there under the camera's names that CamAdmiral does not own.
Claimed(c) == ~Bound(c) /\ marker[c] = {} /\ (Seen(c) \/ job.view[c].alias # 0)

ReportConflict(c) ==
  /\ Chosen(c) /\ Want(c) # 0 /\ Claimed(c)
  /\ conflict' = conflict \cup ({c} \cap selected)
  /\ Done(c)
  /\ UNCHANGED <<adopted, selected, enabled, wanted, binding, marker, frigate, ghosts, budget>>

\* desired_camera gives nothing: the resolution is not known yet, or no host can be
\* named. It is bounded like a fault.
RefuseCamera(c) ==
  /\ Chosen(c) /\ Want(c) # 0 /\ Spend("faults")
  /\ conflict' = conflict \ {c}
  /\ Done(c)
  /\ UNCHANGED <<adopted, selected, enabled, wanted, binding, marker, frigate, ghosts>>

\* A retired camera waits for a synchronisation that may restart Frigate.
HoldRetired(c) ==
  /\ Chosen(c) /\ Want(c) # 0 /\ marker[c] # {} /\ ~job.restart
  /\ conflict' = conflict \ {c}
  /\ Done(c)
  /\ UNCHANGED <<adopted, selected, enabled, wanted, binding, marker, frigate, ghosts, budget>>

\* _actual_matches, of what the job has read.
SeenRight(c) == job.view[c].version = Want(c) /\ job.view[c].alias = Want(c)

InPlace(c) ==
  /\ Bound(c) /\ marker[c] = {} /\ binding[c].on /\ binding[c].applied = Want(c)
  /\ SeenRight(c) /\ job.view[c].running

KeepInPlace(c) ==
  /\ Chosen(c) /\ Want(c) # 0 /\ InPlace(c)
  /\ conflict' = conflict \ {c}
  /\ binding' = Applied(c, Want(c))
  /\ Done(c)
  /\ UNCHANGED <<adopted, selected, enabled, wanted, marker, frigate, ghosts, budget>>

\* An entry that is right but not captured yet is not added again.
JustStarting(c) == marker[c] = {} /\ SeenRight(c) /\ ~job.view[c].running

NeedsWork(c) ==
  /\ Chosen(c) /\ Want(c) # 0 /\ ~Claimed(c) /\ ~InPlace(c)
  /\ marker[c] # {} => job.restart

AttemptCamera(c) ==
  /\ NeedsWork(c)
  /\ conflict' = conflict \ {c}
  /\ binding' = Attempted(c, Want(c))
  /\ Work(c, IF JustStarting(c) THEN "await" ELSE "camera")
  /\ UNCHANGED <<adopted, selected, enabled, wanted, marker, frigate, ghosts, budget>>

\* The entry as it is to be: an existing one keeps what the operator set, a retired
\* one gets back what was remembered.
Configured(c) ==
  [version |-> Want(c),
   on |-> IF Seen(c) /\ marker[c] = {} THEN entry[c].on ELSE TRUE,
   record |-> IF marker[c] # {} THEN TRUE \in marker[c]
              ELSE IF Exists(c) THEN entry[c].record ELSE TRUE]

\* Wrong on purpose: a camera is added until it is captured.
IsNewUntilCaptured(c) == ~job.view[c].running

\* Only a camera that is not there is added, others are updated.
IsNew(c) == ~Seen(c)

\* _requires_frigate_017_second_camera_restart.
IsSecond(c) ==
  SecondIsCold /\ ~Seen(c) /\ Cardinality({d \in Cameras : Seen(d)}) = 1

WriteCamera(c) ==
  /\ At("camera") /\ Working(c)
  /\ \E out \in Outcomes :
       /\ Costs(out)
       /\ IF out = "refused" THEN UNCHANGED <<entry, starting, ghosts>>
          ELSE /\ entry' = [entry EXCEPT ![c] = Configured(c)]
               /\ IF IsNew(c) THEN Publish(c) ELSE UNCHANGED starting
               /\ IF c \in mine THEN UNCHANGED ghosts
                  ELSE /\ mine' = mine \cup {c}
                       /\ choice' = [choice EXCEPT ![c] = Configured(c).record]
                       /\ crossed' = crossed \ {c}
       /\ IF out = "ok"
          THEN /\ job' = [job EXCEPT !.second = IsSecond(c),
                     !.step = IF Seen(c) /\ ~binding[c].on THEN "enable" ELSE "streams"]
               /\ UNCHANGED <<queued, binding>>
          ELSE Done(c) /\ binding' = Failed(c)
  /\ UNCHANGED <<adopted, selected, enabled, wanted, conflict, marker, alias, workers>>

\* A camera that CamAdmiral itself had disabled.
Enable(c) ==
  /\ At("enable") /\ Working(c)
  /\ \E out \in Outcomes :
       /\ Costs(out)
       /\ entry' = IF out = "refused" THEN entry ELSE [entry EXCEPT ![c].on = TRUE]
       /\ IF out = "ok" THEN Work(c, "streams") /\ UNCHANGED binding
          ELSE Done(c) /\ binding' = Failed(c)
  /\ UNCHANGED <<adopted, selected, enabled, wanted, conflict, marker, alias, workers, starting,
                 ghosts>>

WriteStreams(c) ==
  /\ At("streams") /\ Working(c)
  /\ \E out \in Outcomes :
       /\ Costs(out)
       /\ alias' = IF out = "refused" THEN alias ELSE [alias EXCEPT ![c] = Want(c)]
       /\ IF out = "ok"
          THEN /\ Work(c, IF (job.second \/ marker[c] # {}) /\ job.restart
                          THEN "restart" ELSE "verify")
               /\ UNCHANGED binding
          ELSE Done(c) /\ binding' = Failed(c)
  /\ UNCHANGED <<adopted, selected, enabled, wanted, conflict, marker, entry, workers, starting,
                 ghosts>>

RestartFrigate(c) ==
  /\ At("restart") /\ Working(c)
  /\ \E out \in Outcomes :
       /\ Costs(out)
       /\ IF out = "refused" THEN UNCHANGED <<workers, starting>> ELSE Restarted
       /\ IF out = "ok" THEN Work(c, "verify") /\ UNCHANGED binding
          ELSE Done(c) /\ binding' = Failed(c)
  /\ UNCHANGED <<adopted, selected, enabled, wanted, conflict, marker, entry, alias, ghosts>>

\* _wait_for_camera_state.
Captured(c) == Matches(c, Want(c)) /\ workers[c] > 0

Awaited(c) ==
  /\ At("await") /\ Working(c) /\ Captured(c)
  /\ binding' = Applied(c, Want(c))
  /\ DoneSeeing(c, Look)
  /\ UNCHANGED <<adopted, selected, enabled, wanted, conflict, marker, frigate, ghosts, budget>>

Verified(c) ==
  /\ At("verify") /\ Working(c) /\ Captured(c)
  /\ binding' = [Applied(c, Want(c)) EXCEPT ![c].on = TRUE]
  /\ IF marker[c] # {} THEN WorkSeeing(c, "forget", Look) ELSE DoneSeeing(c, Look)
  /\ UNCHANGED <<adopted, selected, enabled, wanted, conflict, marker, frigate, ghosts, budget>>

TimedOut(c) ==
  /\ At("await") \/ At("verify")
  /\ Working(c) /\ ~Captured(c)
  /\ binding' = Failed(c)
  /\ Done(c)
  /\ UNCHANGED <<adopted, selected, enabled, wanted, conflict, marker, frigate, ghosts, budget>>

Forget(c) ==
  /\ At("forget") /\ Working(c)
  /\ marker' = [marker EXCEPT ![c] = {}]
  /\ Done(c)
  /\ UNCHANGED <<adopted, selected, enabled, wanted, conflict, binding, frigate, ghosts, budget>>

EndPass ==
  /\ At("choose") /\ job.todo = {}
  /\ Ended
  /\ UNCHANGED <<database, frigate, ghosts, budget>>

Crash ==
  /\ Spend("faults") /\ <<job, queued>> # <<Idle, {}>>
  /\ job' = Idle /\ queued' = {}
  /\ UNCHANGED <<database, frigate, ghosts>>

-----------------------------------------------------------------------------
(* The operator, in CamAdmiral. *)

\* sync_frigate_camera: a camera that has a job already is not queued again.
Select(c) ==
  /\ Spend("requests") /\ c \in adopted
  /\ selected' = selected \cup {c} /\ conflict' = conflict \ {c}
  /\ binding' = IF Bound(c) THEN [binding EXCEPT ![c].status = "pending"] ELSE binding
  /\ queued' = queued \cup {c}
  /\ UNCHANGED <<adopted, enabled, wanted, marker, job, frigate, ghosts>>

\* Another name, stream, role, resolution or address mode.
Change(c) ==
  /\ Spend("requests") /\ c \in adopted /\ wanted[c] < MaxVersion
  /\ wanted' = [wanted EXCEPT ![c] = @ + 1]
  /\ UNCHANGED <<adopted, selected, enabled, conflict, binding, marker, process, frigate, ghosts>>

SetEnabled(c) ==
  /\ Spend("requests") /\ c \in adopted
  /\ enabled' = IF c \in enabled THEN enabled \ {c} ELSE enabled \cup {c}
  /\ UNCHANGED <<adopted, selected, wanted, conflict, binding, marker, process, frigate, ghosts>>

\* remove_frigate_target, and the integration added again: its rows are gone,
\* Frigate is left as it is.
ForgetTarget ==
  /\ Spend("requests") /\ job = Idle
  /\ selected' = {} /\ conflict' = {} /\ mine' = {}
  /\ binding' = [c \in Cameras |-> Unbound] /\ marker' = [c \in Cameras |-> {}]
  /\ UNCHANGED <<adopted, enabled, wanted, process, frigate, choice, crossed>>

-----------------------------------------------------------------------------
Retire(c) == Remember(c) \/ RecordOff(c) \/ TurnOff(c) \/ TurnOffUnverified(c)

Remove(c) == Deselect(c) \/ Unbind(c)

Reconcile(c) ==
  \/ SkipDisabled(c) \/ AttemptDisable(c) \/ Disable(c)
  \/ RefuseCamera(c) \/ ReportConflict(c) \/ HoldRetired(c) \/ KeepInPlace(c)
  \/ AttemptCamera(c) \/ WriteCamera(c) \/ Enable(c) \/ WriteStreams(c) \/ RestartFrigate(c)
  \/ Awaited(c) \/ Verified(c) \/ TimedOut(c) \/ Forget(c)

JobStep == DeleteAliases \/ EndPass \/ \E c \in Cameras : Retire(c) \/ Remove(c) \/ Reconcile(c)

Begin ==
  \/ BeginPass \/ BeginRepair
  \/ \E c \in Cameras : BeginCamera(c) \/ BeginRemove(c, "remove") \/ BeginRemove(c, "unadopt")

Operator == ForgetTarget \/ \E c \in Cameras : Select(c) \/ Change(c) \/ SetEnabled(c)

Outside ==
  FrigateRestarts \/ \E c \in Cameras : WorkerStarts(c) \/ OperatorRecords(c) \/ OperatorDeletes(c)

Next == JobStep \/ Begin \/ Operator \/ Outside \/ Crash

\* Jobs go on, the loop comes round, and Frigate starts the workers of a camera.
Fairness ==
  /\ WF_vars(JobStep) /\ WF_vars(BeginPass)
  /\ \A c \in Cameras : WF_vars(WorkerStarts(c))

Spec == Init /\ [][Next]_vars /\ Fairness

-----------------------------------------------------------------------------
\* No camera is captured by two sets of workers at once, whatever answers were lost:
\* an entry that may be there is never added again.
CapturedOnce == \A c \in Cameras : workers[c] <= 1

\* "Existing cameras ... that CamAdmiral does not own are reported as conflicts and are
\* never overwritten automatically": only a repair the operator asked for, or the
\* operator, changes an entry this integration did not make, unless a repair has
\* retired it before. Once it is restored from there, it is the integration's own.
ForeignKept ==
  [][\A c \in Cameras \ mine :
       Exists(c) /\ entry'[c] # entry[c] /\ marker[c] = {} =>
         OperatorRecords(c) \/ OperatorDeletes(c)]_vars

\* The recording setting of a camera survives its removal, failed and repeated
\* retirements and its return, unless the operator changes it while it is still
\* being restored.
RecordingReturns ==
  \A c \in mine \ crossed :
    /\ marker[c] \subseteq {choice[c]}
    /\ entry[c].on /\ marker[c] = {} => entry[c].record = choice[c]

\* No camera is left running in Frigate unknown to CamAdmiral: removal forgets the
\* binding only after it has turned the entry off, however often it failed or crashed.
RunningIsBound == \A c \in mine : Exists(c) /\ entry[c].on => Bound(c)

InSync(c) ==
  /\ binding[c].status = "applied" /\ binding[c].applied = wanted[c]
  /\ Matches(c, wanted[c]) /\ workers[c] > 0 /\ marker[c] = {}

\* Nothing captures the entry, and nothing will before it is turned on or Frigate is
\* restarted.
Dormant(c) == Exists(c) /\ workers[c] = 0 /\ (starting[c] = 0 \/ ~entry[c].on)

Quiet == budget = [faults |-> 0, requests |-> 0]

\* Once requests and faults have ended, every selected camera is synchronised, or in
\* conflict, or its entry is dormant.
SelectedSettles ==
  \A c \in Cameras :
    Quiet /\ c \in selected \cap enabled
      ~> InSync(c) \/ c \in conflict \/ Dormant(c) \/ c \notin selected

\* A camera that CamAdmiral disabled in Frigate is turned on there after it was enabled
\* again. The code does not give this: where the entry has no workers, because it was
\* turned off before an addition of it had started them or because Frigate was restarted
\* while it was off, synchronisation waits for them and never writes that it is on.
EnablingIsApplied ==
  \A c \in Cameras :
    Quiet /\ c \in selected \cap enabled /\ Bound(c) /\ ~binding[c].on
      ~> ~Exists(c) \/ entry[c].on \/ c \notin selected
=============================================================================
