# Formal models of CamAdmiral

TLA+ specifications of the parts of CamAdmiral where order, concurrency and
failure decide what happens, TLC configurations that check them on small
instances, and TLAPS proofs of the main invariants for every value of the
constants. Source paths below are relative to the repository; `storage.py`
means `src/camadmiral/storage.py`.

    tlc -workers 2 -config MCCameraStreams.cfg MCCameraHealth     # a run
    tlapm CameraHealthProofs.tla                                  # a proof

`PROJECT.json` lists every run with its properties, for every property a
mutation of the model that breaks it, for every definition the lines it
translates, the hazards and the theorems.

## The system

CamAdmiral discovers cameras, keeps their credentials and profiles, serves their
streams through a go2rtc relay, watches their health, alerts by Telegram and
writes the camera part of Frigate configurations. A supervisor runs three
processes: the relay, the scan worker and the control process (a FastAPI
application with several daemon threads). What they share is one SQLite database,
a few JSON files and the relay's HTTP interface.

| Component | State it keeps | Operations | Talks to |
|---|---|---|---|
| `CameraRepository` (storage.py) | all tables: cameras, profiles, streams, bindings, health events, incidents, outbox, notification settings, identities, revisions, retry rows, Frigate rows | one SQLite transaction per method | called by every thread |
| Relay health monitor (media.py) | in memory: packet samples, failure counts, attempts, retries, running snapshots and login checks | `probe` every health interval, under `MEDIA_LOCK` | relay, cameras, repository |
| Media reconciliation (media.py, app.py) | relay configuration, `media_config_revisions` | reconcile, replace, drift check | relay, repository |
| Relay activity monitor (media.py) | packet counters of the relay | detects a relay that stopped moving packets | reconciliation |
| Address recovery (recovery.py) | attempt counters; profile sources, address incidents | targeted scan, move to the new address, rollback | scan worker, relay, repository |
| Scan worker (scanner_worker.py, scan_state.py) | request, state and inventory files | scan on request or on schedule | network, control process |
| Inventory, identity (inventory.py, camera_identity.py) | inventory file, identity tables | merge a scan, observe an identity | recovery, repository |
| Discovery, ONVIF (discovery.py, onvif_client.py, rtsp_catalog.py) | none | probe, SOAP, URLs | network |
| Roles (roles.py) | none | pick record and detect profiles | adoption |
| Notifications (app.py, notifications.py) | outbox batch in memory | delivery loop, pairing poll, test request | Telegram, repository |
| Frigate synchronisation (frigate.py) | selections, bindings, retired entries | reconcile, retire, restart, confirm | Frigate |
| Frigate import (frigate_import.py, frigate_discovery.py) | jobs, handoffs | take over, hand off, roll back | Frigate, repository |
| Supervisor (supervisor.py) | child processes, restart counts | start, restart, stop | operating system |
| Control API (app.py) | locks and jobs | HTTP handlers, start of the threads | everything |
| Sessions, encryption, configuration, diagnostics | key files | pure or one-shot | - |

### What makes it hard

* *Requests do not wait for the loops.* The health loop, recovery, drift
  reconciliation and stream settings hold `MEDIA_LOCK`; adopting, unadopting,
  enabling, replacing credentials and silencing do not. A cycle takes seconds,
  so what it read is often old when it writes.
* *Transactions are not what they look like.* `sqlite3` opens the write
  transaction at the first write, so a leading SELECT runs outside it, and most
  timestamps are taken before the connection is opened and the lock waited for.
* *Calls to Telegram, cameras and the relay* happen between a read and a write of
  the same row and end in failure, silence or a late answer.
* *Pools outlive rounds.* Snapshots and login checks started in one cycle are
  collected in a later one, if their source is still the same.
* *Restarts* lose memory and keep tables.
* *Files without a lock.* The control process and the scan worker replace the same
  JSON files; the worker takes no lock.
* *Frigate is edited by others* and has no compare-and-set. A write to it may take
  effect although its answer is lost, and adding a camera twice starts it twice. A
  pass reads Frigate once and decides for all its cameras by that reading.
* *Long procedures.* Moving cameras, synchronising and importing take minutes of
  steps in three systems; each step may fail after the one before took effect.

### What correct means, component by component

* Health: the open incident agrees with the health of the bound streams after every
  transaction, and the history holds that health although events are filed by stamps
  taken in another order; roles stay on served streams; closed incidents stay as they
  are.
* Alerts: none for a silenced camera, no resolution without an opening, no row
  settled without cause, no duplicate unless an acceptance was lost, each
  settled at last.
* Pairing: the destination is one the operator opened, is never exchanged for another
  one, and goes only where a new pairing link takes its place.
* Login retries: bounded, one per camera, never clearing a refusal without a
  frame, never forgotten.
* Health monitor: bounded pool, every stream sampled, every stream that keeps
  failing diagnosed, outages noticed.
* Revisions: what the relay runs is what was recorded as applied.
* Recovery: no camera's sources move without a trace; database and relay agree
  after success, failure and rollback; a camera is found where it stays.
* Scans: an accepted request stands until it is served; its result is shown; every
  camera that needs it is looked for.
* Frigate: a selected camera ends up synchronised or in conflict; none is captured
  twice, left running unknown, or deprived of its recording setting; what is not
  CamAdmiral's is not overwritten.
* Import: the original entry is kept until it is back or the import is complete, and
  a camera with one connection gets it back.
* Supervisor: a dead child is restarted or everything stops and starts again.

## Modules

| Module | Models | Uses |
|---|---|---|
| `HealthRules` | the pure rules: a probe result on a stream row, the verdict on a camera, the incident it asks for | - |
| `TimeOrder`, `TimeOrderProofs` | times that are only compared: an attempt, a retry that falls due | - |
| `CameraHealth`, `MCCameraHealth`, `CameraHealthProofs` | `CameraRepository`'s health bookkeeping; three instances, seven theorems | `HealthRules` |
| `AlertDelivery`, `MCAlertDelivery` | outbox rows, the delivery loop, the test request | - |
| `TelegramPairing` | settings request and pairing poll | - |
| `NotificationProofs` | five theorems about `AlertDelivery`, three about `TelegramPairing` | both |
| `MonitoredCameras` | rows, logins, switches and requests the two monitor loops share | `HealthRules` |
| `AuthRetry`, `MCAuthRetry` | retries of a refused login | `MonitoredCameras`, `TimeOrder` |
| `RelayMonitor`, `MCRelayMonitor` | one cycle of the health monitor | `MonitoredCameras`, `TimeOrder` |
| `MonitorProofs` | two theorems about `RelayMonitor`, four about `AuthRetry` | both, `TimeOrderProofs` |
| `AddressRecovery`, `MCAddressRecovery`, `AddressRecoveryProofs` | moves of cameras, the relay's streams, revisions, the holders of `MEDIA_LOCK`; four theorems | - |
| `ScanService`, `MCScanService`, `ScanServiceProofs` | scan requests, the worker, the supervisor; three theorems | `TimeOrder` |
| `FrigateSync`, `MCFrigateSync`, `FrigateSyncProofs` | synchronisation with one Frigate; five theorems | - |
| `Takeover` | what an import promises of Frigate's entries | - |
| `FrigateImport`, `MCFrigateImport`, `FrigateImportProofs` | import, restoration, recovery of handoffs; implements `Takeover`; five theorems | `Takeover` (INSTANCE) |

In the modules, an operator marked "Wrong on purpose" is a plausible mistake in the
definition after it; each property is shown to notice one (`mutants` in
`PROJECT.json`).

### CameraHealth

One action per transaction: `Adopt`, `Unadopt`, `SetCameraEnabled`,
`ReplaceCameraCredentials`, `SetStreamSettings`, `UpdateProfileSources`,
`OpenAddressIncident`, `ResolveAddressIncident`, `SetSilenced`,
`SaveTelegramSettings`, `CompleteTelegramPairing`, `SettleAlert`, and
`record_probe_results`, which is split where the code can be overtaken:

* `ProbeBegin`: the sources are read;
* `ProbeRead`: the first row is read (storage.py:2690, before the write transaction);
* `ProbeCommit`: the transaction, which uses that first row.

`OperatorTransition` ends the request and recovery transactions that change health.
`RecordTransition` is `_record_camera_health_transition` with everything it calls: the
event, `_reconcile_camera_incident`, `_resolve_incident` and
`_enqueue_incident_notification`.

Events are ordered by `observed_at`, and every transaction but `SetStreamSettings` takes
that stamp before it opens its connection and gets the write lock (for example
storage.py:1795, 1840, 2294, 2623 and 2686). So a probe's or a request's event may be
filed below one that was stamped later and committed first. A transition therefore takes
the cameras for which it comes `late`: its event does not become the newest one and is
remembered in `hidden`. Any transaction may come late, as long as there is a different
event above it (`Overtaken`), because how many requests and probers wait for the lock, and
for how long, is not bounded; that is more than the code does in a given run.

An incident is named by its position in the camera's list, an outbox row by its
idempotency key. The failure counter saturates at three, where the code stops
distinguishing. One probe is under way at a time: probes outside `MEDIA_LOCK`
(app.py:1270) that overlap it would differ in their stamps, which `late` covers, and in
the first row they read.

### AlertDelivery

A delivery is `Send` (the call to Telegram), `ReadAttempts` (after a failure, the SELECT
of the attempt count, outside the write transaction) and `Record` (the UPDATE, which
writes that count although another sender may have counted since). The loop works
through `work["loop"].batch`, the rows it read with one due query; a test request is a
second worker with its one row. Telegram may take a message and the answer still be lost
(`unrecorded`); `Interrupt` loses a worker between any two steps. `due` says which rows
have reached `next_attempt_at`; the backoff itself is abstract. A test row may go from
sent back to retry, when the loop and the request deliver it at the same time and the
failing one records last; incident alerts have one deliverer and do not.

### TelegramPairing

The request (`BeginSave`, `ReadRow`, `CommitSave`) and the poll (`BeginPoll`,
`AnswerPoll`, `CommitPairing` or `CommitOffset`) each read the settings row and write it
later. The request reads it twice: once to decide what is needed, and once in
`save_telegram_settings` (storage.py:1178), whose SELECT runs outside the write
transaction. What the save has nothing new for is written back from that second reading
(storage.py:1203), so it may undo a pairing or an offset committed in between. One
request is under way at a time; a secret may expire at any moment, also while it is
written back. A bot and a secret are named by the save that brought them. Its
specification is `PairingSpec`, so that it can stand in one module with
`AlertDelivery`'s.

### MonitoredCameras, AuthRetry, RelayMonitor

`MonitoredCameras` holds what both loops see: the rows of role-bound streams, the
credentials stored and the ones the camera accepts, and which cameras are on. A
source is compared whole in the code; here its stream and login stand for it.

`AuthRetry` (`RetrySpec`) is `_retry_authentication`: `RoundBegin` reads schedule and
sources, `RoundFinish` collects, records, claims and starts; `Elapse` is a retry delay
running out. `due` is the order of `next_attempt` among the streams whose delay has
passed. The delays (one, five, fifteen, thirty minutes) are not states: a delay that
runs out is an action. `ObserveStream` and `ReconcileRelay` are what the other loops
write meanwhile.

`RelayMonitor` is one cycle in three steps: sources read, relay observed (with
collecting and starting snapshots), results recorded after the diagnoses. A
snapshot that ends during the cycle is collected by the next one (the code
collects once more at media.py:231). `attempted` compares the times in
`_frame_probe_attempts`: the streams started in one cycle share one time, so a cycle
may start any set that is first in that order (`IsStart`). Thumbnails are not modelled.

`TimeOrder` is what comparing such times shows: a pair `<<a, b>>` when a's time is not
after b's. `Stamped` gives some members the present time, `Kept` forgets the others,
and what has no time comes first (`NotAfter`). `ScanService` keeps the attempts of the
recovery loops (`RECOVERY_SCAN_ATTEMPTS`) in the same way.

### AddressRecovery

`job` is the holder of `MEDIA_LOCK`: a recovery with its plans, a reconciliation, or
a change of stream settings. A recovery goes through `MoveSources` (one plan after
the other: incident, sources), `TakeRevision`, `ReplaceMoved`, `ProbeMoved`, and
then either `Commit` for each plan or `FailRevision`, `Rollback` for each moved
camera and `RollbackDone`; then `DriftCheck` ends the turn. A restart or a request may
come between any two of them. Most are one transaction or one call of the relay; two
merge several transactions, see the abstractions.
Requests (`Adopt`, `Unadopt`, `SetEnabled`) write their rows at once and leave
`pending` for the reconciliation they wait for; the reconciliation of an enabling
that fails switches the camera off again. `config` is go2rtc's file, `runtime` what
it runs; `Apply` may stop after any part of the streams. An address stands for the
sources of a camera. `Answers` says what validation sees: something at the address
lets the login in, which may be another camera of the same kind.

Abstractions: `MoveSources` opens the incident and then changes the sources in two
transactions; ending between them leaves an open incident with the old sources, which
is also what a completed rollback leaves, and no property asks of an open incident
that the sources have moved. `Commit` is the event, the identity period, the incident
and the attempts of one plan; ending between them leaves the incident open, or the
attempts standing until the next turn forgets them. The two streams of a camera move
together; waiting requests are served by one reconciliation; a candidate without
stable identity, or in conflict, has no address in `seen`; which call of the relay
failed is not kept.

### ScanService

`request`, `state` and `inventory` are the three files, reduced to the cameras they
are about or show online. The worker's steps are those of `handle_scan` between its
reads and writes of the files. `SelectTargets` and `RequestTargets` are the two
halves of `_queue_targeted_recovery_scan`, before and under `SCAN_REQUEST_LOCK`.
`Mark*` are the four file accesses of `_mark_discovery_candidate_online`. The
supervisor watches, delays a restart of go2rtc, or stops everything; a new service
starts with an empty run directory and the old inventory. What a scan finds is any
subset of its scope; subnets, progress and the protocols are left out.

Abstractions: the attempts of a recovery scan are stamped when the request is written;
the code writes the time at which `_queue_targeted_recovery_scan` began (app.py:921). The
two differ in order only if the other loop chose, asked and was served in between, and
then by one place. Whether an unadoption marks its camera depends on a status decorated
with the health of the streams and read when the request began, so `Unadopt` may mark or
not, whatever the state file shows. Deleting the camera and taking the lock for the mark
are one step.

### FrigateSync

`job` is the holder of `FRIGATE_LOCK` with what it has read (`plan`, `dropped`,
`aliases`): a pass of the loop, a job for one camera, repair, removal, or an unadoption.
What `desired_camera` gives is a version; an entry in Frigate has a version, is on or
off, and records or not; `alias` is the version of its streams, `workers` the sets of
capture processes, `starting` the additions Frigate has not acted on. `choice`,
`crossed` and `mine` serve the properties only: the recording setting chosen last, the
cameras whose setting the operator changed while it was being restored, and the entries
this integration made, or took back after it had retired them. `job.view` is what a pass
has read of Frigate before its first camera (frigate.py:1206-1210): every decision of
`Reconcile` about what is there, what is right and what runs is taken on it, also for
the later cameras, and also after a write of this pass that failed although it took
effect. A verification that succeeds reads everything again, a disabling that succeeds
only the configuration. Each write is `ok`, `lost` (it took effect, the client saw an
error) or `refused`. `Reconcile` is the body of `reconcile_frigate` for one camera. The
operator acts in CamAdmiral (`Select`, `Change`, `SetEnabled`, `ForgetTarget`) and in
Frigate (`OperatorRecords`, `OperatorDeletes`, `FrigateRestarts`).

Abstractions: the five reads of a pass are one, and so are those of a verification;
`desired_camera` giving nothing (`RefuseCamera`: no resolution yet, no host) is bounded
like a fault, so a camera for which it always gives nothing is outside
`SelectedSettles`; an alias in the saved configuration and in the running relay is one;
unadoption reads its targets when it takes the lock; writes of one row that follow
each other with nothing between them are one; an operator deletes an entry only
between jobs; a pass that fails at its first read is none. Entries taken over by an
import are skipped by the code and left out here.

### Takeover and FrigateImport

`Takeover` says of each of Frigate's entries what an import may do: write it only
after it was seen to be the original or one of its own forms, and only while the
original is kept; give the original up only when the entry is the operator's.
`FrigateImport` is `execute`, `restore` and `recover_handoffs` with the journal
(`frigate_import_links` and handoffs) and the rows of the latest preview's job. The
refinement maps the kept version to the journal's, and `seen` to the steps between a
check and its write.

Abstractions: a camera's entry and its aliases are one version; its sources are
probed as one; the journal and the job's row are saved together; refusals for a
changed address, a removed integration or shared aliases are failures at any step
(`ImportFails`).

## Runs

| Run | Instance | Checks | Distinct states |
|---|---|---|---|
| camera_streams | one camera, two tokens, two incidents, no outbox requests | `IncidentsTrackHealth`, `BindingsServed` | 199,482 |
| camera_history | the same with one incident, and events filed in any order | `HistoryTracksHealth` | 164,836 |
| camera_alerts | one camera, one token, two incidents, all alert requests | `SilencedHasNothingQueued`, `ResolutionFollowsOpening`, `ClosedIncidentsAreFinal` | 164,642 |
| alert_delivery | a camera's alert and a test, two attempts, batches of one, one interruption | `SettledForCause`, `DuplicatesOnlyAfterLoss`, `QueuedIsSettled` | 677,684 |
| telegram_pairing | four saves | `ChatWasPaired`, `ChatYieldsToPairing` | 21,138 |
| auth_retry | two streams of a camera, two logins, pool of two, one restart | `ChecksBounded`, `RefusalKeptByRetries`, `OldWorkInvalid`, `RefusalEnds` | 329,784 |
| relay_outage | one stream, every action | `OutageNoticed` | 37,480 |
| relay_sampling | two streams of a camera, one with viewers, pool and batch of one | `PoolBounded`, `SuspectsAreAsked`, `EveryStreamSampled` | 7,356 |
| recovery | two cameras, three addresses, two moves, one failure, one request | `MovesAreExplained`, `RelayServesSaved`, `AppliedIsServed`, `CameraIsFollowed`, `RelayFollowsRequests` | 112,827 |
| scan | two cameras, two loops, one target at a time, one restart of go2rtc; two faults or two requests | `TypeOK`, `RequestStands`, `ResultsPublished`, `NeedyIsScanned`, `ServiceRecovers` | 243,344 |
| frigate_sync | two cameras, two versions, one fault, three operator actions, Frigate 0.17 | `TypeOK`, `CapturedOnce`, `RecordingReturns`, `RunningIsBound`, `ForeignKept`, `SelectedSettles` | 202,328 |
| frigate_import | two Frigate cameras, one new and one known, two faults, two operator actions | `TypeOK`, `ReaderComesBack`, `ResultsAreTrue`, `Implements`, `HandoffsEnd` | 559,828 |

Bounds. One camera is enough for health and alerts because no transaction of one camera
reads another's rows (only `record_probe_results` spans cameras, and it treats each by
itself); two streams are the least for partial failures and for a first row that differs
from the rest. Two incidents give a cause change and a recurrence; in `camera_history`
one incident, that is one outage, is enough, because an event is compared with the
newest one and not with incidents, and the health goes through pending, partial,
degraded, healthy and disabled any number of times besides. Two attempts give one that
may be repeated and a last one, where the code has eight, and a batch of one makes a row
wait behind an older one. Four saves give two changes of bot around a poll and one
change of secret. Two streams of one camera compete for its turn; two logins give an old
and a new one. No run has several cameras contending for the slots of the check pool:
two streams of one camera never need more than one slot of the two.

Recovery: two cameras give a batch of which one plan fails or is unadopted, and two
cameras that exchange addresses; two moves are the least for an exchange or for a
camera that comes back, and the third address makes room for it. One of the cameras
may start disabled, so that the request may be one that enables it; one failure is
enough for each rollback, one more for the failure of a rollback is given to the
proof of `MovesAreExplained`. Scan: with one target at a time two cameras make one
wait; faults and requests are not combined, because each alone reaches every state
of the files. Frigate: the second camera is the one that version 0.17 captures only
after a restart; the instance starts with the first one synchronised. Three operator
actions give removal, a change in Frigate and re-selection; one fault gives one
crash, refused write or lost answer anywhere in them. Import: two faults give a crash
while an earlier failure is being restored.

Deadlock is checked except where a bound ends a behaviour: in the pairing runs
(no saves left), in `camera_streams` and `camera_history` (the camera is gone, or no
incident is left), and in the Frigate runs
(nothing is selected, or no request is left).

Fairness. `AlertDelivery`: the loop goes on, every backoff runs out; nothing
about requests. `AuthRetry`: rounds go on, a check ends (it has a deadline), and
a check that could decode a frame does not fail for ever for other reasons.
`RelayMonitor`: cycles go on, the relay answers now and then, a snapshot has a
deadline and does not for ever find all slots taken; an interval that has passed
is still past when there is room again. `AddressRecovery`: the holder of the lock
goes on, whoever wants the lock again and again gets it (threads do not wait for
ever for a `threading.Lock` that is released between turns), scans follow one
another, retry intervals pass, and a camera that is where it was seen does not fail
its validation every time. `ScanService`: processes and threads go on, pauses and
intervals end, a loop finds no request in its way if that is so again and again;
the supervisor and the container's restart policy act. `FrigateSync`: jobs go on, the loop comes
round, Frigate starts what it was told to add. `FrigateImport`: the holder of the
lock goes on, to success or to an error, because every request and wait has a
deadline; startup takes up the handoffs. The code's scheduling justifies these: the
loops are `while True` threads whose bodies catch everything, and all calls they
make have timeouts. No operator, no camera and not Telegram is assumed to act.

## What was found

Properties that the code does not have are kept in the modules with a
configuration each; TLC shows how they fail.

| Property | Configuration | What it shows |
|---|---|---|
| `ChatBelongsToBot` | `MCPairedBot` (`TelegramPairing`) | README.md:226 says the chat is discovered "from that one-time pairing message"; a poll of the previous bot that returns late (app.py:855) stores that bot's chat and clears the new secret |
| `ChatKeptUntilReplaced` | `MCPairingLost` (`TelegramPairing`) | README.md:227 says alerts are enabled once the bot is configured and paired; a save without a new token that has read the row before the pairing (storage.py:1178) writes the missing chat back over it (storage.py:1203). A new link is shown then, which is what `ChatYieldsToPairing` keeps |
| `ClearedByFrame` | `MCAuthCleared` (`MCAuthRetry`) | README.md:160 says "a decoded video frame is required before clearing the error"; `reconcile_and_probe` (media.py:807-824) records "unavailable" or "ready" over the refusal |
| `OldObservationsInvalid` | `MCRelayStale` (`MCRelayMonitor`) | the comment at media.py:182 says credential changes "invalidate observations started against the previous source"; what a cycle has already collected is recorded (media.py:365) after a replacement |
| `StreamsReconnect` | `MCStreamsReconnect` (`MCAddressRecovery`) | README.md:99 says a camera's streams are reconnected at its new address; after a rollback of the relay that failed (recovery.py:319) and a return of the camera the relay keeps the wrong address, and the drift check compares names only |
| `StatusSettles` | `MCScanStuck` (`MCScanService`) | app.py:2496 keeps a candidate online "until the next scan"; a mark that read the state while a scan ran writes "running" back after its end, and every later scan is refused |
| `EnablingIsApplied` | `MCFrigateEnable` (`MCFrigateSync`) | an entry that is right and has no workers is only waited for (frigate.py:1325), before the place where `enabled: True` is written. A camera that was disabled, and whose entry has no workers, because Frigate restarted while it was off or had not started its addition yet, stays off after it is enabled again, and every pass ends in `camera_start_pending` |

Observations made while reading, without a property:

* Silencing deletes queued alerts "so a flap in progress stops immediately"
  (storage.py:1813), but an alert already in the loop's batch (app.py:907) is sent.
* An event filed late leaves the history showing, as the newest, a state the camera has
  left; the next transaction is compared with that one and may add nothing
  (`HistoryTracksHealth` says what remains true).
* The login is diagnosed at the second failure only (media.py:322), so a camera that
  is first unreachable and later refuses the login stays offline.
* Recovery does not check the identity again at the new address (recovery.py:92-149).
  A camera of the batch that is unadopted makes the first statement on it raise: the
  plans after it are neither recorded nor rolled back. A rollback may overwrite the
  sources of a camera adopted again meanwhile (`crossed`). When a recovery failed and
  the camera then comes back to its old address, the incident stays open.
* Failed stream settings leave their revision desired.
* Cameras that fail for the first time come before those tried already (app.py:1006):
  more of them than one scan takes could keep the others waiting. A mark may put an
  older inventory back. The count of go2rtc's restarts is never reset, and a worker
  that hangs is not noticed.
* Frigate 0.17: the second camera stays without capture when the process ends between
  its addition and the restart (`Dormant` in `SelectedSettles`). A recording setting
  the operator changes while a retired camera's old one is still to be restored is
  overwritten (`crossed`). A pass between a failed removal and its repetition turns
  the camera on again; a selection made during a removal is lost.
* Restoring an import without handoff whose saved entry is the original already
  deletes the journal without a restart, although docs/frigate-import.md says that
  restoration confirms the capture inputs. An edit between the last check and the
  write is overwritten; Frigate offers no way to prevent it. `sync_imported` that
  ends between its write and the journal leaves a conflict that only the operator
  can resolve.

## Proofs

All theorems hold for any constants that satisfy the named assumptions of the
module: any number of cameras, tokens, alerts, streams, any limits, any number of
faults, requests and restarts. The assumptions are types (`CameraOf` is a function
from streams to cameras, limits are numbers, the pool has a slot), finiteness where
things are counted, and constants that stand for "none" lying outside their sets.

Every invariant and every action property that a passing run checks is proved, and so
is the refinement of `Takeover`. The table names the inductive invariant behind each
result.

| Module | Theorem | Property | Rests on |
|---|---|---|---|
| `CameraHealthProofs` | `TypeCorrect` | `TypeOK` | itself |
| | `IncidentsTrack`, `HistoryTracks` | `IncidentsTrackHealth`, `HistoryTracksHealth` | `HealthInv` |
| | `SilencedQuiet`, `ResolutionAnswers` | `SilencedHasNothingQueued`, `ResolutionFollowsOpening` | `QueueInv` |
| | `BindingsAreServed` | `BindingsServed` | `BindingInv` |
| | `ClosedIncidentsStay` | `ClosedIncidentsAreFinal` | `TypeOK` |
| `NotificationProofs` | `TypeCorrect`, `Settled`, `Bounded`, `AtMostOnce`, `SettledStay` | `SettledForCause`, `DuplicatesOnlyAfterLoss` | `DeliveryInv` |
| | `PairingTypeCorrect`, `PairedChat`, `ChatYields` | `ChatWasPaired`, `ChatYieldsToPairing` | `PInv` |
| `MonitorProofs` | `SuspectsAsked` | `SuspectsAreAsked` | with `CountersOK` |
| | `PoolStaysBounded` | `PoolBounded` | `PoolInv` |
| | `RetryTypeCorrect`, `RetriesBounded` | `ChecksBounded` | `RetryInv` |
| | `RefusalsKept`, `OldWorkDropped` | `RefusalKeptByRetries`, `OldWorkInvalid` | the step alone |
| `AddressRecoveryProofs` | `TypeCorrect`, `MovesExplained` | `MovesAreExplained` | `IInv` |
| | `SavedIsServed`, `RevisionIsServed` | `RelayServesSaved`, `AppliedIsServed` | `IInv`, `RInv` |
| `ScanServiceProofs` | `RequestsStand` | `RequestStands` | `Served` |
| | `ScansPublished` | `ResultsPublished` | `ShownInv` |
| | `TypeCorrect` | `TypeOK` | itself |
| `FrigateSyncProofs` | `TypeCorrect`, `NoDoubleCapture`, `RecordingKept`, `NoneRunsUnknown`, `ForeignUntouched` | `TypeOK`, `CapturedOnce`, `RecordingReturns`, `RunningIsBound`, `ForeignKept` | `SyncInv`, `ViewInv` |
| `FrigateImportProofs` | `ImportImplementsTakeover`, `OriginalsKept` | `Implements` | `ImportInv` |
| | `TypeCorrect`, `ReaderReturns`, `ReportsAreTrue` | `TypeOK`, `ReaderComesBack`, `ResultsAreTrue` | `HeldInv` |

The arguments:

* `CameraHealthProofs`. `IncidentsTrackHealth` is not inductive: a transaction changes
  one camera and leaves the others' rows, bindings and incidents in place, and an
  incident of a candidate must not be open. `HealthInv` adds that every adopted camera
  is `Sound` (incident, event) and every other one has nothing open; `TransitionSound`
  shows that `RecordTransition` re-establishes it for the cameras it is called for,
  whatever the rows became, and `Untouched` that the others keep it. Each operation then
  only has to show that it ends in the transition or touches nothing. `HistoryTracks`
  falls out of the same invariant: `Sound` says where the verdict is, at the top of the
  history or just filed below it (`hidden`), and a transition establishes it for any
  choice of cameras for which it comes late; the outbox and the configuration have
  invariants of their own. `ClosedIncidentsStay`: opening and closing extend a log or
  change its open member (`Continues`), and every transaction is made of these.
* `NotificationProofs`. `DeliveryInv` ties the memory of a worker to the rows: what is
  in a batch was queued unless it was deleted or is a test (`Holding`), attempts count
  recorded answers (`Counted`), a count that was read for a failure is still within the
  limit when it is written (`ReadInLimit`), an accepted message is on its way to being
  recorded, recorded or lost (`Delivered`). Without `Holding` a batch could name settled
  rows and nothing would follow. For pairing, `Pending`: no chat is stored while a poll
  is under way, because only the poll's own end stores one; this makes a late poll
  harmless for a connected chat, although not for the choice of the bot. A request that
  brings no new secret was begun while a chat was stored, and a chat it writes back is
  still stored; so what it may erase is only a chat paired since it began with a new
  secret, which is then the link left in its place.
* `MonitorProofs`. `SuspectsAsked`: the counter of a stream is two or more only if it was
  asked about in this run of failures; the setting back of the siblings is what the proof
  turns on. `PoolStaysBounded`: what a cycle starts fits in the room it found and has no
  snapshot yet, so the bound survives cycles in which earlier snapshots still run.
  `RetriesBounded`: two streams of one camera are never both started, because due times
  are distinct (`DueOK`) and only the first of a camera has a turn; those that start have
  fewer others before them than there are free slots. `RefusalsKept` and `OldWorkDropped`
  follow from what the end of a round does to a row (`RoundEnds`).
* `AddressRecoveryProofs`. `MovesAreExplained` alone says nothing of a rollback or a
  commit, so `IInv` adds the plans (`PlansOK`: one per camera, all carried out before the
  relay is touched, none outside a recovery) and what is true of each moved camera
  (`MovedOK`: its incident is open and its sources are the plan's, unless it was
  unadopted or adopted again). `RInv` follows the relay: while no request is pending and
  no call failed, it has what the database desires except for the cameras a recovery has
  moved and not yet applied, or not yet rolled back. That a revision which is rolled back
  was never marked applied needs one more fact: a plan changes the address the relay had,
  so the revision taken for it is a new one.
* `ScanServiceProofs`. `RequestsStand`: while the worker serves a request it is in the
  file and not empty; that is why the control process refuses another one, and so why
  the removal at the end cannot take one that was never served. `ShownInv` says what each
  step of the worker, and each of the four file accesses of a mark, knows of the inventory
  and the state; a mark and a scan that meet set `overlapped`.
* `FrigateSyncProofs`. `SyncInv` is a conjunction over cameras: `Once` (workers and
  additions Frigate has not acted on are one at most, and none without an entry),
  `Owned` (whose an entry is, and what it records), and what the holder of the lock may
  rely on for the camera it synchronises (`Synced`) or removes (`Removed`). `ViewInv`
  says what an old reading is still good for: an entry is there exactly if the pass has
  seen it, for every camera still to come, because while a job holds the lock nobody
  else adds or deletes an entry, and the job only that of the camera it is at.
  `CapturedOnce` needs `starting`, `RunningIsBound` that a removal turns off before it
  forgets. `ForeignUntouched` goes through the writes one by one.
* `FrigateImportProofs`. The refinement needs to know at each step of the procedure what
  the journal is (`StepJournal`) and that a write never meets an entry older than the
  preview's (`StepVersions`); with these each step of `FrigateImport` is a step of
  `Takeover` or changes nothing it sees. `HeldInv` adds which cameras are on and selected
  at each state of the journal, and that a row which reports unchanged or restored goes
  with an empty journal.
* `TimeOrderProofs`. Stamping and forgetting keep a time order (`StampedOrder`,
  `KeptOrder`); of finitely many members one has the latest time (`Latest`), and a family
  of finite sets has a smallest one (`LeastSet`). The bounds of the pools rest on these.

Only model-checked: liveness (`QueuedIsSettled`, `RefusalEnds`, `OutageNoticed`,
`EveryStreamSampled`, `CameraIsFollowed`, `RelayFollowsRequests`, `NeedyIsScanned`,
`ServiceRecovers`, `SelectedSettles`, `HandoffsEnd`), which needs fairness and ENABLED and
which the prover cannot treat, and the properties that are violated.

## Not modelled, and what could follow

* `sync_imported` (frigate_import.py:792): changes of a camera pushed into an entry
  an import has taken over. It would join `FrigateImport` with the versions of
  `FrigateSync`.
* Inventory merge and identities (inventory.py, camera_identity.py): how a scan result
  is matched with known candidates. Operators over rows with addresses, MACs and
  serial numbers, checked against the rule that an adopted camera keeps its candidate.
* Stream roles (roles.py): a pure choice that `CameraHealth` leaves open.
* The relay activity monitor: byte counters that feed a display and `failing` in
  `ScanService`.
* Proofs: the safety facts behind the liveness results (a due stream keeps its place
  until it is started; a handoff ends through a restoration or its completion), so that
  TLC alone shows only the fairness argument.
* Discovery, the SOAP and RTSP clients, cryptography, configuration parsing,
  diagnostics, the browser interface: input and output without interleavings.
