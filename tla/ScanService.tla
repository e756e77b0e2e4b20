----------------------------- MODULE ScanService -----------------------------
(***************************************************************************)
(* Network scans between three processes: the control process              *)
(* (src/camadmiral/app.py) writes a request file, the scan worker          *)
(* (src/camadmiral/scanner_worker.py) serves it and writes the inventory   *)
(* and state files, and the supervisor (src/camadmiral/supervisor.py)      *)
(* keeps the processes alive. Only the control process takes               *)
(* SCAN_REQUEST_LOCK: the worker reads and writes the same files without.  *)
(* Request and state are in memory and are lost with the service; the      *)
(* inventory is kept.                                                      *)
(***************************************************************************)
EXTENDS Naturals, FiniteSets, TimeOrder

CONSTANTS
  Cameras,           \* candidates of the inventory, each with an identity of its own
  Loops,             \* threads that queue recovery scans
  TargetLimit,       \* most cameras of one recovery scan (16 in the code)
  MaxRelayRestarts,  \* restarts of go2rtc before the service gives up (5)
  MaxFaults,         \* bound: processes that end
  MaxRequests        \* bound: operator requests

ASSUME ScanAssumption ==
  /\ IsFiniteSet(Cameras)
  /\ TargetLimit \in Nat /\ MaxRelayRestarts \in Nat
  /\ MaxFaults \in Nat /\ MaxRequests \in Nat

VARIABLES
  failing,    \* cameras with a stalled or unhealthy stream (external)
  adopted,    \* adopted and enabled cameras
  request,    \* the request file: the cameras the scan is about; {} is no file
  state,      \* the state file: status, and the cameras it shows online
  inventory,  \* the inventory file: the cameras it shows online
  worker,     \* handle_scan: its step, its scope, the inventory it read, its result
  marking,    \* _mark_discovery_candidate_online: step, camera, and the file it read
  chosen,     \* targets each loop has picked but not yet requested
  attempted,  \* RECOVERY_SCAN_ATTEMPTS: the order in which cameras were scanned for
  resting,    \* those whose retry interval has not passed
  paused,     \* RECOVERY_SCAN_PAUSED_UNTIL is in the future
  alive,      \* running processes
  watch,      \* what the supervisor does
  relayRestarts,  \* child.restarts of go2rtc
  overlapped, \* ghost: a mark and a scan were under way together
  budget      \* what is left of the bounds

files == <<request, state, inventory>>
loops == <<chosen, attempted, resting, paused>>
service == <<alive, watch, relayRestarts>>
vars == <<failing, adopted, files, worker, marking, loops, service, overlapped, budget>>

Processes == {"go2rtc", "scanner", "control"}
NoScan == [step |-> "idle", scope |-> {}, previous |-> {}, result |-> {}]
Booting == [NoScan EXCEPT !.step = "boot"]
NotMarking == [step |-> "none", camera |-> {}, copy |-> {}, status |-> "starting"]
Statuses == {"starting", "running", "complete", "error"}
WorkerSteps == {"boot", "idle", "taken", "scanning", "publish", "remove"}

\* Type invariant: a loop never asks for more cameras than the limit, and go2rtc
\* is not restarted more often than the service allows.
TypeOK ==
  /\ failing \subseteq Cameras /\ adopted \subseteq Cameras
  /\ request \subseteq Cameras /\ inventory \subseteq Cameras
  /\ state \in [status : Statuses, online : SUBSET Cameras]
  /\ worker \in [step : WorkerSteps, scope : SUBSET Cameras, previous : SUBSET Cameras,
                 result : SUBSET Cameras]
  /\ marking \in [step : {"none", "inventory", "store", "state", "save"},
                  camera : SUBSET Cameras, copy : SUBSET Cameras, status : Statuses]
  /\ chosen \in [Loops -> SUBSET Cameras]
  /\ \A l \in Loops : Cardinality(chosen[l]) <= TargetLimit
  /\ Timed(attempted) \subseteq Cameras /\ IsTimeOrder(attempted)
  /\ resting \subseteq Cameras
  /\ paused \in BOOLEAN /\ overlapped \in BOOLEAN
  /\ alive \subseteq Processes
  /\ watch \in {"watching", "delaying", "stopped"}
  /\ relayRestarts \in 0..MaxRelayRestarts
  /\ budget \in [faults : 0..MaxFaults, requests : 0..MaxRequests]

Init ==
  /\ failing = {} /\ adopted = Cameras
  /\ request = {} /\ state = [status |-> "starting", online |-> {}]
  /\ inventory = Cameras
  /\ worker = Booting /\ marking = NotMarking
  /\ chosen = [l \in Loops |-> {}] /\ attempted = {} /\ resting = {}
  /\ paused = FALSE
  /\ alive = Processes /\ watch = "watching" /\ relayRestarts = 0
  /\ overlapped = FALSE
  /\ budget \in [faults : 0..MaxFaults, requests : 0..MaxRequests]

Spend(what) == budget[what] > 0 /\ budget' = [budget EXCEPT ![what] = @ - 1]

-----------------------------------------------------------------------------
(* The control process. *)

Control == "control" \in alive

\* Wrong on purpose: the request file itself is not looked at.
RefusedByStatus == state.status = "running"

\* A scan is not asked for while another one is.
Refused == state.status = "running" \/ request # {}

\* SCAN_REQUEST_LOCK is free.
Unlocked == marking.step = "none"

\* start_discovery (all cameras) and add_discovery_address (the camera at an
\* address): a refused full scan holds recovery scans back for a while.
AskForScan(scope, full) ==
  /\ Control /\ Unlocked /\ Spend("requests")
  /\ IF Refused THEN paused' = (paused \/ full) /\ UNCHANGED request
     ELSE request' = scope /\ UNCHANGED paused
  /\ UNCHANGED <<failing, adopted, state, inventory, worker, marking, chosen, attempted,
                 resting, service, overlapped>>

\* Cameras that need to be looked for.
Needy == {c \in adopted : c \notin inventory \/ c \in failing}

\* Wrong on purpose: earlier attempts do not count in the order.
GoesFirstByName(c, d) == c = CHOOSE camera \in Cameras : TRUE

\* The order of targets: cameras never looked for, then the oldest attempt.
GoesFirst(c, d) == NotAfter(attempted, c, d)

\* The first targets of those that are due.
IsSelection(targets, due) ==
  /\ targets \subseteq due
  /\ Cardinality(targets) <= TargetLimit
  /\ targets # due => Cardinality(targets) = TargetLimit
  /\ \A c \in targets, d \in due \ targets : GoesFirst(c, d)

\* _queue_targeted_recovery_scan up to the lock: attempts for cameras that need
\* none any more are forgotten.
SelectTargets(l, targets) ==
  /\ Control /\ chosen[l] = {}
  /\ ~paused /\ ~Refused
  /\ IsSelection(targets, Needy \ resting)
  /\ attempted' = Kept(attempted, Needy)
  /\ resting' = resting \cap Needy
  /\ chosen' = [chosen EXCEPT ![l] = targets]
  /\ UNCHANGED <<failing, adopted, files, worker, marking, paused, service, overlapped,
                 budget>>

\* Under the lock the first checks are repeated, not the choice.
RequestTargets(l) ==
  /\ Control /\ Unlocked /\ chosen[l] # {}
  /\ IF paused \/ Refused
     THEN UNCHANGED <<request, attempted, resting>>
     ELSE /\ request' = chosen[l]
          /\ attempted' = Stamped(attempted, chosen[l])
          /\ resting' = resting \cup chosen[l]
  /\ chosen' = [chosen EXCEPT ![l] = {}]
  /\ UNCHANGED <<failing, adopted, state, inventory, worker, marking, paused, service,
                 overlapped, budget>>

\* The retry interval of a camera, or the pause, is over.
Elapse(c) ==
  /\ c \in resting /\ resting' = resting \ {c}
  /\ UNCHANGED <<failing, adopted, files, worker, marking, chosen, attempted, paused,
                 service, overlapped, budget>>

PauseEnds ==
  /\ paused /\ paused' = FALSE
  /\ UNCHANGED <<failing, adopted, files, worker, marking, chosen, attempted, resting,
                 service, overlapped, budget>>

\* unadopt_camera. It marks a camera whose connectivity, decorated with the health of
\* its streams, was online when the request began: whatever the state file shows now.
Unadopt(c) ==
  /\ Control /\ Spend("requests")
  /\ c \in adopted /\ adopted' = adopted \ {c}
  /\ \/ UNCHANGED <<marking, overlapped>>
     \/ /\ Unlocked
        /\ marking' = [NotMarking EXCEPT !.step = "inventory", !.camera = {c}]
        /\ overlapped' = (overlapped \/ worker.step # "idle")
  /\ UNCHANGED <<failing, files, worker, loops, service>>

Adopt(c) ==
  /\ Control /\ Spend("requests")
  /\ c \in state.online /\ adopted' = adopted \cup {c}
  /\ UNCHANGED <<failing, files, worker, marking, loops, service, overlapped>>

\* _mark_discovery_candidate_online: each file is read, changed and replaced.
MarkRead(step, online, status, next) ==
  /\ Control /\ marking.step = step
  /\ marking' = [marking EXCEPT !.step = next, !.copy = online, !.status = status]
  /\ UNCHANGED <<failing, adopted, files, worker, loops, service, overlapped, budget>>

MarkReadInventory == MarkRead("inventory", inventory, "starting", "store")
MarkReadState == MarkRead("state", state.online, state.status, "save")

MarkInventory ==
  /\ Control /\ marking.step = "store"
  /\ inventory' = marking.copy \cup marking.camera
  /\ marking' = [marking EXCEPT !.step = "state"]
  /\ UNCHANGED <<failing, adopted, request, state, worker, loops, service, overlapped,
                 budget>>

MarkState ==
  /\ Control /\ marking.step = "save"
  /\ state' = [status |-> marking.status, online |-> marking.copy \cup marking.camera]
  /\ marking' = NotMarking
  /\ UNCHANGED <<failing, adopted, request, inventory, worker, loops, service, overlapped,
                 budget>>

-----------------------------------------------------------------------------
(* The scan worker. *)

WorkerStep(from) == "scanner" \in alive /\ worker.step = from

\* Wrong on purpose: the state starts empty although there is an inventory.
BootEmpty ==
  /\ WorkerStep("boot")
  /\ state' = IF state.status = "starting" THEN [status |-> "complete", online |-> {}]
              ELSE state
  /\ worker' = NoScan
  /\ UNCHANGED <<failing, adopted, request, inventory, marking, loops, service, overlapped,
                 budget>>

\* main: the state is taken from the inventory when there is none.
Boot ==
  /\ WorkerStep("boot")
  /\ state' = IF state.status = "starting"
              THEN [status |-> "complete", online |-> inventory] ELSE state
  /\ worker' = NoScan
  /\ UNCHANGED <<failing, adopted, request, inventory, marking, loops, service, overlapped,
                 budget>>

\* handle_scan: the request and the inventory are read, then the state says so.
TakeRequest ==
  /\ WorkerStep("idle") /\ request # {}
  /\ worker' = [step |-> "taken", scope |-> request, previous |-> inventory, result |-> {}]
  /\ overlapped' = (overlapped \/ marking.step # "none")
  /\ UNCHANGED <<failing, adopted, files, marking, loops, service, budget>>

BeginScan ==
  /\ WorkerStep("taken")
  /\ state' = [status |-> "running", online |-> worker.previous]
  /\ worker' = [worker EXCEPT !.step = "scanning"]
  /\ UNCHANGED <<failing, adopted, request, inventory, marking, loops, service, overlapped,
                 budget>>

\* scan_progress: whatever the state was, it is running.
Progress ==
  /\ WorkerStep("scanning") /\ state' = [state EXCEPT !.status = "running"]
  /\ UNCHANGED <<failing, adopted, request, inventory, worker, marking, loops, service,
                 overlapped, budget>>

\* The scan is over: rows outside its scope stay as they were read.
StoreResult(found) ==
  /\ WorkerStep("scanning") /\ found \subseteq worker.scope
  /\ inventory' = (worker.previous \ worker.scope) \cup found
  /\ worker' = [worker EXCEPT !.step = "publish", !.result = inventory']
  /\ UNCHANGED <<failing, adopted, request, state, marking, loops, service, overlapped,
                 budget>>

PublishResult ==
  /\ WorkerStep("publish")
  /\ state' = [status |-> "complete", online |-> worker.result]
  /\ worker' = [worker EXCEPT !.step = "remove"]
  /\ UNCHANGED <<failing, adopted, request, inventory, marking, loops, service, overlapped,
                 budget>>

\* No subnet could be scanned.
ScanFails ==
  /\ WorkerStep("scanning")
  /\ state' = [status |-> "error", online |-> worker.previous]
  /\ worker' = [worker EXCEPT !.step = "remove"]
  /\ UNCHANGED <<failing, adopted, request, inventory, marking, loops, service, overlapped,
                 budget>>

RemoveRequest ==
  /\ WorkerStep("remove")
  /\ request' = {} /\ worker' = NoScan
  /\ UNCHANGED <<failing, adopted, state, inventory, marking, loops, service, overlapped,
                 budget>>

-----------------------------------------------------------------------------
(* The supervisor, and what it watches. *)

ProcessEnds(p) ==
  /\ p \in alive /\ watch # "stopped" /\ Spend("faults")
  /\ alive' = alive \ {p}
  /\ UNCHANGED <<failing, adopted, files, worker, marking, loops, watch, relayRestarts,
                 overlapped>>

\* Wrong on purpose: a scan worker that ended is not noticed.
MustStopForControl ==
  "control" \notin alive \/ ("go2rtc" \notin alive /\ relayRestarts >= MaxRelayRestarts)

\* A child that is not restarted has ended, or go2rtc too often.
MustStop ==
  \/ ~ {"scanner", "control"} \subseteq alive
  \/ "go2rtc" \notin alive /\ relayRestarts >= MaxRelayRestarts

\* Wrong on purpose: one restart too many.
DelayRelayOnceMore ==
  /\ watch = "watching" /\ "go2rtc" \notin alive /\ relayRestarts <= MaxRelayRestarts
  /\ relayRestarts' = relayRestarts + 1
  /\ watch' = "delaying"
  /\ UNCHANGED <<failing, adopted, files, worker, marking, loops, alive, overlapped, budget>>

\* go2rtc is looked at first, and nothing else is while its restart is delayed.
DelayRelay ==
  /\ watch = "watching" /\ "go2rtc" \notin alive /\ relayRestarts < MaxRelayRestarts
  /\ relayRestarts' = relayRestarts + 1
  /\ watch' = "delaying"
  /\ UNCHANGED <<failing, adopted, files, worker, marking, loops, alive, overlapped, budget>>

RestartRelay ==
  /\ watch = "delaying"
  /\ alive' = alive \cup {"go2rtc"} /\ watch' = "watching"
  /\ UNCHANGED <<failing, adopted, files, worker, marking, loops, relayRestarts, overlapped,
                 budget>>

\* stop_children: the service ends.
StopService ==
  /\ watch = "watching" /\ MustStop
  /\ alive' = {} /\ watch' = "stopped"
  /\ UNCHANGED <<failing, adopted, files, worker, marking, loops, relayRestarts, overlapped,
                 budget>>

\* The container runtime starts it again, with an empty /run/camadmiral.
StartService ==
  /\ watch = "stopped"
  /\ alive' = Processes /\ watch' = "watching" /\ relayRestarts' = 0
  /\ request' = {} /\ state' = [status |-> "starting", online |-> {}]
  /\ worker' = Booting /\ marking' = NotMarking
  /\ chosen' = [l \in Loops |-> {}] /\ attempted' = {} /\ resting' = {}
  /\ paused' = FALSE /\ overlapped' = FALSE
  /\ UNCHANGED <<failing, adopted, inventory, budget>>

\* Streams fail and work again.
HealthChanges(c) ==
  /\ failing' = IF c \in failing THEN failing \ {c} ELSE failing \cup {c}
  /\ UNCHANGED <<adopted, files, worker, marking, loops, service, overlapped, budget>>

-----------------------------------------------------------------------------
Mark == MarkReadInventory \/ MarkInventory \/ MarkReadState \/ MarkState

Work ==
  \/ Boot \/ TakeRequest \/ BeginScan \/ PublishResult \/ RemoveRequest \/ ScanFails
  \/ \E found \in SUBSET worker.scope : StoreResult(found)

Select(l) == \E targets \in SUBSET Needy : SelectTargets(l, targets)

Supervise == DelayRelay \/ RestartRelay \/ StopService

Next ==
  \/ AskForScan(Cameras, TRUE) \/ \E c \in Cameras : AskForScan({c}, FALSE)
  \/ \E l \in Loops : Select(l) \/ RequestTargets(l)
  \/ \E c \in Cameras : Elapse(c) \/ Unadopt(c) \/ Adopt(c) \/ HealthChanges(c)
  \/ PauseEnds \/ Mark \/ Work \/ Progress
  \/ \E p \in Processes : ProcessEnds(p)
  \/ Supervise \/ StartService

\* Threads and processes go on, and time passes. A loop finds the files free if
\* they are so again and again.
Fairness ==
  /\ WF_vars(Work) /\ WF_vars(Mark) /\ WF_vars(PauseEnds)
  /\ \A l \in Loops : SF_vars(Select(l)) /\ WF_vars(RequestTargets(l))
  /\ \A c \in Cameras : WF_vars(Elapse(c))
  /\ WF_vars(Supervise) /\ WF_vars(StartService)

Spec == Init /\ [][Next]_vars
FairSpec == Spec /\ Fairness

-----------------------------------------------------------------------------
(* Properties. *)

Busy == worker.step \notin {"boot", "idle"}

\* The request a scan serves is there until its end: two threads of the control
\* process and the worker share no lock over the file, and still no accepted
\* request is overwritten or removed unserved.
RequestStands == Busy => request = worker.scope

\* Between scans the state shows the inventory, unless a mark crossed a scan.
ResultsPublished ==
  worker.step = "idle" /\ marking.step = "none" /\ state.status = "complete" =>
    state.online = inventory \/ overlapped

\* However many cameras need to be looked for at once, each is, with a few at a
\* time, failed scans, operator scans and restarts in between. A camera that
\* fails anew goes before those tried already, so this is about times when no
\* stream changes its mind; and no mark may have crossed a scan.
Steady == <>[][UNCHANGED failing]_vars

NeedyIsScanned ==
  Steady => \A c \in Cameras : c \in Needy ~> c \in request \/ c \notin Needy \/ overlapped

\* The service comes back as a whole, whichever of its processes ends and when.
ServiceRecovers == alive # Processes ~> alive = Processes

\* app.py:2496: "Keep a just-unadopted reachable candidate online until the next
\* scan.": there is a next scan, so a running one is over some time.
StatusSettles == state.status = "running" ~> state.status # "running"
=============================================================================
