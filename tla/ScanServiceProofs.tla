-------------------------- MODULE ScanServiceProofs --------------------------
(***************************************************************************)
(* Theorems about ScanService, for every number of cameras, loops and      *)
(* faults: the request file of a scan stands until the worker has served   *)
(* it, the state file shows what was stored, and the types.                *)
(***************************************************************************)
EXTENDS ScanService, TimeOrderProofs

\* The inductive invariant: the request being served is there, and it is not
\* empty, which is what makes the control process refuse another one.
Served == Busy => request = worker.scope /\ worker.scope # {}

LEMMA ServedInit == Init => Served
  BY DEF Init, Served, Busy, Booting, NoScan

\* Steps that change neither the request nor the worker.
LEMMA ServedUntouched == ASSUME Served, UNCHANGED <<request, worker>> PROVE Served'
  BY DEF Served, Busy

\* The control process writes a request only where there is none.
LEMMA ServedControl ==
  ASSUME Served,
         \/ \E scope \in SUBSET Cameras, full \in BOOLEAN : AskForScan(scope, full)
         \/ \E l \in Loops : RequestTargets(l)
  PROVE  Served'
<1>1. ASSUME NEW scope \in SUBSET Cameras, NEW full \in BOOLEAN, AskForScan(scope, full)
      PROVE  Served'
  <2>1. CASE Refused
    BY <1>1, <2>1, ServedUntouched DEF AskForScan
  <2>2. CASE ~Refused
    <3>1. worker' = worker /\ ~Busy
      BY <1>1, <2>2 DEF AskForScan, Refused, Served
    <3> QED BY <3>1 DEF Served, Busy
  <2> QED BY <2>1, <2>2
<1>2. ASSUME NEW l \in Loops, RequestTargets(l)
      PROVE  Served'
  <2>1. CASE paused \/ Refused
    BY <1>2, <2>1, ServedUntouched DEF RequestTargets
  <2>2. CASE ~(paused \/ Refused)
    <3>1. worker' = worker /\ ~Busy
      BY <1>2, <2>2 DEF RequestTargets, Refused, Served
    <3> QED BY <3>1 DEF Served, Busy
  <2> QED BY <2>1, <2>2
<1> QED BY <1>1, <1>2

\* The worker takes a request that is there and removes the one it served.
LEMMA ServedWork == ASSUME Served, Work PROVE Served'
<1>1. CASE Boot
  BY <1>1 DEF Boot, Served, Busy, NoScan
<1>2. CASE TakeRequest
  BY <1>2 DEF TakeRequest, Served, Busy, WorkerStep, files
<1>3. CASE BeginScan
  BY <1>3 DEF BeginScan, Served, Busy, WorkerStep
<1>4. CASE PublishResult
  BY <1>4 DEF PublishResult, Served, Busy, WorkerStep
<1>5. CASE ScanFails
  BY <1>5 DEF ScanFails, Served, Busy, WorkerStep
<1>6. CASE RemoveRequest
  BY <1>6 DEF RemoveRequest, Served, Busy, NoScan
<1>7. ASSUME NEW found \in SUBSET worker.scope, StoreResult(found)
      PROVE  Served'
  BY <1>7 DEF StoreResult, Served, Busy, WorkerStep
<1> QED BY <1>1, <1>2, <1>3, <1>4, <1>5, <1>6, <1>7 DEF Work

LEMMA ServedStep == Served /\ [Next]_vars => Served'
<1> SUFFICES ASSUME Served, [Next]_vars PROVE Served'
  OBVIOUS
<1>1. CASE AskForScan(Cameras, TRUE) \/ \E c \in Cameras : AskForScan({c}, FALSE)
  BY <1>1, ServedControl
<1>2. CASE \E l \in Loops : RequestTargets(l)
  BY <1>2, ServedControl
<1>3. CASE \/ \E l \in Loops : Select(l)
           \/ \E c \in Cameras : Elapse(c) \/ Unadopt(c) \/ Adopt(c) \/ HealthChanges(c)
           \/ PauseEnds \/ Mark \/ Progress
           \/ \E p \in Processes : ProcessEnds(p)
           \/ Supervise \/ UNCHANGED vars
  <2>1. UNCHANGED <<request, worker>>
    <3>1. CASE \E l \in Loops : Select(l)
      BY <3>1 DEF Select, SelectTargets, files
    <3>2. CASE \E c \in Cameras : Elapse(c) \/ Unadopt(c) \/ Adopt(c) \/ HealthChanges(c)
      BY <3>2 DEF Elapse, Unadopt, Adopt, HealthChanges, files
    <3>3. CASE PauseEnds \/ Mark \/ Progress
      BY <3>3 DEF PauseEnds, Mark, MarkReadInventory, MarkInventory, MarkReadState,
                  MarkState, MarkRead, Progress, files
    <3>4. CASE \E p \in Processes : ProcessEnds(p)
      BY <3>4 DEF ProcessEnds, files
    <3>5. CASE Supervise \/ UNCHANGED vars
      BY <3>5 DEF Supervise, DelayRelay, RestartRelay, StopService, vars, files
    <3> QED BY <1>3, <3>1, <3>2, <3>3, <3>4, <3>5
  <2> QED BY <2>1, ServedUntouched
<1>4. CASE Work
  BY <1>4, ServedWork
<1>5. CASE StartService
  BY <1>5 DEF StartService, Served, Busy, Booting, NoScan
<1> QED BY <1>1, <1>2, <1>3, <1>4, <1>5 DEF Next

\* No request is overwritten or removed before its scan is over, although the
\* threads that write it and the worker that removes it share no lock.
THEOREM RequestsStand == Spec => []RequestStands
<1>1. Served => RequestStands
  BY DEF Served, RequestStands
<1> QED BY <1>1, ServedInit, ServedStep, PTL DEF Spec
-----------------------------------------------------------------------------
(* What the state file shows. *)

WorkerOK ==
  worker \in [step : WorkerSteps, scope : SUBSET Cameras, previous : SUBSET Cameras,
              result : SUBSET Cameras]
MarkingOK ==
  marking \in [step : {"none", "inventory", "store", "state", "save"},
               camera : SUBSET Cameras, copy : SUBSET Cameras, status : Statuses]
StateOK == state \in [status : Statuses, online : SUBSET Cameras]

FilesOK ==
  /\ WorkerOK /\ MarkingOK /\ StateOK
  /\ request \subseteq Cameras /\ inventory \subseteq Cameras /\ adopted \subseteq Cameras
  /\ chosen \in [Loops -> SUBSET Cameras]

\* While no mark is under way: a worker that boots finds no inventory shown,
\* a result is published as it was stored, and what was published stands.
ShownByWorker ==
  /\ marking.step = "none"
  /\ worker.step = "boot" => state.status = "starting"
  /\ worker.step = "publish" => worker.result = inventory
  /\ worker.step \in {"idle", "remove"} /\ state.status = "complete" =>
       state.online = inventory

\* A mark that meets no scan changes the inventory first and the state after
\* it; between the two the state lacks the marked camera.
ShownByMark ==
  /\ worker.step = "idle"
  /\ \/ /\ marking.step = "inventory" \/ (marking.step = "store" /\ marking.copy = inventory)
        /\ state.status = "complete" => state.online = inventory
     \/ /\ marking.step = "state"
        /\ state.status = "complete" => state.online \cup marking.camera = inventory
     \/ /\ marking.step = "save"
        /\ marking.status = "complete" => marking.copy \cup marking.camera = inventory

Shown == overlapped \/ ShownByWorker \/ ShownByMark

ShownInv == FilesOK /\ Shown

LEMMA StartingTypes ==
  /\ Booting \in [step : WorkerSteps, scope : SUBSET Cameras, previous : SUBSET Cameras,
                  result : SUBSET Cameras]
  /\ NoScan \in [step : WorkerSteps, scope : SUBSET Cameras, previous : SUBSET Cameras,
                 result : SUBSET Cameras]
  /\ NotMarking \in [step : {"none", "inventory", "store", "state", "save"},
                     camera : SUBSET Cameras, copy : SUBSET Cameras, status : Statuses]
  /\ Booting.step = "boot" /\ NoScan.step = "idle" /\ NotMarking.step = "none"
  BY DEF Booting, NoScan, NotMarking, WorkerSteps, Statuses

LEMMA ShownInit == Init => ShownInv
<1> SUFFICES ASSUME Init PROVE ShownInv
  OBVIOUS
<1>1. FilesOK
  BY StartingTypes DEF Init, FilesOK, WorkerOK, MarkingOK, StateOK, Statuses
<1>2. ShownByWorker
  BY StartingTypes DEF Init, ShownByWorker
<1> QED BY <1>1, <1>2 DEF ShownInv, Shown

\* Steps that leave the files other than the request, the worker and the mark alone.
LEMMA ShownUntouched ==
  ASSUME ShownInv, UNCHANGED <<state, inventory, worker, marking, overlapped>>,
         request' \subseteq Cameras, adopted' \subseteq Cameras,
         chosen' \in [Loops -> SUBSET Cameras]
  PROVE  ShownInv'
  BY DEF ShownInv, FilesOK, WorkerOK, MarkingOK, StateOK, Shown, ShownByWorker, ShownByMark

LEMMA ShownControl ==
  ASSUME ShownInv,
         \/ \E scope \in SUBSET Cameras, full \in BOOLEAN : AskForScan(scope, full)
         \/ \E l \in Loops : RequestTargets(l) \/ Select(l)
         \/ \E c \in Cameras : Elapse(c) \/ Adopt(c) \/ HealthChanges(c)
         \/ PauseEnds \/ \E p \in Processes : ProcessEnds(p)
         \/ DelayRelay \/ RestartRelay \/ StopService \/ UNCHANGED vars
  PROVE  ShownInv'
<1>1. UNCHANGED <<state, inventory, worker, marking, overlapped>>
  BY DEF AskForScan, RequestTargets, Select, SelectTargets, Elapse, Adopt, HealthChanges, PauseEnds,
     ProcessEnds, DelayRelay, RestartRelay, StopService, vars, files
<1>2. request' \subseteq Cameras /\ adopted' \subseteq Cameras /\ chosen' \in [Loops -> SUBSET Cameras]
  <2>1. request \subseteq Cameras /\ adopted \subseteq Cameras /\ chosen \in [Loops -> SUBSET Cameras]
    BY DEF ShownInv, FilesOK
  <2>2. ASSUME NEW scope \in SUBSET Cameras, NEW full \in BOOLEAN, AskForScan(scope, full)
        PROVE  request' \subseteq Cameras /\ chosen' = chosen /\ adopted' = adopted
    BY <2>1, <2>2 DEF AskForScan
  <2>3. ASSUME NEW l \in Loops, RequestTargets(l) \/ Select(l)
        PROVE  request' \subseteq Cameras /\ chosen' \in [Loops -> SUBSET Cameras] /\ adopted' = adopted
    <3>1. CASE RequestTargets(l)
      BY <2>1, <3>1 DEF RequestTargets
    <3>2. CASE Select(l)
      <4>1. PICK targets \in SUBSET Needy : SelectTargets(l, targets)
        BY <3>2 DEF Select
      <4>2. targets \subseteq Cameras
        BY <2>1, <4>1 DEF Needy
      <4>3. chosen' = [chosen EXCEPT ![l] = targets] /\ request' = request /\ adopted' = adopted
        BY <4>1 DEF SelectTargets, files
      <4> QED BY <2>1, <4>2, <4>3
    <3> QED BY <2>3, <3>1, <3>2
  <2>4. ASSUME NEW c \in Cameras, Adopt(c)
        PROVE  request' = request /\ chosen' = chosen /\ adopted' \subseteq Cameras
    BY <2>1, <2>4 DEF Adopt, files, loops
  <2> QED
    BY <2>1, <2>2, <2>3, <2>4 DEF Elapse, HealthChanges, PauseEnds, ProcessEnds, DelayRelay,
       RestartRelay, StopService, vars, files, loops
<1> QED BY <1>1, <1>2, ShownUntouched

\* Unadopting begins the mark of a camera that was online.
LEMMA ShownUnadopt == ASSUME ShownInv, NEW c \in Cameras, Unadopt(c) PROVE ShownInv'
<1>1. /\ UNCHANGED <<state, inventory, worker, request, chosen>> /\ adopted' \subseteq Cameras
  BY DEF Unadopt, files, loops, ShownInv, FilesOK
<1>2. CASE UNCHANGED <<marking, overlapped>>
  BY <1>1, <1>2, ShownUntouched DEF ShownInv, FilesOK
<1>3. CASE /\ Unlocked
           /\ marking' = [NotMarking EXCEPT !.step = "inventory", !.camera = {c}]
           /\ overlapped' = (overlapped \/ worker.step # "idle")
  <2>1. marking' = [step |-> "inventory", camera |-> {c}, copy |-> {}, status |-> "starting"]
    BY <1>3 DEF NotMarking
  <2>2. FilesOK'
    BY <1>1, <2>1 DEF ShownInv, FilesOK, WorkerOK, MarkingOK, StateOK, Statuses
  <2>3. ~overlapped' => ShownByMark'
    BY <1>1, <1>3, <2>1 DEF ShownInv, Shown, ShownByWorker, ShownByMark, Unlocked
  <2> QED BY <2>2, <2>3 DEF ShownInv, Shown
<1> QED BY <1>2, <1>3 DEF Unadopt

\* The mark's reads and writes.
LEMMA ShownMark == ASSUME ShownInv, Mark PROVE ShownInv'
<1>1. WorkerOK /\ MarkingOK /\ StateOK /\ Shown
  BY DEF ShownInv, FilesOK
<1>2. UNCHANGED <<worker, request, chosen, adopted, overlapped>>
  BY DEF Mark, MarkReadInventory, MarkInventory, MarkReadState, MarkState, MarkRead, files, loops
<1>3. CASE MarkReadInventory
  <2>1. /\ marking.step = "inventory" /\ UNCHANGED <<state, inventory>>
        /\ marking' = [marking EXCEPT !.step = "store", !.copy = inventory, !.status = "starting"]
    BY <1>3 DEF MarkReadInventory, MarkRead, files
  <2>2. /\ marking'.step = "store" /\ marking'.copy = inventory /\ MarkingOK'
    BY <1>1, <2>1 DEF MarkingOK, Statuses, ShownInv, FilesOK
  <2>3. FilesOK'
    BY <1>2, <2>1, <2>2 DEF ShownInv, FilesOK, WorkerOK, StateOK
  <2>4. Shown'
    BY <1>1, <1>2, <2>1, <2>2 DEF Shown, ShownByWorker, ShownByMark
  <2> QED BY <2>3, <2>4 DEF ShownInv
<1>4. CASE MarkInventory
  <2>1. /\ marking.step = "store" /\ UNCHANGED state
        /\ inventory' = marking.copy \cup marking.camera /\ marking' = [marking EXCEPT !.step = "state"]
    BY <1>4 DEF MarkInventory
  <2>2. /\ marking'.step = "state" /\ marking'.camera = marking.camera /\ MarkingOK'
    BY <1>1, <2>1 DEF MarkingOK
  <2>3. FilesOK'
    BY <1>1, <1>2, <2>1, <2>2 DEF ShownInv, FilesOK, WorkerOK, StateOK, MarkingOK
  <2>4. Shown'
    BY <1>1, <1>2, <2>1, <2>2 DEF Shown, ShownByWorker, ShownByMark
  <2> QED BY <2>3, <2>4 DEF ShownInv
<1>5. CASE MarkReadState
  <2>1. /\ marking.step = "state" /\ UNCHANGED <<state, inventory>>
        /\ marking' = [marking EXCEPT !.step = "save", !.copy = state.online, !.status = state.status]
    BY <1>5 DEF MarkReadState, MarkRead, files
  <2>2. /\ marking'.step = "save" /\ marking'.copy = state.online /\ marking'.status = state.status
        /\ marking'.camera = marking.camera /\ MarkingOK'
    BY <1>1, <2>1 DEF MarkingOK, StateOK
  <2>3. FilesOK'
    BY <1>2, <2>1, <2>2 DEF ShownInv, FilesOK, WorkerOK, StateOK
  <2>4. Shown'
    BY <1>1, <1>2, <2>1, <2>2 DEF Shown, ShownByWorker, ShownByMark
  <2> QED BY <2>3, <2>4 DEF ShownInv
<1>6. CASE MarkState
  <2>1. /\ marking.step = "save" /\ UNCHANGED inventory
        /\ state' = [status |-> marking.status, online |-> marking.copy \cup marking.camera]
        /\ marking' = NotMarking
    BY <1>6 DEF MarkState
  <2>2. FilesOK'
    BY <1>1, <1>2, <2>1, StartingTypes DEF ShownInv, FilesOK, WorkerOK, StateOK, MarkingOK
  <2>3. Shown'
    BY <1>1, <1>2, <2>1, StartingTypes DEF Shown, ShownByWorker, ShownByMark
  <2> QED BY <2>2, <2>3 DEF ShownInv
<1> QED BY <1>3, <1>4, <1>5, <1>6 DEF Mark

\* The worker's steps; those of a scan meet no mark, or the two overlap.
LEMMA ShownWork == ASSUME ShownInv, Work \/ Progress PROVE ShownInv'
<1>1. WorkerOK /\ MarkingOK /\ StateOK /\ Shown /\ request \subseteq Cameras /\ inventory \subseteq Cameras
  BY DEF ShownInv, FilesOK
<1>2. UNCHANGED <<marking, chosen, adopted>>
  BY DEF Work, Progress, Boot, TakeRequest, BeginScan, StoreResult, PublishResult, ScanFails,
     RemoveRequest, loops
<1>3. worker \in [step : WorkerSteps, scope : SUBSET Cameras, previous : SUBSET Cameras,
                  result : SUBSET Cameras]
  BY <1>1 DEF WorkerOK
<1>4. CASE Boot
  <2>1. /\ worker.step = "boot" /\ worker' = NoScan /\ UNCHANGED <<request, inventory, overlapped>>
        /\ state' = IF state.status = "starting" THEN [status |-> "complete", online |-> inventory] ELSE state
    BY <1>4 DEF Boot, WorkerStep
  <2>2. FilesOK'
    BY <1>1, <1>2, <2>1, StartingTypes DEF ShownInv, FilesOK, WorkerOK, StateOK, MarkingOK, Statuses
  <2>3. Shown'
    BY <1>1, <1>2, <2>1, StartingTypes DEF Shown, ShownByWorker, ShownByMark
  <2> QED BY <2>2, <2>3 DEF ShownInv
<1>5. CASE TakeRequest
  <2>1. /\ worker.step = "idle" /\ UNCHANGED <<request, state, inventory>>
        /\ worker' = [step |-> "taken", scope |-> request, previous |-> inventory, result |-> {}]
        /\ overlapped' = (overlapped \/ marking.step # "none")
    BY <1>5 DEF TakeRequest, WorkerStep, files
  <2>2. FilesOK'
    BY <1>1, <1>2, <2>1 DEF ShownInv, FilesOK, WorkerOK, StateOK, MarkingOK, WorkerSteps
  <2>3. Shown'
    BY <1>1, <1>2, <2>1 DEF Shown, ShownByWorker, ShownByMark
  <2> QED BY <2>2, <2>3 DEF ShownInv
<1>6. CASE BeginScan
  <2>1. /\ worker.step = "taken" /\ UNCHANGED <<request, inventory, overlapped>>
        /\ state' = [status |-> "running", online |-> worker.previous]
        /\ worker' = [worker EXCEPT !.step = "scanning"]
    BY <1>6 DEF BeginScan, WorkerStep
  <2>2. worker'.step = "scanning" /\ WorkerOK'
    BY <1>3, <2>1 DEF WorkerOK, WorkerSteps
  <2>3. FilesOK'
    BY <1>1, <1>2, <1>3, <2>1, <2>2 DEF ShownInv, FilesOK, StateOK, MarkingOK, Statuses
  <2>4. Shown'
    BY <1>1, <1>2, <2>1, <2>2 DEF Shown, ShownByWorker, ShownByMark
  <2> QED BY <2>3, <2>4 DEF ShownInv
<1>7. ASSUME NEW found \in SUBSET worker.scope, StoreResult(found) PROVE ShownInv'
  <2>1. /\ worker.step = "scanning" /\ UNCHANGED <<request, state, overlapped>>
        /\ inventory' = (worker.previous \ worker.scope) \cup found
        /\ worker' = [worker EXCEPT !.step = "publish", !.result = inventory']
    BY <1>7 DEF StoreResult, WorkerStep
  <2>2. inventory' \subseteq Cameras
    BY <1>3, <1>7, <2>1
  <2>3. worker'.step = "publish" /\ worker'.result = inventory' /\ WorkerOK'
    <3> DEFINE inv == inventory'
    <3>1. inv \in SUBSET Cameras /\ worker' = [worker EXCEPT !.step = "publish", !.result = inv]
      BY <2>1, <2>2
    <3> HIDE DEF inv
    <3>2. worker'.step = "publish" /\ worker'.result = inv /\ WorkerOK'
      BY <1>3, <3>1 DEF WorkerOK, WorkerSteps
    <3> QED BY <3>2 DEF inv
  <2>4. FilesOK'
    BY <1>1, <1>2, <2>1, <2>2, <2>3 DEF ShownInv, FilesOK, StateOK, MarkingOK
  <2>5. Shown'
    BY <1>1, <1>2, <2>1, <2>3 DEF Shown, ShownByWorker, ShownByMark
  <2> QED BY <2>4, <2>5 DEF ShownInv
<1>8. CASE PublishResult
  <2>1. /\ worker.step = "publish" /\ UNCHANGED <<request, inventory, overlapped>>
        /\ state' = [status |-> "complete", online |-> worker.result]
        /\ worker' = [worker EXCEPT !.step = "remove"]
    BY <1>8 DEF PublishResult, WorkerStep
  <2>2. worker'.step = "remove" /\ WorkerOK'
    BY <1>3, <2>1 DEF WorkerOK, WorkerSteps
  <2>3. FilesOK'
    BY <1>1, <1>2, <1>3, <2>1, <2>2 DEF ShownInv, FilesOK, StateOK, MarkingOK, Statuses
  <2>4. Shown'
    BY <1>1, <1>2, <2>1, <2>2 DEF Shown, ShownByWorker, ShownByMark
  <2> QED BY <2>3, <2>4 DEF ShownInv
<1>9. CASE ScanFails
  <2>1. /\ worker.step = "scanning" /\ UNCHANGED <<request, inventory, overlapped>>
        /\ state' = [status |-> "error", online |-> worker.previous]
        /\ worker' = [worker EXCEPT !.step = "remove"]
    BY <1>9 DEF ScanFails, WorkerStep
  <2>2. worker'.step = "remove" /\ WorkerOK'
    BY <1>3, <2>1 DEF WorkerOK, WorkerSteps
  <2>3. FilesOK'
    BY <1>1, <1>2, <1>3, <2>1, <2>2 DEF ShownInv, FilesOK, StateOK, MarkingOK, Statuses
  <2>4. Shown'
    BY <1>1, <1>2, <2>1, <2>2 DEF Shown, ShownByWorker, ShownByMark
  <2> QED BY <2>3, <2>4 DEF ShownInv
<1>10. CASE RemoveRequest
  <2>1. /\ worker.step = "remove" /\ UNCHANGED <<state, inventory, overlapped>>
        /\ request' = {} /\ worker' = NoScan
    BY <1>10 DEF RemoveRequest, WorkerStep
  <2>2. FilesOK'
    BY <1>1, <1>2, <2>1, StartingTypes DEF ShownInv, FilesOK, WorkerOK, StateOK, MarkingOK
  <2>3. Shown'
    BY <1>1, <1>2, <2>1, StartingTypes DEF Shown, ShownByWorker, ShownByMark
  <2> QED BY <2>2, <2>3 DEF ShownInv
<1>11. CASE Progress
  <2>1. /\ worker.step = "scanning" /\ UNCHANGED <<request, inventory, worker, overlapped>>
        /\ state' = [state EXCEPT !.status = "running"]
    BY <1>11 DEF Progress, WorkerStep
  <2>2. StateOK'
    BY <1>1, <2>1 DEF StateOK, Statuses
  <2>3. FilesOK'
    BY <1>1, <1>2, <2>1, <2>2 DEF ShownInv, FilesOK, WorkerOK, MarkingOK
  <2>4. Shown'
    BY <1>1, <1>2, <2>1 DEF Shown, ShownByWorker, ShownByMark
  <2> QED BY <2>3, <2>4 DEF ShownInv
<1> QED BY <1>4, <1>5, <1>6, <1>7, <1>8, <1>9, <1>10, <1>11 DEF Work

LEMMA ShownStep == ShownInv /\ [Next]_vars => ShownInv'
<1> SUFFICES ASSUME ShownInv, [Next]_vars PROVE ShownInv'
  OBVIOUS
<1>1. CASE StartService
  <2>1. /\ request' = {} /\ worker' = Booting /\ marking' = NotMarking
        /\ state' = [status |-> "starting", online |-> {}]
        /\ chosen' = [l \in Loops |-> {}] /\ UNCHANGED <<adopted, inventory>>
    BY <1>1 DEF StartService
  <2>2. FilesOK'
    BY <2>1, StartingTypes DEF ShownInv, FilesOK, WorkerOK, StateOK, MarkingOK, Statuses
  <2>3. ShownByWorker'
    BY <2>1, StartingTypes DEF ShownByWorker
  <2> QED BY <2>2, <2>3 DEF ShownInv, Shown
<1>2. CASE AskForScan(Cameras, TRUE) \/ \E c \in Cameras : AskForScan({c}, FALSE)
  BY <1>2, ShownControl
<1>3. CASE \E c \in Cameras : Elapse(c) \/ Unadopt(c) \/ Adopt(c) \/ HealthChanges(c)
  BY <1>3, ShownControl, ShownUnadopt
<1>4. CASE \/ \E l \in Loops : Select(l) \/ RequestTargets(l)
           \/ PauseEnds \/ (\E p \in Processes : ProcessEnds(p)) \/ Supervise \/ UNCHANGED vars
  BY <1>4, ShownControl DEF Supervise
<1>5. CASE Mark \/ Work \/ Progress
  BY <1>5, ShownMark, ShownWork
<1> QED BY <1>1, <1>2, <1>3, <1>4, <1>5 DEF Next

LEMMA ShownAlways == Spec => []ShownInv
  BY ShownInit, ShownStep, PTL DEF Spec

\* Between scans the state file shows the inventory file, although the worker
\* and the control process both read, change and replace the two without a
\* common lock: for every order of scans, marks, ends of processes and starts
\* of the service in which no mark crosses a scan.
THEOREM ScansPublished == Spec => []ResultsPublished
<1>1. ShownInv => ResultsPublished
  BY DEF ShownInv, Shown, ShownByWorker, ShownByMark, ResultsPublished
<1> QED BY <1>1, ShownAlways, PTL
-----------------------------------------------------------------------------
(* Types: the order of attempts, the loops' choices and the supervisor.    *)

\* What TypeOK says beyond FilesOK, in two parts that no action but the start
\* of the service changes together.
ChoicesOK ==
  /\ failing \subseteq Cameras
  /\ \A l \in Loops : Cardinality(chosen[l]) <= TargetLimit
  /\ Timed(attempted) \subseteq Cameras /\ IsTimeOrder(attempted)
  /\ resting \subseteq Cameras
  /\ paused \in BOOLEAN
WatchOK ==
  /\ overlapped \in BOOLEAN
  /\ alive \subseteq Processes
  /\ watch \in {"watching", "delaying", "stopped"}
  /\ relayRestarts \in 0..MaxRelayRestarts
  /\ budget \in [faults : 0..MaxFaults, requests : 0..MaxRequests]

LEMMA RestInit == Init => ChoicesOK /\ WatchOK
<1> SUFFICES ASSUME Init PROVE ChoicesOK /\ WatchOK
  OBVIOUS
<1>1. ChoicesOK
  <2>1. \A l \in Loops : chosen[l] = {}
    BY DEF Init
  <2>2. Cardinality({}) = 0
    BY FS_EmptySet
  <2>3. /\ attempted = {} /\ failing = {} /\ resting = {} /\ paused = FALSE
    BY DEF Init
  <2>4. Timed(attempted) \subseteq Cameras /\ IsTimeOrder(attempted)
    BY <2>3, EmptyOrder
  <2>5. \A l \in Loops : Cardinality(chosen[l]) <= TargetLimit
    BY <2>1, <2>2, ScanAssumption
  <2>6. paused \in BOOLEAN
    BY <2>3
  <2> QED BY <2>3, <2>4, <2>5, <2>6 DEF ChoicesOK
<1>2. WatchOK
  <2>1. overlapped \in BOOLEAN
    BY DEF Init
  <2>2. 0 \in 0..MaxRelayRestarts
    BY ScanAssumption
  <2> QED BY <2>1, <2>2 DEF Init, WatchOK
<1> QED BY <1>1, <1>2

\* A loop chooses among cameras, up to the limit, and its request stamps them.
LEMMA ChoicesLoop ==
  ASSUME FilesOK, ChoicesOK, NEW l \in Loops, Select(l) \/ RequestTargets(l)
  PROVE  ChoicesOK'
<1>1. chosen \in [Loops -> SUBSET Cameras] /\ adopted \subseteq Cameras
  BY DEF FilesOK
<1>2. Cardinality({}) <= TargetLimit
  BY FS_EmptySet, ScanAssumption
<1>3. CASE Select(l)
  <2>1. PICK targets \in SUBSET Needy : SelectTargets(l, targets)
    BY <1>3 DEF Select
  <2>2. /\ attempted' = Kept(attempted, Needy) /\ resting' = resting \cap Needy
        /\ chosen' = [chosen EXCEPT ![l] = targets]
        /\ Cardinality(targets) <= TargetLimit
        /\ UNCHANGED <<failing, paused>>
    BY <2>1 DEF SelectTargets, IsSelection
  <2>3. Timed(attempted') \subseteq Timed(attempted) /\ IsTimeOrder(attempted')
    BY <2>2, KeptOrder DEF ChoicesOK
  <2>4. \A k \in Loops : Cardinality(chosen'[k]) <= TargetLimit
    BY <1>1, <2>2 DEF ChoicesOK
  <2> QED BY <2>2, <2>3, <2>4 DEF ChoicesOK
<1>4. CASE RequestTargets(l)
  <2>1. chosen' = [chosen EXCEPT ![l] = {}] /\ UNCHANGED <<failing, paused>>
    BY <1>4 DEF RequestTargets
  <2>2. \A k \in Loops : Cardinality(chosen'[k]) <= TargetLimit
    BY <1>1, <1>2, <2>1 DEF ChoicesOK
  <2>3. CASE UNCHANGED <<attempted, resting>>
    BY <2>1, <2>2, <2>3 DEF ChoicesOK
  <2>4. CASE attempted' = Stamped(attempted, chosen[l]) /\ resting' = resting \cup chosen[l]
    <3>1. chosen[l] \subseteq Cameras
      BY <1>1
    <3>2. Timed(attempted') = Timed(attempted) \cup chosen[l] /\ IsTimeOrder(attempted')
      BY <2>4, StampedOrder DEF ChoicesOK
    <3> QED BY <2>1, <2>2, <2>4, <3>1, <3>2 DEF ChoicesOK
  <2> QED BY <1>4, <2>3, <2>4 DEF RequestTargets
<1> QED BY <1>3, <1>4

LEMMA ChoicesStep == FilesOK /\ ChoicesOK /\ [Next]_vars => ChoicesOK'
<1> SUFFICES ASSUME FilesOK, ChoicesOK, [Next]_vars PROVE ChoicesOK'
  OBVIOUS
<1>1. ASSUME UNCHANGED <<failing, chosen, attempted, resting, paused>> PROVE ChoicesOK'
  BY <1>1 DEF ChoicesOK
<1>2. ASSUME NEW scope, NEW full \in BOOLEAN, AskForScan(scope, full) PROVE ChoicesOK'
  BY <1>2 DEF AskForScan, ChoicesOK
<1>3. ASSUME NEW l \in Loops, Select(l) \/ RequestTargets(l) PROVE ChoicesOK'
  BY <1>3, ChoicesLoop
<1>4. ASSUME NEW c \in Cameras, Elapse(c) \/ HealthChanges(c) PROVE ChoicesOK'
  BY <1>4 DEF Elapse, HealthChanges, loops, ChoicesOK
<1>5. ASSUME NEW c \in Cameras, Unadopt(c) \/ Adopt(c) PROVE ChoicesOK'
  BY <1>1, <1>5 DEF Unadopt, Adopt, loops
<1>6. CASE PauseEnds
  BY <1>6 DEF PauseEnds, ChoicesOK
<1>7. CASE Mark
  BY <1>1, <1>7 DEF Mark, MarkReadInventory, MarkInventory, MarkReadState, MarkState, MarkRead, loops
<1>8. CASE Work \/ Progress
  BY <1>1, <1>8 DEF Work, Progress, Boot, TakeRequest, BeginScan, StoreResult, PublishResult,
     ScanFails, RemoveRequest, loops
<1>9. ASSUME NEW p \in Processes, ProcessEnds(p) PROVE ChoicesOK'
  BY <1>1, <1>9 DEF ProcessEnds, loops
<1>10. CASE Supervise \/ UNCHANGED vars
  BY <1>1, <1>10 DEF Supervise, DelayRelay, RestartRelay, StopService, vars, loops
<1>11. CASE StartService
  <2>1. /\ chosen' = [l \in Loops |-> {}] /\ attempted' = {} /\ resting' = {}
        /\ paused' = FALSE /\ failing' = failing
    BY <1>11 DEF StartService
  <2>2. \A l \in Loops : Cardinality(chosen'[l]) <= TargetLimit
    BY <2>1, FS_EmptySet, ScanAssumption
  <2> QED BY <2>1, <2>2, EmptyOrder DEF ChoicesOK
<1> QED
  BY <1>2, <1>3, <1>4, <1>5, <1>6, <1>7, <1>8, <1>9, <1>10, <1>11 DEF Next

LEMMA SpendRange ==
  ASSUME WatchOK, NEW what \in {"faults", "requests"}, Spend(what)
  PROVE  budget' \in [faults : 0..MaxFaults, requests : 0..MaxRequests]
  BY ScanAssumption DEF WatchOK, Spend

\* go2rtc is restarted below its limit only, and a restart of the service
\* begins the count anew.
LEMMA WatchStep == WatchOK /\ [Next]_vars => WatchOK'
<1> SUFFICES ASSUME WatchOK, [Next]_vars PROVE WatchOK'
  OBVIOUS
<1>1. ASSUME UNCHANGED <<service, budget>>, overlapped' \in BOOLEAN PROVE WatchOK'
  BY <1>1 DEF WatchOK, service
<1>2. overlapped \in BOOLEAN
  BY DEF WatchOK
<1>3. ASSUME NEW scope, NEW full, AskForScan(scope, full) PROVE WatchOK'
  BY <1>3, SpendRange DEF AskForScan, service, WatchOK
<1>4. ASSUME NEW l \in Loops, Select(l) \/ RequestTargets(l) PROVE WatchOK'
  BY <1>1, <1>2, <1>4 DEF Select, SelectTargets, RequestTargets
<1>5. ASSUME NEW c \in Cameras, Elapse(c) \/ HealthChanges(c) PROVE WatchOK'
  BY <1>1, <1>2, <1>5 DEF Elapse, HealthChanges
<1>6. ASSUME NEW c \in Cameras, Unadopt(c) \/ Adopt(c) PROVE WatchOK'
  <2>1. Spend("requests") /\ UNCHANGED service
    BY <1>6 DEF Unadopt, Adopt
  <2>2. overlapped' \in BOOLEAN
    <3>1. CASE overlapped' = overlapped
      BY <1>2, <3>1
    <3>2. CASE overlapped' = (overlapped \/ worker.step # "idle")
      BY <3>2
    <3> QED BY <1>6, <3>1, <3>2 DEF Unadopt, Adopt
  <2> QED BY <2>1, <2>2, SpendRange DEF WatchOK, service
<1>7. CASE PauseEnds \/ Mark \/ Progress
  BY <1>1, <1>2, <1>7 DEF PauseEnds, Progress, Mark, MarkReadInventory, MarkInventory,
     MarkReadState, MarkState, MarkRead
<1>8. CASE Work
  <2>1. CASE TakeRequest
    BY <1>1, <2>1 DEF TakeRequest
  <2>2. CASE ~TakeRequest
    BY <1>1, <1>2, <1>8, <2>2 DEF Work, Boot, BeginScan, StoreResult, PublishResult, ScanFails,
       RemoveRequest
  <2> QED BY <2>1, <2>2
<1>9. ASSUME NEW p \in Processes, ProcessEnds(p) PROVE WatchOK'
  BY <1>9, SpendRange DEF ProcessEnds, WatchOK
<1>10. CASE Supervise
  <2>1. overlapped' = overlapped /\ budget' = budget
    BY <1>10 DEF Supervise, DelayRelay, RestartRelay, StopService
  <2>2. CASE DelayRelay
    <3>1. relayRestarts' \in 0..MaxRelayRestarts
      BY <2>2, ScanAssumption DEF DelayRelay, WatchOK
    <3> QED BY <1>2, <2>1, <2>2, <3>1 DEF DelayRelay, WatchOK
  <2>3. CASE RestartRelay
    BY <1>2, <2>1, <2>3 DEF RestartRelay, Processes, WatchOK
  <2>4. CASE StopService
    BY <1>2, <2>1, <2>4 DEF StopService, WatchOK
  <2> QED BY <1>10, <2>2, <2>3, <2>4 DEF Supervise
<1>11. CASE StartService
  <2>1. overlapped' \in BOOLEAN
    BY <1>11 DEF StartService
  <2>2. 0 \in 0..MaxRelayRestarts
    BY ScanAssumption
  <2> QED BY <1>11, <2>1, <2>2 DEF StartService, WatchOK
<1>12. CASE UNCHANGED vars
  BY <1>1, <1>2, <1>12 DEF vars
<1> QED
  BY <1>3, <1>4, <1>5, <1>6, <1>7, <1>8, <1>9, <1>10, <1>11, <1>12 DEF Next

\* However loops, requests, scans and ends of processes interleave, no loop
\* holds more targets than a recovery scan may have, go2rtc is restarted at
\* most as often as the service allows, and the times of attempts compare.
THEOREM TypeCorrect == Spec => []TypeOK
<1>1. FilesOK /\ ChoicesOK /\ WatchOK => TypeOK
  BY DEF FilesOK, WorkerOK, MarkingOK, StateOK, ChoicesOK, WatchOK, TypeOK
<1>2. Spec => []FilesOK
  BY ShownAlways, PTL DEF ShownInv
<1>3. Spec => [](ChoicesOK /\ WatchOK)
  BY <1>2, RestInit, ChoicesStep, WatchStep, PTL DEF Spec
<1> QED BY <1>1, <1>2, <1>3, PTL
=============================================================================
