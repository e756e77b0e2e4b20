--------------------------- MODULE FrigateSyncProofs ---------------------------
(***************************************************************************)
(* Synchronisation with Frigate, for any set of cameras and any number of  *)
(* failures and requests: no camera is captured twice, none runs without a *)
(* binding, no recording setting is lost and no foreign entry is changed.  *)
(* The inductive invariant says what each step of the holder of            *)
(* FRIGATE_LOCK knows of the camera it is at, and who an entry belongs to. *)
(***************************************************************************)
EXTENDS FrigateSync, TLAPS

Retiring == {"recordOff", "turnOff"}
Busy == {"disable", "await", "camera", "enable", "streams", "restart", "verify", "forget"}

\* Workers that run, and additions that will start some.
Once(c) ==
  /\ workers[c] + starting[c] <= 1
  /\ ~Exists(c) => workers[c] = 0 /\ starting[c] = 0

\* An entry of the integration's own is there, is bound and selected while it is
\* on, and records what the operator chose, or what the marker remembers.
Owned(c) ==
  /\ c \in mine => Exists(c)
  /\ c \in mine /\ entry[c].on => Bound(c) /\ c \in selected
  /\ Bound(c) /\ Exists(c) /\ marker[c] = {} => c \in mine
  /\ marker[c] \in {{}, {TRUE}, {FALSE}}
  /\ c \in mine \ crossed => marker[c] \subseteq {choice[c]} /\ (marker[c] = {} => entry[c].record = choice[c])

\* What the holder of the lock may rely on for the camera it synchronises.
Synced(c) ==
  /\ c \in job.todo /\ job.step \in Busy \cup {"choose"} => c \in selected
  /\ c \in job.at /\ job.step \in Busy => job.at = {c} /\ c \in selected /\ Bound(c)
  /\ c \in job.at /\ job.step \in Busy \ {"disable"} => Want(c) # 0
  /\ c \in job.at /\ job.step \in {"enable", "streams", "restart", "verify", "forget"}
       => c \in mine /\ (c \notin crossed => entry[c].record = choice[c])

\* What it may rely on for the camera it removes.
Removed(c) ==
  /\ c \in job.at /\ job.step \in Retiring => marker[c] # {}
  /\ c \in job.scope /\ job.step \in {"remember"} \cup Retiring /\ c \in mine /\ entry[c].on => c \in job.dropped
  /\ c \in job.scope /\ job.step \in {"deselect", "unbind"} => ~(c \in mine /\ entry[c].on)

\* What the job has seen of the cameras still to be synchronised is what is there,
\* because nobody adds or deletes an entry while the job holds the lock but itself,
\* and it only adds that of the camera it is at.
Viewed(c) ==
  /\ c \in job.todo /\ job.step = "choose" => (Seen(c) <=> Exists(c))
  /\ c \in job.todo \ job.at /\ job.step \in Busy => (Seen(c) <=> Exists(c))
  /\ c \in job.at /\ job.step = "camera" => (Seen(c) <=> Exists(c))

ViewInv == \A c \in Cameras : Viewed(c)

CameraInv(c) == Once(c) /\ Owned(c) /\ Synced(c) /\ Removed(c)

SyncInv == TypeOK /\ \A c \in Cameras : CameraInv(c)

-----------------------------------------------------------------------------
(* What a step does to the job, and what it leaves alone. *)

LEMMA IdleJob ==
  /\ Idle \in Jobs
  /\ Idle.step = "none" /\ Idle.at = {} /\ Idle.todo = {} /\ Idle.scope = {}
<1>1. MaxVersion \in Nat
  BY SyncAssumption
<1> QED
  BY <1>1 DEF Idle, Jobs, Operations, JobSteps, Unseen, Views

LEMMA LookViews == ASSUME TypeOK PROVE Look \in Views
<1>1. ASSUME NEW d \in Cameras
      PROVE  /\ entry[d].version \in 0..MaxVersion /\ entry[d].on \in BOOLEAN
             /\ alias[d] \in 0..MaxVersion /\ (workers[d] > 0) \in BOOLEAN
  BY DEF TypeOK, Entries
<1> QED
  BY <1>1 DEF Look, Views

LEMMA ConfigViews ==
  ASSUME TypeOK, NEW entries \in [Cameras -> Entries]
  PROVE  ConfigRead(entries) \in Views
<1>1. job.view \in Views
  BY DEF TypeOK, Jobs
<1>2. \A d \in Cameras : entries[d].version \in 0..MaxVersion /\ entries[d].on \in BOOLEAN
  BY DEF Entries
<1> QED
  BY <1>1, <1>2 DEF ConfigRead, Views

LEMMA EndedJob ==
  ASSUME TypeOK, Ended
  PROVE  job' = Idle /\ queued' \subseteq Cameras
  BY DEF Ended, TypeOK

LEMMA PlanJob ==
  ASSUME TypeOK, NEW S \in SUBSET Cameras, NEW restart \in BOOLEAN, NEW view \in Views
  PROVE  /\ Plan(S, restart, view) \in Jobs /\ Plan(S, restart, view).step = "choose"
         /\ Plan(S, restart, view).at = {} /\ Plan(S, restart, view).todo = S
         /\ Plan(S, restart, view).view = view
<1>1. [c \in Cameras |-> IF c \in S \cap enabled THEN wanted[c] ELSE 0] \in [Cameras -> 0..MaxVersion]
  BY SyncAssumption DEF TypeOK, Versions
<1> QED
  BY <1>1 DEF Plan, Idle, Jobs, Operations, JobSteps

\* A camera is done with, or gone on with, whatever is read again at it.
NextCamera(c) == \E view \in Views : DoneSeeing(c, view)
NextStep(c, step) == \E view \in Views : WorkSeeing(c, step, view)

LEMMA Goes ==
  ASSUME TypeOK
  PROVE  /\ \A c \in Cameras : Done(c) => NextCamera(c)
         /\ \A c \in Cameras, step \in JobSteps : Work(c, step) => NextStep(c, step)
<1>1. job.view \in Views
  BY DEF TypeOK, Jobs
<1> QED
  BY <1>1 DEF Done, Work, NextCamera, NextStep

LEMMA DoneJob ==
  ASSUME TypeOK, NEW c \in Cameras, NextCamera(c)
  PROVE  /\ job' \in Jobs /\ queued' = queued
         /\ job'.step = "choose" /\ job'.at = {} /\ job'.todo = job.todo \ {c}
<1>1. PICK view \in Views : DoneSeeing(c, view)
  BY DEF NextCamera
<1> QED
  BY <1>1 DEF DoneSeeing, TypeOK, Jobs, JobSteps

LEMMA WorkJob ==
  ASSUME TypeOK, NEW c \in Cameras, NEW step \in JobSteps, NextStep(c, step)
  PROVE  /\ job' \in Jobs /\ queued' = queued /\ job'.step = step /\ job'.at = {c}
         /\ job'.todo = job.todo /\ job'.plan = job.plan /\ job'.scope = job.scope /\ job'.dropped = job.dropped
<1>1. PICK view \in Views : WorkSeeing(c, step, view)
  BY DEF NextStep
<1> QED
  BY <1>1 DEF WorkSeeing, TypeOK, Jobs

LEMMA SpendBudget ==
  ASSUME TypeOK, Spend("faults") \/ Spend("requests")
  PROVE  budget' \in [faults : 0..MaxFaults, requests : 0..MaxRequests]
<1>1. MaxFaults \in Nat /\ MaxRequests \in Nat
  BY SyncAssumption
<1> QED
  BY <1>1 DEF Spend, TypeOK

LEMMA CostsBudget ==
  ASSUME TypeOK, NEW out, Costs(out)
  PROVE  budget' \in [faults : 0..MaxFaults, requests : 0..MaxRequests]
  BY SpendBudget DEF Costs, TypeOK

\* A camera that a step leaves alone.
Alone(c) ==
  /\ entry'[c] = entry[c] /\ workers'[c] = workers[c] /\ starting'[c] = starting[c]
  /\ marker'[c] = marker[c] /\ choice'[c] = choice[c]
  /\ Bound(c)' <=> Bound(c)
  /\ c \in selected' <=> c \in selected
  /\ c \in mine' <=> c \in mine
  /\ c \in crossed' <=> c \in crossed

LEMMA AloneOwned ==
  ASSUME NEW c, Alone(c), Once(c), Owned(c)
  PROVE  Once(c)' /\ Owned(c)'
  BY DEF Alone, Once, Owned, Exists

\* The lock is free: nobody relies on anything.
LEMMA IdleRelies ==
  ASSUME NEW c, job' = Idle
  PROVE  Synced(c)' /\ Removed(c)'
  BY IdleJob DEF Synced, Removed, Busy, Retiring

\* Between two cameras of a synchronisation.
LEMMA DoneRelies ==
  ASSUME NEW c \in Cameras, NEW d \in Cameras, TypeOK, NextCamera(c), Synced(d), job.step \in Busy \cup {"choose"},
         d \in selected => d \in selected'
  PROVE  Synced(d)' /\ Removed(d)'
  BY DoneJob DEF Synced, Removed, Busy, Retiring

\* A synchronisation goes on with another step of the same camera.
LEMMA WorkRelies ==
  ASSUME NEW c \in Cameras, NEW d \in Cameras, NEW step \in Busy, TypeOK, NextStep(c, step), d # c,
         Synced(d), job.step \in Busy \cup {"choose"}, d \in selected => d \in selected'
  PROVE  Synced(d)' /\ Removed(d)'
<1>1. step \in JobSteps
  BY DEF Busy, JobSteps
<1> QED
  BY <1>1, WorkJob DEF Synced, Removed, Busy, Retiring

LEMMA AttemptedBinding ==
  ASSUME TypeOK, NEW c \in Cameras, NEW v \in 0..MaxVersion
  PROVE  /\ Attempted(c, v) \in [Cameras -> Bindings] /\ Attempted(c, v)[c].status = "pending"
         /\ \A d \in Cameras \ {c} : Attempted(c, v)[d] = binding[d]
<1> DEFINE b == [binding[c] EXCEPT !.status = "pending", !.desired = v]
<1>1. binding \in [Cameras -> Bindings]
  BY DEF TypeOK
<1>2. b \in Bindings /\ b.status = "pending"
  BY <1>1 DEF Bindings
<1>3. Attempted(c, v) = [binding EXCEPT ![c] = b]
  BY DEF Attempted
<1> HIDE DEF b
<1> QED
  BY <1>1, <1>2, <1>3

LEMMA FailedBinding ==
  ASSUME TypeOK, NEW c \in Cameras
  PROVE  /\ Failed(c) \in [Cameras -> Bindings] /\ Failed(c)[c].status = "error"
         /\ \A d \in Cameras \ {c} : Failed(c)[d] = binding[d]
  BY DEF Failed, TypeOK, Bindings

LEMMA AppliedBinding ==
  ASSUME TypeOK, NEW c \in Cameras, NEW v \in 0..MaxVersion
  PROVE  /\ Applied(c, v) \in [Cameras -> Bindings] /\ Applied(c, v)[c].status = "applied"
         /\ \A d \in Cameras \ {c} : Applied(c, v)[d] = binding[d]
<1> DEFINE b == [binding[c] EXCEPT !.status = "applied", !.applied = v]
<1>1. binding \in [Cameras -> Bindings]
  BY DEF TypeOK
<1>2. b \in Bindings /\ b.status = "applied"
  BY <1>1 DEF Bindings
<1>3. Applied(c, v) = [binding EXCEPT ![c] = b]
  BY DEF Applied
<1> HIDE DEF b
<1> QED
  BY <1>1, <1>2, <1>3

LEMMA OnBinding ==
  ASSUME NEW b \in [Cameras -> Bindings], NEW c \in Cameras, NEW on \in BOOLEAN
  PROVE  /\ [b EXCEPT ![c].on = on] \in [Cameras -> Bindings] /\ [b EXCEPT ![c].on = on][c].status = b[c].status
         /\ \A d \in Cameras \ {c} : [b EXCEPT ![c].on = on][d] = b[d]
  BY DEF Bindings

LEMMA WantVersion ==
  ASSUME TypeOK, NEW c \in Cameras
  PROVE  Want(c) \in 0..MaxVersion
  BY DEF TypeOK, Want, Jobs

-----------------------------------------------------------------------------
(* Synchronisation. *)

\* Steps after which the synchronisation goes on with the next camera.
LEMMA NextCameraInv ==
  ASSUME SyncInv, NEW c \in Cameras, job.step \in Busy \cup {"choose"}, NextCamera(c), TypeOK',
         selected' = selected, \A d \in Cameras : Once(d)' /\ Owned(d)'
  PROVE  SyncInv'
  BY DoneRelies DEF SyncInv, CameraInv

\* The steps that change at most what CamAdmiral remembers of the camera.
LEMMA RememberedInv ==
  ASSUME SyncInv, NEW c \in Cameras,
         SkipDisabled(c) \/ ReportConflict(c) \/ HoldRetired(c) \/ RefuseCamera(c) \/ KeepInPlace(c)
           \/ Awaited(c) \/ TimedOut(c)
  PROVE  SyncInv'
<1>1. TypeOK /\ CameraInv(c) /\ Want(c) \in 0..MaxVersion
  BY WantVersion DEF SyncInv
<1>2. /\ NextCamera(c) /\ job.step \in Busy \cup {"choose"}
      /\ UNCHANGED <<adopted, selected, enabled, wanted, marker, frigate, ghosts>>
  <2>1. CASE Awaited(c)
    BY <1>1, <2>1, LookViews DEF Awaited, NextCamera, At, Busy
  <2>2. CASE ~Awaited(c)
    BY <1>1, <2>2, Goes
    DEF SkipDisabled, ReportConflict, HoldRetired, RefuseCamera, KeepInPlace, TimedOut, Chosen, At, Busy
  <2> QED
    BY <2>1, <2>2
<1>3. /\ conflict' \subseteq selected
      /\ budget' \in [faults : 0..MaxFaults, requests : 0..MaxRequests]
  BY <1>1, SpendBudget
  DEF SkipDisabled, ReportConflict, HoldRetired, RefuseCamera, KeepInPlace, Awaited, TimedOut, TypeOK
<1>4. binding' \in [Cameras -> Bindings] /\ \A d \in Cameras : Bound(d)' <=> Bound(d)
  <2>1. CASE SkipDisabled(c) \/ ReportConflict(c) \/ HoldRetired(c) \/ RefuseCamera(c)
    BY <1>1, <2>1 DEF SkipDisabled, ReportConflict, HoldRetired, RefuseCamera, TypeOK, Bound
  <2>2. CASE KeepInPlace(c) \/ Awaited(c)
    <3>1. Bound(c) /\ binding' = Applied(c, Want(c))
      BY <1>1, <2>2 DEF KeepInPlace, InPlace, Awaited, At, Working, CameraInv, Synced, Busy
    <3> QED
      BY <1>1, <3>1, AppliedBinding DEF Bound
  <2>3. CASE TimedOut(c)
    <3>1. Bound(c) /\ binding' = Failed(c)
      BY <1>1, <2>3 DEF TimedOut, At, Working, CameraInv, Synced, Busy
    <3> QED
      BY <1>1, <3>1, FailedBinding DEF Bound
  <2> QED
    BY <2>1, <2>2, <2>3
<1>5. TypeOK'
  BY <1>1, <1>2, <1>3, <1>4, DoneJob DEF TypeOK, frigate, ghosts
<1>6. \A d \in Cameras : Alone(d)
  BY <1>2, <1>4 DEF Alone, frigate, ghosts
<1> QED
  BY <1>2, <1>5, <1>6, AloneOwned, NextCameraInv DEF SyncInv, CameraInv

\* An attempt begins: CamAdmiral is bound to the camera from here on.
LEMMA AttemptInv ==
  ASSUME SyncInv, ViewInv, NEW c \in Cameras, AttemptDisable(c) \/ AttemptCamera(c)
  PROVE  SyncInv'
<1>1. TypeOK /\ CameraInv(c) /\ Want(c) \in 0..MaxVersion
  BY WantVersion DEF SyncInv
<1>2. /\ UNCHANGED <<adopted, selected, enabled, wanted, marker, frigate, ghosts, budget>>
      /\ Chosen(c) /\ conflict' = conflict \ {c}
  BY DEF AttemptDisable, AttemptCamera, NeedsWork
<1>3. PICK step \in {"disable", "await", "camera"} : Work(c, step) /\ (step # "disable" => Want(c) # 0)
  BY DEF AttemptDisable, AttemptCamera, NeedsWork
<1>4. step \in JobSteps /\ step \in Busy
  BY DEF JobSteps, Busy
<1>5. /\ binding' \in [Cameras -> Bindings] /\ binding'[c].status = "pending"
      /\ \A d \in Cameras \ {c} : binding'[d] = binding[d]
  <2>1. CASE AttemptDisable(c)
    <3>1. binding[c].desired \in 0..MaxVersion
      BY <1>1 DEF TypeOK, Bindings
    <3> DEFINE b == Attempted(c, binding[c].desired)
    <3>2. binding' = [b EXCEPT ![c].on = FALSE]
      BY <2>1 DEF AttemptDisable
    <3>3. b \in [Cameras -> Bindings] /\ b[c].status = "pending" /\ \A d \in Cameras \ {c} : b[d] = binding[d]
      BY <1>1, <3>1, AttemptedBinding
    <3> HIDE DEF b
    <3> QED
      BY <3>2, <3>3, OnBinding
  <2>2. CASE AttemptCamera(c)
    BY <1>1, <2>2, AttemptedBinding DEF AttemptCamera
  <2> QED
    BY <2>1, <2>2
<1>6. /\ job' \in Jobs /\ queued' = queued /\ job'.step = step /\ job'.at = {c}
      /\ job'.todo = job.todo /\ job'.plan = job.plan
  BY <1>1, <1>3, <1>4, Goes, WorkJob
<1>7. TypeOK'
  BY <1>1, <1>2, <1>5, <1>6 DEF TypeOK, frigate, ghosts
<1>8. ASSUME NEW d \in Cameras, d # c PROVE CameraInv(d)'
  <2>1. Alone(d)
    BY <1>2, <1>5, <1>8 DEF Alone, Bound, frigate, ghosts
  <2>2. CameraInv(d) /\ job.step \in Busy \cup {"choose"}
    BY <1>2 DEF SyncInv, Chosen, At
  <2> QED
    BY <1>1, <1>2, <1>3, <1>4, <1>8, <2>1, <2>2, AloneOwned, Goes, WorkRelies DEF CameraInv
<1>9. CameraInv(c)'
  <2>1. ~Bound(c) /\ Exists(c) /\ marker[c] = {} => FALSE
    BY <1>2 DEF AttemptDisable, AttemptCamera, NeedsWork, Claimed, ViewInv, Viewed, Chosen, At
  <2>2. Once(c)' /\ Owned(c)'
    BY <1>1, <1>2, <1>5, <2>1 DEF CameraInv, Once, Owned, Bound, Exists, frigate, ghosts
  <2>3. c \in selected
    BY <1>1, <1>2 DEF CameraInv, Synced, Chosen, At
  <2>4. Synced(c)' /\ Removed(c)'
    BY <1>2, <1>3, <1>5, <1>6, <2>3 DEF Synced, Removed, Bound, Busy, Retiring, Want
  <2> QED
    BY <2>2, <2>4 DEF CameraInv
<1> QED
  BY <1>7, <1>8, <1>9 DEF SyncInv

\* An entry that changes at one camera only.
LEMMA OneEntry ==
  ASSUME TypeOK, NEW c \in Cameras, NEW e \in Entries
  PROVE  /\ [entry EXCEPT ![c] = e] \in [Cameras -> Entries] /\ [entry EXCEPT ![c] = e][c] = e
         /\ \A d \in Cameras \ {c} : [entry EXCEPT ![c] = e][d] = entry[d]
  BY DEF TypeOK

LEMMA SwitchedEntry ==
  ASSUME TypeOK, NEW c \in Cameras, NEW on \in BOOLEAN
  PROVE  /\ [entry[c] EXCEPT !.on = on] \in Entries /\ [entry[c] EXCEPT !.on = on].on = on
         /\ [entry[c] EXCEPT !.on = on].version = entry[c].version
         /\ [entry[c] EXCEPT !.on = on].record = entry[c].record
         /\ [entry[c] EXCEPT !.record = on] \in Entries /\ [entry[c] EXCEPT !.record = on].record = on
         /\ [entry[c] EXCEPT !.record = on].version = entry[c].version
         /\ [entry[c] EXCEPT !.record = on].on = entry[c].on
  BY DEF TypeOK, Entries

\* The result of a write at a camera that is bound: it is bound still.
LEMMA DisableInv ==
  ASSUME SyncInv, NEW c \in Cameras, Disable(c)
  PROVE  SyncInv'
<1>1. TypeOK /\ CameraInv(c) /\ job.step = "disable" /\ c \in job.at
  BY DEF SyncInv, Disable, At, Working
<1>2. /\ UNCHANGED <<adopted, selected, enabled, wanted, conflict, marker, alias, workers, starting, ghosts>>
      /\ Bound(c)
  BY <1>1 DEF Disable, CameraInv, Synced, Busy
<1>3. PICK out \in Outcomes :
        /\ Costs(out)
        /\ entry' = IF out = "refused" THEN entry ELSE [entry EXCEPT ![c].on = FALSE]
        /\ binding' = IF out # "ok" THEN Failed(c)
                      ELSE Applied(c, IF binding[c].applied # 0 THEN binding[c].applied ELSE binding[c].desired)
        /\ DoneSeeing(c, IF out = "ok" THEN ConfigRead(entry') ELSE job.view)
  BY DEF Disable
<1>4. /\ binding' \in [Cameras -> Bindings] /\ binding'[c].status # "none"
      /\ \A d \in Cameras \ {c} : binding'[d] = binding[d]
  <2>1. (IF binding[c].applied # 0 THEN binding[c].applied ELSE binding[c].desired) \in 0..MaxVersion
    BY <1>1 DEF TypeOK, Bindings
  <2> QED
    BY <1>1, <1>3, <2>1, AppliedBinding, FailedBinding
<1>5. /\ entry' \in [Cameras -> Entries] /\ \A d \in Cameras \ {c} : entry'[d] = entry[d]
      /\ entry'[c].version = entry[c].version /\ entry'[c].record = entry[c].record
      /\ entry'[c].on => entry[c].on
  <2>1. entry' = entry \/ entry' = [entry EXCEPT ![c] = [entry[c] EXCEPT !.on = FALSE]]
    BY <1>3
  <2> DEFINE e == [entry[c] EXCEPT !.on = FALSE]
  <2>2. e \in Entries /\ ~e.on /\ e.version = entry[c].version /\ e.record = entry[c].record
    BY <1>1, SwitchedEntry
  <2>3. CASE entry' = entry
    BY <1>1, <2>3 DEF TypeOK
  <2> HIDE DEF e
  <2>4. CASE entry' = [entry EXCEPT ![c] = e]
    BY <1>1, <2>2, <2>4, OneEntry
  <2> QED
    BY <2>1, <2>3, <2>4 DEF e
<1>8. NextCamera(c)
  <2>1. job.view \in Views /\ ConfigRead(entry') \in Views
    BY <1>1, <1>5, ConfigViews DEF TypeOK, Jobs
  <2> QED
    BY <1>3, <2>1 DEF NextCamera
<1>6. TypeOK'
  BY <1>1, <1>2, <1>3, <1>4, <1>5, <1>8, DoneJob, CostsBudget DEF TypeOK, ghosts
<1>7. ASSUME NEW d \in Cameras PROVE Once(d)' /\ Owned(d)'
  <2>1. CASE d # c
    <3>1. Alone(d)
      BY <1>2, <1>4, <1>5, <2>1 DEF Alone, Bound, ghosts
    <3> QED
      BY <3>1, AloneOwned DEF SyncInv, CameraInv
  <2>2. CASE d = c
    <3>1. Once(c) /\ Owned(c) /\ (Exists(c)' <=> Exists(c)) /\ Bound(c)'
      BY <1>1, <1>4, <1>5 DEF CameraInv, Exists, Bound
    <3>2. Once(c)'
      BY <1>2, <3>1 DEF Once
    <3>3. Owned(c)'
      BY <1>2, <1>5, <3>1 DEF Owned, ghosts
    <3> QED
      BY <2>2, <3>2, <3>3
  <2> QED
    BY <2>1, <2>2
<1> QED
  BY <1>1, <1>2, <1>6, <1>7, <1>8, NextCameraInv DEF Busy

\* What is written keeps or brings back the recording setting.
LEMMA ConfiguredEntry ==
  ASSUME TypeOK, NEW c \in Cameras, Want(c) # 0
  PROVE  /\ Configured(c) \in Entries /\ Configured(c).version = Want(c)
         /\ marker[c] = {} /\ Exists(c) => Configured(c).record = entry[c].record
         /\ \A b \in BOOLEAN : marker[c] = {b} => Configured(c).record = b
<1>1. entry[c].on \in BOOLEAN /\ entry[c].record \in BOOLEAN /\ Want(c) \in 0..MaxVersion
  BY WantVersion DEF TypeOK, Entries
<1> DEFINE on == IF Seen(c) /\ marker[c] = {} THEN entry[c].on ELSE TRUE
           record == IF marker[c] # {} THEN TRUE \in marker[c]
                     ELSE IF Exists(c) THEN entry[c].record ELSE TRUE
<1>2. on \in BOOLEAN /\ record \in BOOLEAN
  <2>1. (TRUE \in marker[c]) \in BOOLEAN
    OBVIOUS
  <2>2. on = entry[c].on \/ on = TRUE
    OBVIOUS
  <2>3. record = (TRUE \in marker[c]) \/ record = entry[c].record \/ record = TRUE
    OBVIOUS
  <2> HIDE DEF on, record
  <2> QED
    BY <1>1, <2>1, <2>2, <2>3
<1>3. marker[c] = {} /\ Exists(c) => record = entry[c].record
  OBVIOUS
<1>5. ASSUME NEW b \in BOOLEAN, marker[c] = {b} PROVE record = b
  <2>1. record = (TRUE \in {b})
    BY <1>5
  <2>2. (TRUE \in {b}) = b
    <3>1. TRUE \in {b} <=> b
      BY <1>5
    <3>2. (TRUE \in {b}) \in BOOLEAN
      OBVIOUS
    <3> QED
      BY <1>5, <3>1, <3>2
  <2> HIDE DEF record
  <2> QED
    BY <2>1, <2>2
<1>4. Configured(c) = [version |-> Want(c), on |-> on, record |-> record]
  BY DEF Configured
<1> HIDE DEF on, record
<1> QED
  BY <1>1, <1>2, <1>3, <1>4, <1>5 DEF Entries

\* Only a camera that is not there, and so has no workers, is added.
LEMMA WrittenStarts ==
  ASSUME TypeOK, NEW c \in Cameras, Once(c), Seen(c) <=> Exists(c),
         IF IsNew(c) THEN Publish(c) ELSE UNCHANGED starting
  PROVE  /\ starting' \in [Cameras -> Nat] /\ workers[c] + starting'[c] <= 1
         /\ \A d \in Cameras \ {c} : starting'[d] = starting[d]
<1>1. starting \in [Cameras -> Nat] /\ workers[c] \in Nat /\ starting[c] \in Nat
  BY DEF TypeOK
<1>2. CASE starting' = starting
  BY <1>1, <1>2 DEF Once
<1>3. CASE IsNew(c) /\ starting' = [starting EXCEPT ![c] = @ + 1]
  BY <1>1, <1>3 DEF Once, IsNew
<1> QED
  BY <1>2, <1>3 DEF Publish

LEMMA WriteCameraInv ==
  ASSUME SyncInv, ViewInv, NEW c \in Cameras, WriteCamera(c)
  PROVE  SyncInv'
<1>1. TypeOK /\ CameraInv(c) /\ job.step = "camera" /\ c \in job.at /\ Want(c) # 0
  BY DEF SyncInv, WriteCamera, At, Working, CameraInv, Synced, Busy
<1>2. UNCHANGED <<adopted, selected, enabled, wanted, conflict, marker, alias, workers>> /\ Bound(c) /\ c \in selected
  BY <1>1 DEF WriteCamera, CameraInv, Synced, Busy
<1>3. PICK out \in Outcomes :
        /\ Costs(out)
        /\ IF out = "refused" THEN UNCHANGED <<entry, starting, ghosts>>
           ELSE /\ entry' = [entry EXCEPT ![c] = Configured(c)]
                /\ IF IsNew(c) THEN Publish(c) ELSE UNCHANGED starting
                /\ IF c \in mine THEN UNCHANGED ghosts
                   ELSE /\ mine' = mine \cup {c}
                        /\ choice' = [choice EXCEPT ![c] = Configured(c).record]
                        /\ crossed' = crossed \ {c}
        /\ IF out = "ok"
           THEN /\ job' = [job EXCEPT !.second = IsSecond(c),
                      !.step = IF Seen(c) /\ ~binding[c].on THEN "enable" ELSE "streams"]
                /\ UNCHANGED <<queued, binding>>
           ELSE Done(c) /\ binding' = Failed(c)
  BY DEF WriteCamera
<1>4. /\ binding' \in [Cameras -> Bindings] /\ binding'[c].status # "none"
      /\ \A d \in Cameras \ {c} : binding'[d] = binding[d]
  BY <1>1, <1>2, <1>3, FailedBinding DEF TypeOK, Bound
<1>5. CASE out = "refused"
  <2>1. TypeOK'
    BY <1>1, <1>2, <1>3, <1>4, <1>5, Goes, DoneJob, CostsBudget DEF TypeOK, ghosts
  <2>2. \A d \in Cameras : Alone(d)
    BY <1>2, <1>3, <1>4, <1>5 DEF Alone, Bound, ghosts
  <2> QED
    BY <1>1, <1>2, <1>3, <1>5, <2>1, <2>2, AloneOwned, Goes, NextCameraInv DEF Busy, SyncInv, CameraInv
<1>6. CASE out # "refused"
  <2>1. /\ entry' \in [Cameras -> Entries] /\ entry'[c] = Configured(c)
        /\ \A d \in Cameras \ {c} : entry'[d] = entry[d]
    BY <1>1, <1>3, <1>6, ConfiguredEntry, OneEntry
  <2>2. /\ starting' \in [Cameras -> Nat] /\ workers[c] + starting'[c] <= 1
        /\ \A d \in Cameras \ {c} : starting'[d] = starting[d]
    BY <1>1, <1>3, <1>6, WrittenStarts DEF CameraInv, ViewInv, Viewed
  <2>3. Configured(c).record \in BOOLEAN /\ Configured(c).version # 0
    BY <1>1, ConfiguredEntry DEF Entries
  <2>4. /\ mine' = mine \cup {c} /\ crossed' \subseteq Cameras /\ choice' \in [Cameras -> BOOLEAN]
        /\ \A d \in Cameras \ {c} : choice'[d] = choice[d] /\ (d \in crossed' <=> d \in crossed)
        /\ c \in mine => choice'[c] = choice[c] /\ (c \in crossed' <=> c \in crossed)
        /\ c \notin mine => choice'[c] = Configured(c).record
    BY <1>1, <1>3, <1>6, <2>3 DEF TypeOK, ghosts
  <2>5. c \notin crossed' => marker[c] \subseteq {choice'[c]} /\ Configured(c).record = choice'[c]
    <3>1. marker[c] \in {{}, {TRUE}, {FALSE}}
      BY <1>1 DEF CameraInv, Owned
    <3>2. CASE c \in mine
      BY <1>1, <2>4, <3>1, <3>2, ConfiguredEntry DEF CameraInv, Owned
    <3>3. CASE c \notin mine
      BY <1>1, <2>4, <3>1, <3>3, ConfiguredEntry
    <3> QED
      BY <3>2, <3>3
  <2>6. Once(c)' /\ Owned(c)'
    <3>1. Exists(c)' /\ Bound(c)'
      BY <1>4, <2>1, <2>3 DEF Exists, Bound
    <3>2. Once(c)'
      BY <1>2, <2>2, <3>1 DEF Once
    <3>3. marker[c] \in {{}, {TRUE}, {FALSE}}
      BY <1>1 DEF CameraInv, Owned
    <3> QED
      BY <1>2, <2>1, <2>4, <2>5, <3>1, <3>2, <3>3 DEF Owned
  <2>7. ASSUME NEW d \in Cameras, d # c PROVE Once(d)' /\ Owned(d)'
    <3>1. Alone(d)
      BY <1>2, <1>4, <2>1, <2>2, <2>4, <2>7 DEF Alone, Bound
    <3> QED
      BY <3>1, AloneOwned DEF SyncInv, CameraInv
  <2>8. CASE out = "ok"
    <3>1. IsSecond(c) \in BOOLEAN
      BY DEF IsSecond
    <3>2. PICK step \in {"enable", "streams"} : job' = [job EXCEPT !.second = IsSecond(c), !.step = step]
      BY <1>3, <2>8
    <3>3. /\ job' \in Jobs /\ job'.step = step /\ job'.at = job.at /\ job'.todo = job.todo
          /\ job'.plan = job.plan
      BY <1>1, <3>1, <3>2 DEF TypeOK, Jobs, JobSteps
    <3>4. TypeOK'
      BY <1>1, <1>2, <1>3, <1>4, <2>1, <2>2, <2>4, <2>8, <3>3, CostsBudget DEF TypeOK
    <3>5. ASSUME NEW d \in Cameras PROVE Synced(d)' /\ Removed(d)'
      <4>1. Synced(d) /\ job.at = {c} /\ (Bound(c)' <=> Bound(c))
        BY <1>1, <1>2, <1>4 DEF SyncInv, CameraInv, Synced, Busy, Bound
      <4>2. c \in mine' /\ (c \notin crossed' => entry'[c].record = choice'[c])
        BY <2>1, <2>4, <2>5
      <4> QED
        BY <1>1, <1>2, <3>2, <3>3, <4>1, <4>2 DEF Synced, Removed, Busy, Retiring, Want
    <3> QED
      BY <2>6, <2>7, <3>4, <3>5 DEF SyncInv, CameraInv
  <2>9. CASE out # "ok"
    <3>1. TypeOK'
      BY <1>1, <1>2, <1>3, <1>4, <2>1, <2>2, <2>4, <2>9, Goes, DoneJob, CostsBudget DEF TypeOK
    <3> QED
      BY <1>1, <1>2, <1>3, <2>6, <2>7, <2>9, <3>1, Goes, NextCameraInv DEF Busy
  <2> QED
    BY <2>8, <2>9
<1> QED
  BY <1>5, <1>6

\* A synchronisation goes on, with the camera as it is: to which step decides
\* what must be known of it.
LEMMA NextStepInv ==
  ASSUME SyncInv, NEW c \in Cameras, NEW step \in {"streams", "restart", "verify", "forget"}, NextStep(c, step),
         job.step \in Busy \ {"disable"}, c \in job.at, TypeOK', selected' = selected, Bound(c)',
         c \in mine' /\ (c \notin crossed' => entry'[c].record = choice'[c]),
         \A d \in Cameras : Once(d)' /\ Owned(d)'
  PROVE  SyncInv'
<1>1. TypeOK /\ step \in Busy /\ step \in JobSteps
  BY DEF SyncInv, Busy, JobSteps
<1>2. ASSUME NEW d \in Cameras, d # c PROVE Synced(d)' /\ Removed(d)'
  BY <1>1, <1>2, WorkRelies DEF SyncInv, CameraInv
<1>3. Synced(c)' /\ Removed(c)'
  <2>1. Synced(c)
    BY DEF SyncInv, CameraInv
  <2> QED
    BY <1>1, <2>1, WorkJob DEF Synced, Removed, Busy, Retiring, Want
<1> QED
  BY <1>2, <1>3 DEF SyncInv, CameraInv

LEMMA EnableInv ==
  ASSUME SyncInv, NEW c \in Cameras, Enable(c)
  PROVE  SyncInv'
<1>1. /\ TypeOK /\ CameraInv(c) /\ job.step = "enable" /\ c \in job.at /\ Bound(c) /\ c \in selected
      /\ c \in mine /\ (c \notin crossed => entry[c].record = choice[c])
  BY DEF SyncInv, Enable, At, Working, CameraInv, Synced, Busy
<1>2. UNCHANGED <<adopted, selected, enabled, wanted, conflict, marker, alias, workers, starting, ghosts>>
  BY DEF Enable
<1>3. PICK out \in Outcomes :
        /\ Costs(out)
        /\ entry' = IF out = "refused" THEN entry ELSE [entry EXCEPT ![c].on = TRUE]
        /\ IF out = "ok" THEN Work(c, "streams") /\ UNCHANGED binding
           ELSE Done(c) /\ binding' = Failed(c)
  BY DEF Enable
<1>4. /\ binding' \in [Cameras -> Bindings] /\ binding'[c].status # "none"
      /\ \A d \in Cameras \ {c} : binding'[d] = binding[d]
  BY <1>1, <1>3, FailedBinding DEF TypeOK, Bound
<1>5. /\ entry' \in [Cameras -> Entries] /\ \A d \in Cameras \ {c} : entry'[d] = entry[d]
      /\ entry'[c].version = entry[c].version /\ entry'[c].record = entry[c].record
  <2> DEFINE e == [entry[c] EXCEPT !.on = TRUE]
  <2>1. e \in Entries /\ e.version = entry[c].version /\ e.record = entry[c].record
    BY <1>1, SwitchedEntry
  <2>2. entry' = entry \/ entry' = [entry EXCEPT ![c] = e]
    BY <1>3
  <2> HIDE DEF e
  <2> QED
    BY <1>1, <2>1, <2>2, OneEntry DEF TypeOK
<1>6. TypeOK'
  <2>1. job' \in Jobs /\ queued' = queued
    BY <1>1, <1>3, Goes, DoneJob, WorkJob DEF JobSteps
  <2> QED
    BY <1>1, <1>2, <1>3, <1>4, <1>5, <2>1, CostsBudget DEF TypeOK, ghosts
<1>7. ASSUME NEW d \in Cameras PROVE Once(d)' /\ Owned(d)'
  <2>1. CASE d # c
    <3>1. Alone(d)
      BY <1>2, <1>4, <1>5, <2>1 DEF Alone, Bound, ghosts
    <3> QED
      BY <3>1, AloneOwned DEF SyncInv, CameraInv
  <2>2. CASE d = c
    <3>1. Once(c) /\ Owned(c) /\ (Exists(c)' <=> Exists(c)) /\ Bound(c)'
      BY <1>1, <1>4, <1>5 DEF CameraInv, Exists, Bound
    <3>2. Once(c)'
      BY <1>2, <3>1 DEF Once
    <3>3. Owned(c)'
      BY <1>1, <1>2, <1>5, <3>1 DEF Owned, ghosts
    <3> QED
      BY <2>2, <3>2, <3>3
  <2> QED
    BY <2>1, <2>2
<1>8. CASE Work(c, "streams")
  <2>1. Bound(c)' /\ c \in mine' /\ (c \notin crossed' => entry'[c].record = choice'[c])
    BY <1>1, <1>2, <1>4, <1>5 DEF Bound, ghosts
  <2> QED
    BY <1>1, <1>2, <1>6, <1>7, <1>8, <2>1, Goes, NextStepInv DEF Busy, JobSteps
<1>9. CASE Done(c)
  BY <1>1, <1>2, <1>6, <1>7, <1>9, Goes, NextCameraInv DEF Busy
<1> QED
  BY <1>3, <1>8, <1>9

\* A step that leaves the camera's entry, marker and workers alone: the streams,
\* the result of the last check.
LEMMA ProgressInv ==
  ASSUME SyncInv, NEW c \in Cameras, WriteStreams(c) \/ Verified(c)
  PROVE  SyncInv'
<1>1. /\ TypeOK /\ CameraInv(c) /\ job.step \in {"streams", "verify"} /\ c \in job.at /\ Bound(c)
      /\ c \in mine /\ (c \notin crossed => entry[c].record = choice[c]) /\ Want(c) \in 0..MaxVersion
  BY WantVersion DEF SyncInv, WriteStreams, Verified, At, Working, CameraInv, Synced, Busy
<1>2. UNCHANGED <<adopted, selected, enabled, wanted, conflict, marker, entry, workers, starting, ghosts>>
  BY DEF WriteStreams, Verified, frigate
<1>3. /\ alias' \in [Cameras -> 0..MaxVersion]
      /\ budget' \in [faults : 0..MaxFaults, requests : 0..MaxRequests]
      /\ NextCamera(c) \/ (\E step \in {"restart", "verify", "forget"} : NextStep(c, step))
  <2>1. CASE Verified(c)
    BY <1>1, <2>1, LookViews DEF Verified, TypeOK, frigate, NextCamera, NextStep
  <2>2. CASE WriteStreams(c)
    <3>1. PICK out \in Outcomes :
            /\ Costs(out) /\ alias' = IF out = "refused" THEN alias ELSE [alias EXCEPT ![c] = Want(c)]
            /\ IF out = "ok" THEN Work(c, IF (job.second \/ marker[c] # {}) /\ job.restart THEN "restart" ELSE "verify")
               ELSE Done(c)
      BY <2>2 DEF WriteStreams
    <3>2. alias \in [Cameras -> 0..MaxVersion]
      BY <1>1 DEF TypeOK
    <3>3. Done(c) \/ Work(c, "restart") \/ Work(c, "verify")
      BY <3>1
    <3>4. "restart" \in JobSteps /\ "verify" \in JobSteps
      BY DEF JobSteps
    <3>5. NextCamera(c) \/ NextStep(c, "restart") \/ NextStep(c, "verify")
      BY <1>1, <3>3, <3>4, Goes
    <3> QED
      BY <1>1, <3>1, <3>2, <3>5, CostsBudget
  <2> QED
    BY <2>1, <2>2
<1>4. binding' \in [Cameras -> Bindings] /\ \A d \in Cameras : Bound(d)' <=> Bound(d)
  <2>1. CASE WriteStreams(c)
    <3>1. binding' = binding \/ binding' = Failed(c)
      BY <2>1 DEF WriteStreams
    <3> QED
      BY <1>1, <3>1, FailedBinding DEF Bound, TypeOK
  <2>2. CASE Verified(c)
    <3> DEFINE b == Applied(c, Want(c))
    <3>1. binding' = [b EXCEPT ![c].on = TRUE]
      BY <2>2 DEF Verified
    <3>2. b \in [Cameras -> Bindings] /\ b[c].status = "applied" /\ \A d \in Cameras \ {c} : b[d] = binding[d]
      BY <1>1, AppliedBinding
    <3> HIDE DEF b
    <3>3. /\ binding' \in [Cameras -> Bindings] /\ binding'[c].status = "applied"
          /\ \A d \in Cameras \ {c} : binding'[d] = binding[d]
      BY <3>1, <3>2, OnBinding
    <3> QED
      BY <1>1, <3>3 DEF Bound
  <2> QED
    BY <2>1, <2>2
<1>5. TypeOK'
  <2>1. job' \in Jobs /\ queued' = queued
    BY <1>1, <1>3, Goes, DoneJob, WorkJob DEF JobSteps
  <2> QED
    BY <1>1, <1>2, <1>3, <1>4, <2>1 DEF TypeOK, ghosts
<1>6. \A d \in Cameras : Once(d)' /\ Owned(d)'
  <2>1. \A d \in Cameras : Alone(d)
    BY <1>2, <1>4 DEF Alone, ghosts
  <2> QED
    BY <2>1, AloneOwned DEF SyncInv, CameraInv
<1>7. CASE NextCamera(c)
  BY <1>1, <1>2, <1>5, <1>6, <1>7, NextCameraInv DEF Busy
<1>8. ASSUME NEW step \in {"restart", "verify", "forget"}, NextStep(c, step) PROVE SyncInv'
  <2>1. Bound(c)' /\ c \in mine' /\ (c \notin crossed' => entry'[c].record = choice'[c])
    BY <1>1, <1>2, <1>4 DEF ghosts
  <2> QED
    BY <1>1, <1>2, <1>5, <1>6, <1>8, <2>1, NextStepInv DEF Busy
<1> QED
  BY <1>3, <1>7, <1>8

\* After a restart every entry that is on has one set of workers.
LEMMA RestartedOnce ==
  ASSUME TypeOK, Restarted, entry' = entry
  PROVE  /\ workers' \in [Cameras -> Nat] /\ starting' \in [Cameras -> Nat]
         /\ \A d \in Cameras : Once(d)'
  BY DEF Restarted, Once, Exists

LEMMA RestartFrigateInv ==
  ASSUME SyncInv, NEW c \in Cameras, RestartFrigate(c)
  PROVE  SyncInv'
<1>1. /\ TypeOK /\ CameraInv(c) /\ job.step = "restart" /\ c \in job.at /\ Bound(c)
      /\ c \in mine /\ (c \notin crossed => entry[c].record = choice[c])
  BY DEF SyncInv, RestartFrigate, At, Working, CameraInv, Synced, Busy
<1>2. UNCHANGED <<adopted, selected, enabled, wanted, conflict, marker, entry, alias, ghosts>>
  BY DEF RestartFrigate
<1>3. PICK out \in Outcomes :
        /\ Costs(out) /\ IF out = "refused" THEN UNCHANGED <<workers, starting>> ELSE Restarted
        /\ IF out = "ok" THEN Work(c, "verify") /\ UNCHANGED binding
           ELSE Done(c) /\ binding' = Failed(c)
  BY DEF RestartFrigate
<1>4. binding' \in [Cameras -> Bindings] /\ \A d \in Cameras : Bound(d)' <=> Bound(d)
  BY <1>1, <1>3, FailedBinding DEF Bound, TypeOK
<1>5. /\ workers' \in [Cameras -> Nat] /\ starting' \in [Cameras -> Nat]
      /\ \A d \in Cameras : Once(d)'
  <2>1. CASE UNCHANGED <<workers, starting>>
    BY <1>1, <1>2, <2>1 DEF SyncInv, CameraInv, TypeOK, Once, Exists
  <2>2. CASE Restarted
    BY <1>1, <1>2, <2>2, RestartedOnce
  <2> QED
    BY <1>3, <2>1, <2>2
<1>6. TypeOK'
  <2>1. job' \in Jobs /\ queued' = queued
    BY <1>1, <1>3, Goes, DoneJob, WorkJob DEF JobSteps
  <2> QED
    BY <1>1, <1>2, <1>3, <1>4, <1>5, <2>1, CostsBudget DEF TypeOK, ghosts
<1>7. \A d \in Cameras : Owned(d)'
  BY <1>2, <1>4 DEF SyncInv, CameraInv, Owned, Exists, ghosts
<1>8. CASE Done(c)
  BY <1>1, <1>2, <1>5, <1>6, <1>7, <1>8, Goes, NextCameraInv DEF Busy
<1>9. CASE Work(c, "verify")
  <2>1. Bound(c)' /\ c \in mine' /\ (c \notin crossed' => entry'[c].record = choice'[c])
    BY <1>1, <1>2, <1>4 DEF ghosts
  <2> QED
    BY <1>1, <1>2, <1>5, <1>6, <1>7, <1>9, <2>1, Goes, NextStepInv DEF Busy, JobSteps
<1> QED
  BY <1>3, <1>8, <1>9

\* The marker goes when the entry records what it remembers.
LEMMA ForgetInv ==
  ASSUME SyncInv, NEW c \in Cameras, Forget(c)
  PROVE  SyncInv'
<1>1. /\ TypeOK /\ CameraInv(c) /\ job.step = "forget" /\ c \in job.at /\ Done(c)
      /\ c \in mine /\ (c \notin crossed => entry[c].record = choice[c])
  BY DEF SyncInv, Forget, At, Working, CameraInv, Synced, Busy
<1>2. /\ UNCHANGED <<adopted, selected, enabled, wanted, conflict, binding, frigate, ghosts, budget>>
      /\ marker' = [marker EXCEPT ![c] = {}]
  BY DEF Forget
<1>3. marker' \in [Cameras -> SUBSET BOOLEAN] /\ marker'[c] = {} /\ \A d \in Cameras \ {c} : marker'[d] = marker[d]
  BY <1>1, <1>2 DEF TypeOK
<1>4. TypeOK'
  BY <1>1, <1>2, <1>3, Goes, DoneJob DEF TypeOK, frigate, ghosts
<1>5. ASSUME NEW d \in Cameras PROVE Once(d)' /\ Owned(d)'
  <2>1. CASE d # c
    <3>1. Alone(d)
      BY <1>2, <1>3, <2>1 DEF Alone, Bound, frigate, ghosts
    <3> QED
      BY <3>1, AloneOwned DEF SyncInv, CameraInv
  <2>2. CASE d = c
    BY <1>1, <1>2, <1>3, <2>2 DEF CameraInv, Once, Owned, Exists, Bound, frigate, ghosts
  <2> QED
    BY <2>1, <2>2
<1> QED
  BY <1>1, <1>2, <1>4, <1>5, Goes, NextCameraInv DEF Busy

-----------------------------------------------------------------------------
(* Removal and repair. *)

LEMMA RememberInv ==
  ASSUME SyncInv, NEW c \in Cameras, Remember(c)
  PROVE  SyncInv'
<1>1. TypeOK /\ CameraInv(c) /\ job.step = "remember" /\ c \in job.dropped
  BY DEF SyncInv, Remember, At
<1>2. /\ UNCHANGED <<adopted, selected, enabled, wanted, conflict, binding, queued, frigate, ghosts, budget>>
      /\ marker' = [marker EXCEPT ![c] = IF @ = {} THEN {entry[c].record} ELSE @]
      /\ job' = [job EXCEPT !.step = "recordOff", !.at = {c}]
  BY DEF Remember
<1>3. /\ marker' \in [Cameras -> SUBSET BOOLEAN] /\ \A d \in Cameras \ {c} : marker'[d] = marker[d]
      /\ marker'[c] = IF marker[c] = {} THEN {entry[c].record} ELSE marker[c]
      /\ marker'[c] \in {{TRUE}, {FALSE}}
  <2>1. entry[c].record \in BOOLEAN /\ marker \in [Cameras -> SUBSET BOOLEAN] /\ marker[c] \in {{}, {TRUE}, {FALSE}}
    BY <1>1 DEF TypeOK, Entries, CameraInv, Owned
  <2> QED
    BY <1>2, <2>1
<1>4. /\ job' \in Jobs /\ job'.step = "recordOff" /\ job'.at = {c}
      /\ job'.scope = job.scope /\ job'.dropped = job.dropped
  BY <1>1, <1>2 DEF TypeOK, Jobs, JobSteps
<1>5. TypeOK'
  BY <1>1, <1>2, <1>3, <1>4 DEF TypeOK, frigate, ghosts
<1>6. ASSUME NEW d \in Cameras PROVE Once(d)' /\ Owned(d)'
  <2>1. CASE d # c
    <3>1. Alone(d)
      BY <1>2, <1>3, <2>1 DEF Alone, Bound, frigate, ghosts
    <3> QED
      BY <3>1, AloneOwned DEF SyncInv, CameraInv
  <2>2. CASE d = c
    <3>1. Once(c) /\ Owned(c) /\ (Exists(c)' <=> Exists(c)) /\ (Bound(c)' <=> Bound(c))
      BY <1>1, <1>2 DEF CameraInv, Exists, Bound, frigate
    <3>2. Once(c)'
      BY <1>2, <3>1 DEF Once, frigate
    <3>3. Owned(c)'
      BY <1>2, <1>3, <3>1 DEF Owned, frigate, ghosts
    <3> QED
      BY <2>2, <3>2, <3>3
  <2> QED
    BY <2>1, <2>2
<1>7. ASSUME NEW d \in Cameras PROVE Synced(d)' /\ Removed(d)'
  <2>1. Removed(d)
    BY DEF SyncInv, CameraInv
  <2> QED
    BY <1>1, <1>2, <1>3, <1>4, <2>1 DEF Synced, Removed, Busy, Retiring, frigate, ghosts
<1> QED
  BY <1>5, <1>6, <1>7 DEF SyncInv, CameraInv

\* A write of a retirement: it leaves the version, and turns nothing on.
LEMMA RetireStepInv ==
  ASSUME SyncInv, NEW c \in Cameras, NEW written \in Entries, NEW next \in {"turnOff", "remember"},
         RetireStep(c, written, next), job.step \in Retiring,
         written.version = entry[c].version, written.on => entry[c].on,
         next = "remember" => ~written.on
  PROVE  SyncInv'
<1>1. TypeOK /\ CameraInv(c) /\ c \in job.at /\ marker[c] # {}
  BY DEF SyncInv, RetireStep, CameraInv, Removed
<1>2. UNCHANGED <<database, alias, workers, starting, ghosts>>
  BY DEF RetireStep
<1>3. PICK out \in Outcomes :
        /\ Costs(out)
        /\ entry' = IF out = "refused" THEN entry ELSE [entry EXCEPT ![c] = written]
        /\ IF out = "ok"
           THEN /\ job' = [job EXCEPT !.step = next, !.dropped = @ \ (IF next = "remember" THEN {c} ELSE {})]
                /\ UNCHANGED queued
           ELSE Ended
  BY DEF RetireStep
<1>4. /\ entry' \in [Cameras -> Entries] /\ \A d \in Cameras \ {c} : entry'[d] = entry[d]
      /\ entry'[c].version = entry[c].version /\ (entry'[c].on => entry[c].on)
      /\ out = "ok" => entry'[c] = written
  BY <1>1, <1>3, OneEntry DEF TypeOK
<1>5. ASSUME NEW d \in Cameras PROVE Once(d)' /\ Owned(d)'
  <2>1. CASE d # c
    <3>1. Alone(d)
      BY <1>2, <1>4, <2>1 DEF Alone, Bound, database, ghosts
    <3> QED
      BY <3>1, AloneOwned DEF SyncInv, CameraInv
  <2>2. CASE d = c
    <3>1. Once(c) /\ Owned(c) /\ (Exists(c)' <=> Exists(c)) /\ (Bound(c)' <=> Bound(c))
      BY <1>1, <1>2, <1>4 DEF CameraInv, Exists, Bound, database
    <3>2. Once(c)'
      BY <1>2, <3>1 DEF Once
    <3>3. Owned(c)'
      BY <1>1, <1>2, <1>4, <3>1 DEF Owned, database, ghosts
    <3> QED
      BY <2>2, <3>2, <3>3
  <2> QED
    BY <2>1, <2>2
<1>6. CASE out # "ok"
  <2>1. job' = Idle /\ job' \in Jobs /\ queued' \subseteq Cameras
    BY <1>1, <1>3, <1>6, EndedJob, IdleJob
  <2>2. TypeOK'
    BY <1>1, <1>2, <1>3, <1>4, <2>1, CostsBudget DEF TypeOK, database, ghosts
  <2> QED
    BY <1>5, <2>1, <2>2, IdleRelies DEF SyncInv, CameraInv
<1>7. CASE out = "ok"
  <2>1. /\ job' \in Jobs /\ job'.step = next /\ job'.at = job.at /\ job'.scope = job.scope
        /\ job'.dropped = job.dropped \ (IF next = "remember" THEN {c} ELSE {})
    <3> DEFINE left == job.dropped \ (IF next = "remember" THEN {c} ELSE {})
    <3>1. job \in Jobs /\ left \in SUBSET Cameras /\ next \in JobSteps
      BY <1>1 DEF TypeOK, Jobs, JobSteps
    <3>2. job' = [job EXCEPT !.step = next, !.dropped = left]
      BY <1>3, <1>7
    <3> HIDE DEF left
    <3>3. job' \in Jobs /\ job'.step = next /\ job'.at = job.at /\ job'.scope = job.scope /\ job'.dropped = left
      BY <3>1, <3>2 DEF Jobs
    <3> QED
      BY <3>3 DEF left
  <2>2. TypeOK'
    BY <1>1, <1>2, <1>3, <1>4, <1>7, <2>1, CostsBudget DEF TypeOK, database, ghosts
  <2>3. ASSUME NEW d \in Cameras PROVE Synced(d)' /\ Removed(d)'
    <3>1. Removed(d) /\ marker' = marker /\ mine' = mine
      BY <1>2 DEF SyncInv, CameraInv, database, ghosts
    <3>2. d # c => entry'[d] = entry[d]
      BY <1>4
    <3>3. next = "remember" => ~entry'[c].on
      BY <1>4, <1>7
    <3>4. CASE next = "remember"
      BY <1>4, <2>1, <3>1, <3>2, <3>3, <3>4 DEF Synced, Removed, Busy, Retiring
    <3>5. CASE next = "turnOff"
      BY <1>4, <2>1, <3>1, <3>2, <3>5 DEF Synced, Removed, Busy, Retiring
    <3> QED
      BY <3>4, <3>5
  <2> QED
    BY <1>5, <2>2, <2>3 DEF SyncInv, CameraInv
<1> QED
  BY <1>6, <1>7

LEMMA RetireInv ==
  ASSUME SyncInv, NEW c \in Cameras, Retire(c)
  PROVE  SyncInv'
<1>1. TypeOK
  BY DEF SyncInv
<1>2. CASE RecordOff(c)
  <2> DEFINE e == [entry[c] EXCEPT !.record = FALSE]
  <2>1. RetireStep(c, e, "turnOff") /\ job.step = "recordOff"
    BY <1>2 DEF RecordOff, At
  <2>2. e \in Entries /\ e.version = entry[c].version /\ e.on = entry[c].on
    BY <1>1, SwitchedEntry
  <2> HIDE DEF e
  <2> QED
    BY <2>1, <2>2, RetireStepInv DEF Retiring
<1>3. CASE TurnOff(c)
  <2> DEFINE e == [entry[c] EXCEPT !.on = FALSE]
  <2>1. RetireStep(c, e, "remember") /\ job.step = "turnOff"
    BY <1>3 DEF TurnOff, At
  <2>2. e \in Entries /\ e.version = entry[c].version /\ e.on = FALSE
    BY <1>1, SwitchedEntry
  <2> HIDE DEF e
  <2> QED
    BY <2>1, <2>2, RetireStepInv DEF Retiring
<1>4. CASE TurnOffUnverified(c)
  <2>1. /\ UNCHANGED <<database, alias, workers, starting, ghosts, budget>> /\ job.step = "turnOff" /\ c \in job.at
        /\ Ended
    BY <1>4 DEF TurnOffUnverified, At
  <2>2. marker[c] # {}
    BY <2>1 DEF SyncInv, CameraInv, Removed, Retiring
  <2>3. /\ entry' \in [Cameras -> Entries] /\ \A d \in Cameras \ {c} : entry'[d] = entry[d]
        /\ entry'[c].version = entry[c].version /\ ~entry'[c].on
    <3> DEFINE e == [entry[c] EXCEPT !.on = FALSE]
    <3>1. entry' = [entry EXCEPT ![c] = e]
      BY <1>4 DEF TurnOffUnverified
    <3>2. e \in Entries /\ e.version = entry[c].version /\ ~e.on
      BY <1>1, SwitchedEntry
    <3> HIDE DEF e
    <3> QED
      BY <1>1, <3>1, <3>2, OneEntry
  <2>4. job' = Idle /\ job' \in Jobs /\ queued' \subseteq Cameras
    BY <1>1, <2>1, EndedJob, IdleJob
  <2>5. TypeOK'
    BY <1>1, <2>1, <2>3, <2>4 DEF TypeOK, database, ghosts
  <2>6. ASSUME NEW d \in Cameras PROVE Once(d)' /\ Owned(d)'
    <3>1. CASE d # c
      <4>1. Alone(d)
        BY <2>1, <2>3, <3>1 DEF Alone, Bound, database, ghosts
      <4> QED
        BY <4>1, AloneOwned DEF SyncInv, CameraInv
    <3>2. CASE d = c
      <4>1. Once(c) /\ Owned(c) /\ (Exists(c)' <=> Exists(c)) /\ (Bound(c)' <=> Bound(c))
        BY <2>1, <2>3 DEF SyncInv, CameraInv, Exists, Bound, database
      <4>2. Once(c)'
        BY <2>1, <4>1 DEF Once
      <4>3. Owned(c)'
        BY <2>1, <2>2, <2>3, <4>1 DEF Owned, database, ghosts
      <4> QED
        BY <3>2, <4>2, <4>3
    <3> QED
      BY <3>1, <3>2
  <2> QED
    BY <2>4, <2>5, <2>6, IdleRelies DEF SyncInv, CameraInv
<1> QED
  BY <1>2, <1>3, <1>4, RememberInv DEF Retire

\* A job moves on between removals: it is at no camera, or at one of no concern.
LEMMA MovedRelies ==
  ASSUME NEW d \in Cameras, job'.step \in {"remember", "deselect", "unbind"},
         d \in job'.scope /\ d \in mine' /\ entry'[d].on => job'.step = "remember" /\ d \in job'.dropped
  PROVE  Synced(d)' /\ Removed(d)'
  BY DEF Synced, Removed, Busy, Retiring

\* A synchronisation begins, of selected cameras.
LEMMA PlannedRelies ==
  ASSUME NEW d \in Cameras, job'.step = "choose", job'.at = {}, job'.todo \subseteq selected'
  PROVE  Synced(d)' /\ Removed(d)'
  BY DEF Synced, Removed, Busy, Retiring

LEMMA GoJob ==
  ASSUME TypeOK, NEW step \in JobSteps, Go(step)
  PROVE  /\ job' \in Jobs /\ queued' = queued /\ job'.step = step /\ job'.at = job.at
         /\ job'.scope = job.scope /\ job'.dropped = job.dropped
  BY DEF Go, TypeOK, Jobs

LEMMA DeleteAliasesInv ==
  ASSUME SyncInv, DeleteAliases
  PROVE  SyncInv'
<1>1. TypeOK /\ job.step = "remember" /\ job.dropped = {}
  BY DEF SyncInv, DeleteAliases, At
<1>2. UNCHANGED <<database, entry, workers, starting, ghosts>>
  BY DEF DeleteAliases
<1>3. PICK out \in Outcomes :
        /\ Costs(out)
        /\ alias' = IF out = "refused" THEN alias
                    ELSE [c \in Cameras |-> IF c \in job.aliases THEN 0 ELSE alias[c]]
        /\ \/ Ended \/ Go("deselect")
           \/ job' = [Plan(selected, job.restart, Look') EXCEPT !.op = "repair"] /\ UNCHANGED queued
  <2>1. PICK out \in IF job.aliases = {} THEN {"ok"} ELSE Outcomes :
          /\ Costs(out)
          /\ alias' = IF out = "refused" THEN alias
                      ELSE [c \in Cameras |-> IF c \in job.aliases THEN 0 ELSE alias[c]]
          /\ IF out # "ok" THEN Ended
             ELSE IF job.op # "repair" THEN Go("deselect")
             ELSE IF \E c \in Cameras : Stale(c) THEN Ended
             ELSE job' = [Plan(selected, job.restart, Look') EXCEPT !.op = "repair"] /\ UNCHANGED queued
    BY DEF DeleteAliases
  <2>2. out \in Outcomes
    BY DEF Outcomes
  <2> QED
    BY <2>1, <2>2
<1>4. alias' \in [Cameras -> 0..MaxVersion]
  <2>1. alias \in [Cameras -> 0..MaxVersion] /\ 0 \in 0..MaxVersion
    BY <1>1, SyncAssumption DEF TypeOK
  <2> QED
    BY <1>3, <2>1
<1>5. \A d \in Cameras : Once(d)' /\ Owned(d)'
  <2>1. \A d \in Cameras : Alone(d)
    BY <1>2 DEF Alone, Bound, database, ghosts
  <2> QED
    BY <2>1, AloneOwned DEF SyncInv, CameraInv
<1>6. job' \in Jobs /\ queued' \subseteq Cameras /\ \A d \in Cameras : Synced(d)' /\ Removed(d)'
  <2>1. CASE Ended
    BY <1>1, <2>1, EndedJob, IdleJob, IdleRelies
  <2>2. CASE Go("deselect")
    <3>1. /\ job' \in Jobs /\ queued' = queued /\ job'.step = "deselect" /\ job'.scope = job.scope
      BY <1>1, <2>2, GoJob DEF JobSteps
    <3>2. \A d \in Cameras : d \in job.scope => ~(d \in mine /\ entry[d].on)
      BY <1>1 DEF SyncInv, CameraInv, Removed
    <3> QED
      BY <1>1, <1>2, <3>1, <3>2, MovedRelies DEF TypeOK, ghosts
  <2>3. CASE job' = [Plan(selected, job.restart, Look') EXCEPT !.op = "repair"] /\ UNCHANGED queued
    <3>1. selected \in SUBSET Cameras /\ job.restart \in BOOLEAN /\ queued \subseteq Cameras
      BY <1>1 DEF TypeOK, Jobs
    <3>2. job' \in Jobs /\ job'.step = "choose" /\ job'.at = {} /\ job'.todo = selected
      <4>1. "repair" \in Operations
        BY DEF Operations
      <4> DEFINE p == Plan(selected, job.restart, Look')
      <4>4. Look' \in Views
        <5>1. ASSUME NEW d \in Cameras
              PROVE  /\ entry'[d].version \in 0..MaxVersion /\ entry'[d].on \in BOOLEAN
                     /\ alias'[d] \in 0..MaxVersion /\ (workers'[d] > 0) \in BOOLEAN
          BY <1>1, <1>2, <1>4 DEF TypeOK, Entries
        <5> QED
          BY <5>1 DEF Look, Views
      <4>2. p \in Jobs /\ p.step = "choose" /\ p.at = {} /\ p.todo = selected
        BY <1>1, <3>1, <4>4, PlanJob
      <4>3. job' = [p EXCEPT !.op = "repair"]
        BY <2>3
      <4> HIDE DEF p
      <4> QED
        BY <4>1, <4>2, <4>3 DEF Jobs
    <3> QED
      BY <1>2, <2>3, <3>1, <3>2, PlannedRelies DEF database
  <2> QED
    BY <1>3, <2>1, <2>2, <2>3
<1>7. TypeOK'
  BY <1>1, <1>2, <1>3, <1>4, <1>6, CostsBudget DEF TypeOK, database, ghosts
<1> QED
  BY <1>5, <1>6, <1>7 DEF SyncInv, CameraInv

\* The selection and the binding go when the entry is off, or is not the integration's.
LEMMA RemoveInv ==
  ASSUME SyncInv, NEW c \in Cameras, Remove(c)
  PROVE  SyncInv'
<1>1. TypeOK /\ CameraInv(c) /\ job.step \in {"deselect", "unbind"} /\ c \in job.scope /\ ~(c \in mine /\ entry[c].on)
  BY DEF SyncInv, Remove, Deselect, Unbind, At, CameraInv, Removed
<1>2. UNCHANGED <<enabled, wanted, marker, frigate, ghosts, budget>>
  BY DEF Remove, Deselect, Unbind
<1>3. /\ adopted' \subseteq Cameras /\ selected' \subseteq adopted' /\ conflict' \subseteq selected'
      /\ \A d \in Cameras \ {c} : d \in selected' <=> d \in selected
  BY <1>1 DEF Remove, Deselect, Unbind, TypeOK
<1>4. /\ binding' \in [Cameras -> Bindings] /\ \A d \in Cameras \ {c} : binding'[d] = binding[d]
      /\ Bound(c)' => Bound(c)
  <2>1. MaxVersion \in Nat
    BY SyncAssumption
  <2>2. Unbound \in Bindings /\ Unbound.status = "none" /\ binding \in [Cameras -> Bindings]
    BY <1>1, <2>1 DEF Unbound, Bindings, TypeOK
  <2>3. binding' = binding \/ binding' = [binding EXCEPT ![c] = Unbound]
    BY DEF Remove, Deselect, Unbind
  <2> QED
    BY <2>2, <2>3 DEF Bound
<1>5. /\ job' \in Jobs /\ queued' \subseteq Cameras
      /\ job' = Idle \/ (job'.step = "unbind" /\ job'.scope = job.scope)
  <2>1. Ended \/ Go("unbind")
    BY DEF Remove, Deselect, Unbind
  <2>2. "unbind" \in JobSteps /\ queued \subseteq Cameras
    BY <1>1 DEF JobSteps, TypeOK
  <2> QED
    BY <1>1, <2>1, <2>2, EndedJob, IdleJob, GoJob
<1>6. TypeOK'
  BY <1>1, <1>2, <1>3, <1>4, <1>5 DEF TypeOK, frigate, ghosts
<1>7. ASSUME NEW d \in Cameras PROVE Once(d)' /\ Owned(d)'
  <2>1. CASE d # c
    <3>1. Alone(d)
      BY <1>2, <1>3, <1>4, <2>1 DEF Alone, Bound, frigate, ghosts
    <3> QED
      BY <3>1, AloneOwned DEF SyncInv, CameraInv
  <2>2. CASE d = c
    <3>1. Once(c) /\ Owned(c) /\ (Exists(c)' <=> Exists(c))
      BY <1>1, <1>2 DEF CameraInv, Exists, frigate
    <3>2. Once(c)'
      BY <1>2, <3>1 DEF Once, frigate
    <3>3. Owned(c)'
      BY <1>1, <1>2, <1>4, <3>1 DEF Owned, frigate, ghosts
    <3> QED
      BY <2>2, <3>2, <3>3
  <2> QED
    BY <2>1, <2>2
<1>8. ASSUME NEW d \in Cameras PROVE Synced(d)' /\ Removed(d)'
  <2>1. CASE job' = Idle
    BY <2>1, IdleRelies
  <2>2. CASE job'.step = "unbind" /\ job'.scope = job.scope
    <3>1. d \in job.scope => ~(d \in mine /\ entry[d].on)
      BY <1>1 DEF SyncInv, CameraInv, Removed
    <3> QED
      BY <1>2, <2>2, <3>1, MovedRelies DEF frigate, ghosts
  <2> QED
    BY <1>5, <2>1, <2>2
<1> QED
  BY <1>6, <1>7, <1>8 DEF SyncInv, CameraInv

-----------------------------------------------------------------------------
(* A job begins or ends. *)

\* The lock changes hands, or its holder reads on: no camera changes.
LEMMA LockInv ==
  ASSUME SyncInv, UNCHANGED <<database, frigate, ghosts>>,
         job' \in Jobs, queued' \subseteq Cameras,
         budget' \in [faults : 0..MaxFaults, requests : 0..MaxRequests],
         \A d \in Cameras : Synced(d)' /\ Removed(d)'
  PROVE  SyncInv'
<1>1. TypeOK'
  BY DEF SyncInv, TypeOK, database, frigate, ghosts
<1>2. \A d \in Cameras : Alone(d)
  BY DEF Alone, Bound, database, frigate, ghosts
<1> QED
  BY <1>1, <1>2, AloneOwned DEF SyncInv, CameraInv

LEMMA EndInv == ASSUME SyncInv, EndPass \/ Crash PROVE SyncInv'
<1>1. TypeOK
  BY DEF SyncInv
<1>2. job' = Idle /\ queued' \subseteq Cameras
  BY <1>1, EndedJob DEF EndPass, Crash
<1>3. budget' \in [faults : 0..MaxFaults, requests : 0..MaxRequests]
  BY <1>1, SpendBudget DEF EndPass, Crash, TypeOK
<1> QED
  BY <1>2, <1>3, IdleJob, IdleRelies, LockInv DEF EndPass, Crash

LEMMA BeginPassInv == ASSUME SyncInv, BeginPass PROVE SyncInv'
<1>1. /\ TypeOK /\ selected \in SUBSET Cameras /\ "pass" \in Operations
      /\ Look \in Views /\ TRUE \in BOOLEAN
  BY LookViews DEF SyncInv, TypeOK, Operations
<1>6. PICK restart \in BOOLEAN : restart = TRUE
  BY <1>1
<1> DEFINE p == Plan(selected, restart, Look)
<1>2. p \in Jobs /\ p.step = "choose" /\ p.at = {} /\ p.todo = selected
  BY <1>1, PlanJob
<1>3. job' = [p EXCEPT !.op = "pass"] /\ UNCHANGED <<database, queued, frigate, ghosts, budget>>
  BY <1>6 DEF BeginPass
<1> HIDE DEF p
<1>4. job' \in Jobs /\ job'.step = "choose" /\ job'.at = {} /\ job'.todo = selected
  BY <1>1, <1>2, <1>3 DEF Jobs
<1>5. \A d \in Cameras : Synced(d)' /\ Removed(d)'
  BY <1>3, <1>4, PlannedRelies DEF database
<1> QED
  BY <1>1, <1>3, <1>4, <1>5, LockInv DEF TypeOK

LEMMA BeginCameraInv == ASSUME SyncInv, NEW c \in Cameras, BeginCamera(c) PROVE SyncInv'
<1>1. /\ TypeOK /\ {c} \in SUBSET Cameras /\ "camera" \in Operations
      /\ Look \in Views /\ TRUE \in BOOLEAN
  BY LookViews DEF SyncInv, Operations
<1>2. UNCHANGED <<database, frigate, ghosts, budget>> /\ queued' \subseteq Cameras
  BY <1>1 DEF BeginCamera, TypeOK
<1>3. job' \in Jobs /\ \A d \in Cameras : Synced(d)' /\ Removed(d)'
  <2>1. CASE c \in selected
    <3>4. PICK S \in SUBSET Cameras, restart \in BOOLEAN : S = {c} /\ restart = TRUE
      BY <1>1
    <3> DEFINE p == Plan(S, restart, Look)
    <3>1. p \in Jobs /\ p.step = "choose" /\ p.at = {} /\ p.todo = S
      BY <1>1, PlanJob
    <3>2. job' = [p EXCEPT !.op = "camera", !.scope = {c}]
      BY <2>1, <3>4 DEF BeginCamera
    <3> HIDE DEF p
    <3>3. job' \in Jobs /\ job'.step = "choose" /\ job'.at = {} /\ job'.todo = {c}
      BY <1>1, <3>1, <3>2, <3>4 DEF Jobs
    <3> QED
      BY <1>2, <2>1, <3>3, PlannedRelies DEF database
  <2>2. CASE c \notin selected
    <3>1. job' = Idle
      BY <2>2 DEF BeginCamera
    <3> QED
      BY <3>1, IdleJob, IdleRelies
  <2> QED
    BY <2>1, <2>2
<1> QED
  BY <1>1, <1>2, <1>3, LockInv DEF TypeOK

LEMMA BeginRepairInv == ASSUME SyncInv, BeginRepair PROVE SyncInv'
<1>1. TypeOK
  BY DEF SyncInv
<1>2. PICK stale \in SUBSET Cameras, aliases \in SUBSET Cameras, restart \in BOOLEAN :
        job' = [Idle EXCEPT !.op = "repair", !.step = "remember", !.dropped = stale,
                            !.aliases = aliases, !.restart = restart]
  <2> DEFINE stale == {c \in Cameras : Stale(c)}
             running == {c \in Cameras \ selected : workers[c] > 0 /\ ~IsRetired(c)}
             aliases == {c \in Cameras \ selected : alias[c] # 0}
  <2>1. (stale \cup running = {}) \in BOOLEAN
    OBVIOUS
  <2>2. stale \in SUBSET Cameras /\ aliases \in SUBSET Cameras
    OBVIOUS
  <2>3. job' = [Idle EXCEPT !.op = "repair", !.step = "remember", !.dropped = stale,
                            !.aliases = aliases, !.restart = (stale \cup running = {})]
    BY DEF BeginRepair
  <2> HIDE DEF stale, running, aliases
  <2> QED
    BY <2>1, <2>2, <2>3
<1>3. job' \in Jobs /\ job'.step = "remember" /\ job'.scope = {}
  BY <1>2, IdleJob DEF Jobs, Operations, JobSteps
<1>4. \A d \in Cameras : Synced(d)' /\ Removed(d)'
  BY <1>3, MovedRelies
<1> QED
  BY <1>1, <1>3, <1>4, SpendBudget, LockInv DEF BeginRepair, TypeOK

\* A camera that is not retired first is bound to no entry that is on.
LEMMA BeginRemoveInv ==
  ASSUME SyncInv, NEW c \in Cameras, NEW op \in {"remove", "unadopt"}, BeginRemove(c, op)
  PROVE  SyncInv'
<1>1. TypeOK /\ Owned(c)
  BY DEF SyncInv, CameraInv
<1>2. PICK dropped \in SUBSET Cameras, aliases \in SUBSET Cameras, step \in {"remember", "deselect"} :
        /\ job' = [Idle EXCEPT !.op = op, !.scope = {c}, !.step = step, !.dropped = dropped, !.aliases = aliases]
        /\ dropped = IF c \in selected /\ Bound(c) /\ Exists(c) THEN {c} ELSE {}
        /\ step = IF c \in selected /\ Bound(c) THEN "remember" ELSE "deselect"
  <2> DEFINE dropped == IF c \in selected /\ Bound(c) /\ Exists(c) THEN {c} ELSE {}
             aliases == IF c \in selected /\ Bound(c) /\ alias[c] # 0 THEN {c} ELSE {}
             step == IF c \in selected /\ Bound(c) THEN "remember" ELSE "deselect"
  <2>1. dropped \in SUBSET Cameras /\ aliases \in SUBSET Cameras /\ step \in {"remember", "deselect"}
    OBVIOUS
  <2>2. job' = [Idle EXCEPT !.op = op, !.scope = {c}, !.step = step, !.dropped = dropped, !.aliases = aliases]
    BY IdleJob DEF BeginRemove, Idle
  <2> QED
    BY <2>1, <2>2
<1>3. job' \in Jobs /\ job'.step = step /\ job'.scope = {c} /\ job'.dropped = dropped
  BY <1>2, IdleJob DEF Jobs, Operations, JobSteps
<1>4. UNCHANGED <<database, queued, frigate, ghosts>> /\ Spend("requests")
  BY DEF BeginRemove
<1>5. c \in mine /\ entry[c].on => step = "remember" /\ c \in dropped
  BY <1>1, <1>2 DEF Owned
<1>6. \A d \in Cameras : Synced(d)' /\ Removed(d)'
  BY <1>3, <1>4, <1>5, MovedRelies DEF frigate, ghosts
<1> QED
  BY <1>1, <1>3, <1>4, <1>6, SpendBudget, LockInv DEF TypeOK

-----------------------------------------------------------------------------
(* Frigate and the operators. *)

\* The holder of the lock relies on nothing that such a step changes.
LEMMA OutsideRelies ==
  ASSUME NEW d \in Cameras, Synced(d), Removed(d), job' = job, marker' = marker, mine' = mine,
         Bound(d)' <=> Bound(d), d \in selected => d \in selected', entry'[d].on => entry[d].on,
         d \notin crossed' => d \notin crossed /\ (entry[d].record = choice[d] => entry'[d].record = choice'[d])
  PROVE  Synced(d)' /\ Removed(d)'
  BY DEF Synced, Removed, Busy, Retiring, Want

LEMMA WorkerStartsInv == ASSUME SyncInv, NEW c \in Cameras, WorkerStarts(c) PROVE SyncInv'
<1>1. TypeOK /\ Once(c)
  BY DEF SyncInv, CameraInv
<1>2. UNCHANGED <<database, process, entry, alias, ghosts, budget>> /\ starting[c] > 0 /\ Exists(c)
  BY DEF WorkerStarts
<1>3. /\ starting' \in [Cameras -> Nat] /\ workers' \in [Cameras -> Nat]
      /\ \A d \in Cameras \ {c} : starting'[d] = starting[d] /\ workers'[d] = workers[d]
      /\ starting'[c] = starting[c] - 1 /\ workers'[c] = workers[c] + 1
  BY <1>1 DEF WorkerStarts, TypeOK
<1>4. TypeOK'
  BY <1>1, <1>2, <1>3 DEF TypeOK, database, process, ghosts
<1>5. ASSUME NEW d \in Cameras PROVE CameraInv(d)'
  <2>1. CameraInv(d)
    BY DEF SyncInv
  <2>2. Once(d)'
    <3>1. CASE d = c
      <4>1. workers[c] \in Nat /\ starting[c] \in Nat
        BY <1>1 DEF TypeOK
      <4> QED
        BY <1>1, <1>2, <1>3, <3>1, <4>1 DEF Once, Exists
    <3>2. CASE d # c
      BY <1>2, <1>3, <2>1, <3>2 DEF CameraInv, Once, Exists
    <3> QED
      BY <3>1, <3>2
  <2>3. Owned(d)'
    BY <1>2, <2>1 DEF CameraInv, Owned, Exists, Bound, database, ghosts
  <2>4. Synced(d)' /\ Removed(d)'
    BY <1>2, <2>1, OutsideRelies DEF CameraInv, Bound, database, process, ghosts
  <2> QED
    BY <2>2, <2>3, <2>4 DEF CameraInv
<1> QED
  BY <1>4, <1>5 DEF SyncInv

LEMMA FrigateRestartsInv == ASSUME SyncInv, FrigateRestarts PROVE SyncInv'
<1>1. TypeOK
  BY DEF SyncInv
<1>2. UNCHANGED <<database, process, entry, alias, ghosts>> /\ Restarted /\ Spend("requests")
  BY DEF FrigateRestarts
<1>3. /\ workers' \in [Cameras -> Nat] /\ starting' \in [Cameras -> Nat]
      /\ \A d \in Cameras : Once(d)'
  BY <1>1, <1>2, RestartedOnce
<1>4. TypeOK'
  BY <1>1, <1>2, <1>3, SpendBudget DEF TypeOK, database, process, ghosts
<1>5. ASSUME NEW d \in Cameras PROVE CameraInv(d)'
  <2>1. CameraInv(d)
    BY DEF SyncInv
  <2>2. Owned(d)'
    BY <1>2, <2>1 DEF CameraInv, Owned, Exists, Bound, database, ghosts
  <2>3. Synced(d)' /\ Removed(d)'
    BY <1>2, <2>1, OutsideRelies DEF CameraInv, Bound, database, process, ghosts
  <2> QED
    BY <1>3, <2>2, <2>3 DEF CameraInv
<1> QED
  BY <1>4, <1>5 DEF SyncInv

LEMMA OperatorRecordsInv == ASSUME SyncInv, NEW c \in Cameras, OperatorRecords(c) PROVE SyncInv'
<1>1. TypeOK
  BY DEF SyncInv
<1>2. /\ UNCHANGED <<database, process, alias, workers, starting, mine>> /\ Spend("requests")
      /\ choice' = [choice EXCEPT ![c] = ~entry[c].record]
      /\ crossed' = IF marker[c] = {} THEN crossed ELSE crossed \cup {c}
  BY DEF OperatorRecords
<1>3. entry[c].record \in BOOLEAN /\ (~entry[c].record) \in BOOLEAN
  BY <1>1 DEF TypeOK, Entries
<1>4. /\ entry' \in [Cameras -> Entries] /\ \A d \in Cameras \ {c} : entry'[d] = entry[d]
      /\ entry'[c].version = entry[c].version /\ entry'[c].on = entry[c].on
      /\ entry'[c].record = ~entry[c].record
  <2> DEFINE e == [entry[c] EXCEPT !.record = ~entry[c].record]
  <2>1. e \in Entries /\ e.version = entry[c].version /\ e.on = entry[c].on /\ e.record = ~entry[c].record
    BY <1>1, <1>3 DEF TypeOK, Entries
  <2>2. entry' = [entry EXCEPT ![c] = e]
    BY DEF OperatorRecords
  <2> HIDE DEF e
  <2> QED
    BY <1>1, <2>1, <2>2, OneEntry
<1>5. /\ choice' \in [Cameras -> BOOLEAN] /\ choice'[c] = entry'[c].record
      /\ \A d \in Cameras \ {c} : choice'[d] = choice[d]
  BY <1>1, <1>2, <1>3, <1>4 DEF TypeOK
<1>6. TypeOK'
  BY <1>1, <1>2, <1>4, <1>5, SpendBudget DEF TypeOK, database, process
<1>7. ASSUME NEW d \in Cameras PROVE CameraInv(d)'
  <2>1. CameraInv(d) /\ (Exists(d)' <=> Exists(d)) /\ (Bound(d)' <=> Bound(d))
    BY <1>2, <1>4 DEF SyncInv, Exists, Bound, database
  <2>2. Once(d)'
    BY <1>2, <2>1 DEF CameraInv, Once
  <2>3. Owned(d)'
    <3>1. CASE d = c
      BY <1>2, <1>4, <1>5, <2>1, <3>1 DEF CameraInv, Owned, database
    <3>2. CASE d # c
      BY <1>2, <1>4, <1>5, <2>1, <3>2 DEF CameraInv, Owned, database
    <3> QED
      BY <3>1, <3>2
  <2>4. entry'[d].on = entry[d].on /\ (d \notin crossed' => d \notin crossed)
    BY <1>2, <1>4
  <2>5. entry[d].record = choice[d] => entry'[d].record = choice'[d]
    BY <1>4, <1>5
  <2>6. Synced(d)' /\ Removed(d)'
    BY <1>2, <2>1, <2>4, <2>5, OutsideRelies DEF CameraInv, database, process
  <2> QED
    BY <2>2, <2>3, <2>6 DEF CameraInv
<1> QED
  BY <1>6, <1>7 DEF SyncInv

LEMMA OperatorDeletesInv == ASSUME SyncInv, NEW c \in Cameras, OperatorDeletes(c) PROVE SyncInv'
<1>1. TypeOK /\ MaxVersion \in Nat
  BY SyncAssumption DEF SyncInv
<1>2. /\ UNCHANGED <<database, process, alias, choice, crossed>> /\ Spend("requests") /\ job' = Idle
      /\ mine' = mine \ {c}
  BY DEF OperatorDeletes, process
<1>3. /\ entry' \in [Cameras -> Entries] /\ workers' \in [Cameras -> Nat] /\ starting' \in [Cameras -> Nat]
      /\ entry'[c].version = 0 /\ workers'[c] = 0 /\ starting'[c] = 0
      /\ \A d \in Cameras \ {c} : entry'[d] = entry[d] /\ workers'[d] = workers[d] /\ starting'[d] = starting[d]
  <2>1. Absent \in Entries /\ Absent.version = 0
    BY <1>1 DEF Absent, Entries
  <2> QED
    BY <1>1, <2>1 DEF OperatorDeletes, TypeOK
<1>4. TypeOK'
  BY <1>1, <1>2, <1>3, SpendBudget DEF TypeOK, database, process
<1>5. ASSUME NEW d \in Cameras PROVE CameraInv(d)'
  <2>1. CameraInv(d)
    BY DEF SyncInv
  <2>2. Once(d)' /\ Owned(d)'
    <3>1. CASE d = c
      <4>1. ~Exists(c)' /\ c \notin mine'
        BY <1>2, <1>3 DEF Exists
      <4>2. Once(c)'
        BY <1>3 DEF Once
      <4>3. Owned(c)'
        BY <1>2, <2>1, <3>1, <4>1 DEF CameraInv, Owned, database
      <4> QED
        BY <3>1, <4>2, <4>3
    <3>2. CASE d # c
      <4>1. Alone(d)
        BY <1>2, <1>3, <3>2 DEF Alone, Bound, database
      <4> QED
        BY <2>1, <4>1, AloneOwned DEF CameraInv
    <3> QED
      BY <3>1, <3>2
  <2> QED
    BY <1>2, <2>2, IdleRelies DEF CameraInv
<1> QED
  BY <1>4, <1>5 DEF SyncInv

LEMMA SelectInv == ASSUME SyncInv, NEW c \in Cameras, Select(c) PROVE SyncInv'
<1>1. TypeOK
  BY DEF SyncInv
<1>2. UNCHANGED <<adopted, enabled, wanted, marker, job, frigate, ghosts>> /\ Spend("requests")
  BY DEF Select
<1>3. /\ selected' \subseteq adopted /\ conflict' \subseteq selected' /\ queued' \subseteq Cameras
      /\ selected \subseteq selected'
  BY <1>1 DEF Select, TypeOK
<1>4. binding' \in [Cameras -> Bindings] /\ \A d \in Cameras : Bound(d)' <=> Bound(d)
  <2>1. CASE binding' = binding
    BY <1>1, <2>1 DEF TypeOK, Bound
  <2>2. CASE Bound(c) /\ binding' = [binding EXCEPT ![c].status = "pending"]
    BY <1>1, <2>2 DEF TypeOK, Bindings, Bound
  <2> QED
    BY <2>1, <2>2 DEF Select
<1>5. TypeOK'
  BY <1>1, <1>2, <1>3, <1>4, SpendBudget DEF TypeOK, frigate, ghosts
<1>6. ASSUME NEW d \in Cameras PROVE CameraInv(d)'
  <2>1. CameraInv(d)
    BY DEF SyncInv
  <2>2. Once(d)'
    BY <1>2, <2>1 DEF CameraInv, Once, Exists, frigate
  <2>3. Owned(d)'
    BY <1>2, <1>3, <1>4, <2>1 DEF CameraInv, Owned, Exists, frigate, ghosts
  <2>4. Synced(d)' /\ Removed(d)'
    BY <1>2, <1>3, <1>4, <2>1, OutsideRelies DEF CameraInv, frigate, ghosts
  <2> QED
    BY <2>2, <2>3, <2>4 DEF CameraInv
<1> QED
  BY <1>5, <1>6 DEF SyncInv

LEMMA SettingInv == ASSUME SyncInv, NEW c \in Cameras, Change(c) \/ SetEnabled(c) PROVE SyncInv'
<1>1. TypeOK
  BY DEF SyncInv
<1>2. UNCHANGED <<adopted, selected, conflict, binding, marker, process, frigate, ghosts>> /\ Spend("requests")
  BY DEF Change, SetEnabled
<1>3. wanted' \in [Cameras -> Versions] /\ enabled' \subseteq Cameras
  <2>1. CASE Change(c)
    <3>1. wanted \in [Cameras -> Versions] /\ wanted[c] < MaxVersion /\ MaxVersion \in Nat
      BY <1>1, <2>1, SyncAssumption DEF Change, TypeOK
    <3> QED
      BY <1>1, <2>1, <3>1 DEF Change, TypeOK, Versions
  <2>2. CASE SetEnabled(c)
    BY <1>1, <2>2 DEF SetEnabled, TypeOK
  <2> QED
    BY <2>1, <2>2
<1>4. TypeOK'
  BY <1>1, <1>2, <1>3, SpendBudget DEF TypeOK, process, frigate, ghosts
<1>5. ASSUME NEW d \in Cameras PROVE CameraInv(d)'
  <2>1. CameraInv(d) /\ Alone(d)
    BY <1>2 DEF SyncInv, Alone, Bound, frigate, ghosts
  <2>2. Synced(d)' /\ Removed(d)'
    BY <1>2, <2>1, OutsideRelies DEF CameraInv, Bound, process, frigate, ghosts
  <2> QED
    BY <2>1, <2>2, AloneOwned DEF CameraInv
<1> QED
  BY <1>4, <1>5 DEF SyncInv

LEMMA ForgetTargetInv == ASSUME SyncInv, ForgetTarget PROVE SyncInv'
<1>1. TypeOK
  BY DEF SyncInv
<1>2. /\ UNCHANGED <<adopted, enabled, wanted, process, frigate, choice, crossed>> /\ Spend("requests")
      /\ job' = Idle /\ selected' = {} /\ conflict' = {} /\ mine' = {}
  BY DEF ForgetTarget, process
<1>3. /\ binding' \in [Cameras -> Bindings] /\ marker' \in [Cameras -> SUBSET BOOLEAN]
      /\ \A d \in Cameras : ~Bound(d)' /\ marker'[d] = {}
  <2>1. MaxVersion \in Nat
    BY SyncAssumption
  <2>2. Unbound \in Bindings /\ Unbound.status = "none"
    BY <2>1 DEF Unbound, Bindings
  <2> QED
    BY <2>2 DEF ForgetTarget, Bound
<1>4. TypeOK'
  BY <1>1, <1>2, <1>3, SpendBudget DEF TypeOK, process, frigate
<1>5. ASSUME NEW d \in Cameras PROVE CameraInv(d)'
  <2>1. CameraInv(d)
    BY DEF SyncInv
  <2>2. Once(d)' /\ Owned(d)'
    BY <1>2, <1>3, <2>1 DEF CameraInv, Once, Owned, Exists, frigate
  <2> QED
    BY <1>2, <2>2, IdleRelies DEF CameraInv
<1> QED
  BY <1>4, <1>5 DEF SyncInv

-----------------------------------------------------------------------------
LEMMA InitInv == Init => SyncInv
<1> SUFFICES ASSUME Init PROVE SyncInv
  OBVIOUS
<1>1. MaxVersion \in Nat /\ 1 \in Versions
  BY SyncAssumption DEF Versions
<1>2. Unbound \in Bindings /\ Unbound.status = "none" /\ Absent \in Entries /\ Absent.version = 0
  BY <1>1 DEF Unbound, Bindings, Absent, Entries
<1>3. TypeOK
  BY <1>1, <1>2, IdleJob DEF Init, TypeOK
<1>4. ASSUME NEW c \in Cameras PROVE CameraInv(c)
  BY <1>2, IdleJob DEF Init, CameraInv, Once, Owned, Synced, Removed, Exists, Bound, Busy, Retiring
<1> QED
  BY <1>3, <1>4 DEF SyncInv

LEMMA ReconcileInv == ASSUME SyncInv, ViewInv, NEW c \in Cameras, Reconcile(c) PROVE SyncInv'
  BY RememberedInv, AttemptInv, DisableInv, WriteCameraInv, EnableInv, ProgressInv, RestartFrigateInv,
     ForgetInv DEF Reconcile

LEMMA StepInv == SyncInv /\ ViewInv /\ [Next]_vars => SyncInv'
<1> SUFFICES ASSUME SyncInv, ViewInv, [Next]_vars PROVE SyncInv'
  OBVIOUS
<1>1. CASE JobStep
  BY <1>1, DeleteAliasesInv, EndInv, RetireInv, RemoveInv, ReconcileInv DEF JobStep
<1>2. CASE Begin
  BY <1>2, BeginPassInv, BeginRepairInv, BeginCameraInv, BeginRemoveInv DEF Begin
<1>3. CASE Operator
  BY <1>3, SelectInv, SettingInv, ForgetTargetInv DEF Operator
<1>4. CASE Outside
  BY <1>4, FrigateRestartsInv, WorkerStartsInv, OperatorRecordsInv, OperatorDeletesInv DEF Outside
<1>5. CASE Crash
  BY <1>5, EndInv
<1>6. CASE UNCHANGED vars
  <2>1. TypeOK'
    BY <1>6 DEF SyncInv, TypeOK, vars, database, process, frigate, ghosts
  <2>2. ASSUME NEW d \in Cameras PROVE CameraInv(d)'
    <3>1. CameraInv(d) /\ Alone(d)
      BY <1>6 DEF SyncInv, Alone, Bound, vars, database, process, frigate, ghosts
    <3>2. Synced(d)' /\ Removed(d)'
      BY <1>6, <3>1, OutsideRelies DEF CameraInv, Bound, vars, database, process, frigate, ghosts
    <3> QED
      BY <3>1, <3>2, AloneOwned DEF CameraInv
  <2> QED
    BY <2>1, <2>2 DEF SyncInv
<1> QED
  BY <1>1, <1>2, <1>3, <1>4, <1>5, <1>6 DEF Next

-----------------------------------------------------------------------------
(* What a job has seen. *)

\* Frigate has just been read: what is seen is what is there.
LEMMA SeenAgain ==
  ASSUME \A d \in Cameras : job'.view[d].version = entry'[d].version
  PROVE  ViewInv'
  BY DEF ViewInv, Viewed, Seen, Exists

LEMMA NoView ==
  ASSUME job'.step \notin Busy \cup {"choose"}
  PROVE  ViewInv'
  BY DEF ViewInv, Viewed, Busy

\* A job that is left alone goes on with what it has seen.
LEMMA SameView ==
  ASSUME ViewInv, job' = job, \A d \in Cameras : Exists(d)' <=> Exists(d)
  PROVE  ViewInv'
  BY DEF ViewInv, Viewed, Seen

\* The cameras that are still to do were not written by the one that is done.
LEMMA DoneView ==
  ASSUME SyncInv, ViewInv, NEW c \in Cameras, Done(c), c \in job.at \/ job.step = "choose",
         job.step \in Busy \cup {"choose"},
         \A d \in Cameras \ {c} : Exists(d)' <=> Exists(d)
  PROVE  ViewInv'
<1>1. /\ job'.step = "choose" /\ job'.todo = job.todo \ {c} /\ job'.view = job.view
  BY DEF SyncInv, TypeOK, Jobs, Done, DoneSeeing
<1>2. job.step \in Busy => job.at = {c}
  BY DEF SyncInv, CameraInv, Synced, Busy
<1> QED
  BY <1>1, <1>2 DEF ViewInv, Viewed, Seen, Busy

\* The same between two steps of one camera.
LEMMA WorkView ==
  ASSUME SyncInv, ViewInv, NEW c \in Cameras, NEW step \in Busy,
         job'.step = step, job'.at = {c}, job'.todo = job.todo, job'.view = job.view,
         c \in job.at \/ job.step = "choose", job.step \in Busy \cup {"choose"},
         \A d \in Cameras \ {c} : Exists(d)' <=> Exists(d),
         step = "camera" => (Seen(c) <=> Exists(c)')
  PROVE  ViewInv'
<1>1. job.step \in Busy => job.at = {c}
  BY DEF SyncInv, CameraInv, Synced, Busy
<1> QED
  BY <1>1 DEF ViewInv, Viewed, Seen, Busy

LEMMA WorkSame ==
  ASSUME TypeOK, NEW c, NEW step, Work(c, step)
  PROVE  job'.step = step /\ job'.at = {c} /\ job'.todo = job.todo /\ job'.view = job.view
  BY DEF TypeOK, Jobs, Work, WorkSeeing

LEMMA ReconcileView ==
  ASSUME SyncInv, ViewInv, NEW c \in Cameras, Reconcile(c)
  PROVE  ViewInv'
<1>1. TypeOK /\ MaxVersion \in Nat
  BY SyncAssumption DEF SyncInv
<1>2. CASE SkipDisabled(c) \/ ReportConflict(c) \/ HoldRetired(c) \/ RefuseCamera(c) \/ KeepInPlace(c)
  <2>1. Done(c) /\ job.step = "choose" /\ entry' = entry
    BY <1>2 DEF SkipDisabled, ReportConflict, HoldRetired, RefuseCamera, KeepInPlace, Chosen, At, frigate
  <2> QED
    BY <2>1, DoneView DEF Exists
<1>3. CASE TimedOut(c) \/ Forget(c)
  <2>1. Done(c) /\ c \in job.at /\ job.step \in Busy /\ entry' = entry
    BY <1>3 DEF TimedOut, Forget, At, Working, Busy, frigate
  <2> QED
    BY <2>1, DoneView DEF Exists
<1>4. CASE Awaited(c) \/ Verified(c)
  <2>1. job'.view = Look /\ entry' = entry
    BY <1>1, <1>4 DEF Awaited, Verified, DoneSeeing, WorkSeeing, TypeOK, Jobs, frigate
  <2> QED
    BY <2>1, SeenAgain DEF Look
<1>5. CASE AttemptDisable(c) \/ AttemptCamera(c)
  <2>1. PICK step \in {"disable", "await", "camera"} : Work(c, step)
    BY <1>5 DEF AttemptDisable, AttemptCamera
  <2>2. c \in job.todo /\ job.step = "choose" /\ entry' = entry
    BY <1>5 DEF AttemptDisable, AttemptCamera, NeedsWork, Chosen, At, frigate
  <2>3. Seen(c) <=> Exists(c)
    BY <2>2 DEF ViewInv, Viewed
  <2> QED
    BY <1>1, <2>1, <2>2, <2>3, WorkSame, WorkView DEF Exists, Busy
<1>6. CASE Disable(c)
  <2>1. c \in job.at /\ job.step \in Busy
    BY <1>6 DEF Disable, At, Working, Busy
  <2>2. PICK out \in Outcomes : DoneSeeing(c, IF out = "ok" THEN ConfigRead(entry') ELSE job.view)
    BY <1>6 DEF Disable
  <2>3. \A d \in Cameras \ {c} : Exists(d)' <=> Exists(d)
    BY <1>1, <1>6 DEF Disable, TypeOK, Exists
  <2>4. CASE out = "ok"
    <3>1. job'.view = ConfigRead(entry')
      BY <1>1, <2>2, <2>4 DEF DoneSeeing, TypeOK, Jobs
    <3>2. \A d \in Cameras : ConfigRead(entry')[d].version = entry'[d].version
      <4>1. ASSUME NEW d \in Cameras PROVE ConfigRead(entry')[d].version = entry'[d].version
        <5>1. job.view[d] \in [version : 0..MaxVersion, on : BOOLEAN, alias : 0..MaxVersion,
                               running : BOOLEAN]
          BY <1>1 DEF TypeOK, Jobs, Views
        <5>2. ConfigRead(entry')[d] = [job.view[d] EXCEPT !.version = entry'[d].version,
                                                         !.on = entry'[d].on]
          BY DEF ConfigRead
        <5> QED
          BY <5>1, <5>2
      <4> QED
        BY <4>1
    <3> QED
      BY <3>1, <3>2, SeenAgain
  <2>5. CASE out # "ok"
    BY <2>1, <2>2, <2>3, <2>5, DoneView DEF Done
  <2> QED
    BY <2>4, <2>5
<1>7. CASE WriteCamera(c) \/ Enable(c) \/ WriteStreams(c) \/ RestartFrigate(c)
  <2>1. c \in job.at /\ job.step \in Busy
    BY <1>7 DEF WriteCamera, Enable, WriteStreams, RestartFrigate, At, Working, Busy
  <2>2. job.at = {c}
    BY <2>1 DEF SyncInv, CameraInv, Synced
  <2>3. \A d \in Cameras \ {c} : Exists(d)' <=> Exists(d)
    BY <1>1, <1>7 DEF WriteCamera, Enable, WriteStreams, RestartFrigate, TypeOK, Exists
  <2>4. \/ Done(c)
        \/ \E step \in Busy \ {"camera"} :
             job'.step = step /\ job'.at = {c} /\ job'.todo = job.todo /\ job'.view = job.view
    <3>1. CASE WriteCamera(c)
      <4>1. \/ Done(c)
            \/ \E step \in {"enable", "streams"} :
                 job' = [job EXCEPT !.second = IsSecond(c), !.step = step]
        BY <3>1 DEF WriteCamera
      <4> QED
        BY <1>1, <2>2, <4>1 DEF TypeOK, Jobs, Busy
    <3>2. CASE Enable(c) \/ WriteStreams(c) \/ RestartFrigate(c)
      <4>1. Done(c) \/ Work(c, "streams") \/ Work(c, "restart") \/ Work(c, "verify")
        BY <3>2 DEF Enable, WriteStreams, RestartFrigate
      <4> QED
        BY <1>1, <4>1, WorkSame DEF Busy
    <3> QED
      BY <1>7, <3>1, <3>2
  <2>5. CASE Done(c)
    BY <2>1, <2>3, <2>5, DoneView
  <2>6. ASSUME NEW step \in Busy \ {"camera"},
               job'.step = step, job'.at = {c}, job'.todo = job.todo, job'.view = job.view
        PROVE  ViewInv'
    BY <2>1, <2>3, <2>6, WorkView
  <2> QED
    BY <2>4, <2>5, <2>6
<1> QED
  BY <1>2, <1>3, <1>4, <1>5, <1>6, <1>7 DEF Reconcile

LEMMA ViewStep == SyncInv /\ ViewInv /\ [Next]_vars => ViewInv'
<1> SUFFICES ASSUME SyncInv, ViewInv, [Next]_vars PROVE ViewInv'
  OBVIOUS
<1>1. TypeOK
  BY DEF SyncInv
<1>2. Idle.step \notin Busy \cup {"choose"}
  BY IdleJob DEF Busy
<1>3. CASE DeleteAliases
  <2>1. \/ Ended \/ Go("deselect")
        \/ job' = [Plan(selected, job.restart, Look') EXCEPT !.op = "repair"]
    BY <1>3 DEF DeleteAliases
  <2>2. CASE Ended
    BY <1>2, <2>2, NoView DEF Ended
  <2>3. CASE Go("deselect")
    <3>1. job'.step = "deselect"
      BY <1>1, <2>3 DEF Go, TypeOK, Jobs
    <3> QED
      BY <3>1, NoView DEF Busy
  <2>4. CASE job' = [Plan(selected, job.restart, Look') EXCEPT !.op = "repair"]
    <3>1. job'.view = Look'
      BY <2>4 DEF Plan, Idle
    <3> QED
      BY <3>1, SeenAgain DEF Look
  <2> QED
    BY <2>1, <2>2, <2>3, <2>4
<1>4. CASE BeginPass \/ \E c \in Cameras : BeginCamera(c)
  <2>1. entry' = entry /\ (job'.view = Look \/ job' = Idle)
    BY <1>4 DEF BeginPass, BeginCamera, Plan, Idle, frigate
  <2>2. CASE job'.view = Look
    BY <2>1, <2>2, SeenAgain DEF Look
  <2>3. CASE job' = Idle
    BY <1>2, <2>3, NoView
  <2> QED
    BY <2>1, <2>2, <2>3
<1>5. CASE EndPass \/ Crash
  BY <1>2, <1>5, NoView DEF EndPass, Crash, Ended
<1>6. CASE BeginRepair \/ \E c \in Cameras : BeginRemove(c, "remove") \/ BeginRemove(c, "unadopt")
  <2>1. job'.step \in {"remember", "deselect"}
    BY <1>6 DEF BeginRepair, BeginRemove, Idle
  <2> QED
    BY <2>1, NoView DEF Busy
<1>7. ASSUME NEW c \in Cameras, Retire(c) \/ Remove(c) PROVE ViewInv'
  <2>1. job'.step \in {"recordOff", "turnOff", "remember", "unbind"} \/ job' = Idle
    BY <1>1, <1>7
    DEF Retire, Remove, Remember, RecordOff, TurnOff, TurnOffUnverified, RetireStep, Deselect,
        Unbind, Go, Ended, TypeOK, Jobs
  <2> QED
    BY <1>2, <2>1, NoView DEF Busy
<1>8. CASE Operator \/ UNCHANGED vars
  <2>1. job' = job /\ entry' = entry
    BY <1>8 DEF Operator, ForgetTarget, Select, Change, SetEnabled, vars, process, frigate
  <2> QED
    BY <2>1, SameView DEF Exists
<1>9. CASE FrigateRestarts \/ \E c \in Cameras : WorkerStarts(c) \/ OperatorRecords(c)
  <2>1. job' = job /\ \A d \in Cameras : entry'[d].version = entry[d].version
    BY <1>1, <1>9 DEF FrigateRestarts, WorkerStarts, OperatorRecords, TypeOK, Entries, process
  <2> QED
    BY <2>1, SameView DEF Exists
<1>10. ASSUME NEW c \in Cameras, OperatorDeletes(c) PROVE ViewInv'
  BY <1>2, <1>10, NoView DEF OperatorDeletes, process
<1> QED
  BY <1>3, <1>4, <1>5, <1>6, <1>7, <1>8, <1>9, <1>10, ReconcileView
  DEF Next, JobStep, Begin, Outside

LEMMA InvHolds == Spec => []SyncInv
<1>1. Init => ViewInv
  BY IdleJob DEF Init, ViewInv, Viewed, Busy
<1> QED
  BY <1>1, InitInv, StepInv, ViewStep, PTL DEF Spec

\* Every variable keeps its type: only adopted cameras are selected, and only
\* selections have errors (frigate_camera_selections, frigate_bindings).
THEOREM TypeCorrect == Spec => []TypeOK
<1>1. SyncInv => TypeOK
  BY DEF SyncInv
<1> QED
  BY <1>1, InvHolds, PTL

\* Frigate never captures a camera with two sets of workers, whatever answers of
\* additions and restarts are lost (reconcile_frigate, the add topic of set_config).
THEOREM NoDoubleCapture == Spec => []CapturedOnce
<1>1. SyncInv => CapturedOnce
  <2> SUFFICES ASSUME SyncInv, NEW c \in Cameras PROVE workers[c] <= 1
    BY DEF CapturedOnce
  <2>1. workers[c] \in Nat /\ starting[c] \in Nat /\ workers[c] + starting[c] <= 1
    BY DEF SyncInv, TypeOK, CameraInv, Once
  <2> QED
    BY <2>1
<1> QED
  BY <1>1, InvHolds, PTL

\* A camera's recording setting survives its removal, failed and repeated
\* retirements and its return, unless the operator changes it while it is being
\* restored (_retire_camera, frigate_retired_cameras).
THEOREM RecordingKept == Spec => []RecordingReturns
<1>1. SyncInv => RecordingReturns
  BY DEF SyncInv, TypeOK, CameraInv, Owned, RecordingReturns
<1> QED
  BY <1>1, InvHolds, PTL

\* No entry of the integration's own is on in Frigate without a binding, however
\* often its removal failed or crashed (remove_frigate_camera).
THEOREM NoneRunsUnknown == Spec => []RunningIsBound
<1>1. SyncInv => RunningIsBound
  BY DEF SyncInv, TypeOK, CameraInv, Owned, RunningIsBound
<1> QED
  BY <1>1, InvHolds, PTL

\* A step of the holder of the lock changes at most the entry of the camera it is at.
LEMMA WriterStep ==
  ASSUME TypeOK, JobStep, NEW c \in Cameras, entry'[c] # entry[c]
  PROVE  c \in job.at /\ job.step \in Busy \cup Retiring
<1>1. ASSUME NEW d \in Cameras, Retire(d) \/ Disable(d) \/ WriteCamera(d) \/ Enable(d)
      PROVE  d \in job.at /\ job.step \in Busy \cup Retiring /\ (d # c => entry'[c] = entry[c])
  <2>1. CASE Remember(d)
    BY <2>1 DEF Remember, frigate
  <2>2. CASE RecordOff(d) \/ TurnOff(d)
    <3>1. PICK written, next : RetireStep(d, written, next)
      BY <2>2 DEF RecordOff, TurnOff
    <3>2. d # c => entry'[c] = entry[c]
      BY <3>1 DEF RetireStep, TypeOK
    <3> QED
      BY <2>2, <3>1, <3>2 DEF RecordOff, TurnOff, RetireStep, At, Retiring
  <2>3. CASE TurnOffUnverified(d)
    BY <2>3 DEF TurnOffUnverified, At, Retiring, TypeOK
  <2>4. CASE Disable(d)
    BY <2>4 DEF Disable, At, Working, Busy, TypeOK
  <2>5. CASE WriteCamera(d)
    BY <2>5 DEF WriteCamera, At, Working, Busy, TypeOK
  <2>6. CASE Enable(d)
    BY <2>6 DEF Enable, At, Working, Busy, TypeOK
  <2> QED
    BY <1>1, <2>1, <2>2, <2>3, <2>4, <2>5, <2>6 DEF Retire
<1>2. entry' = entry \/ \E d \in Cameras : Retire(d) \/ Disable(d) \/ WriteCamera(d) \/ Enable(d)
  BY DEF JobStep, DeleteAliases, EndPass, Remove, Deselect, Unbind, Reconcile, SkipDisabled, AttemptDisable,
     ReportConflict, HoldRetired, RefuseCamera, KeepInPlace, AttemptCamera, WriteStreams, RestartFrigate, Awaited, Verified,
     TimedOut, Forget, frigate
<1> QED
  BY <1>1, <1>2

LEMMA ForeignStep ==
  ASSUME SyncInv, [Next]_vars, NEW c \in Cameras \ mine, Exists(c), entry'[c] # entry[c], marker[c] = {}
  PROVE  OperatorRecords(c) \/ OperatorDeletes(c)
<1>1. TypeOK /\ CameraInv(c) /\ ~Bound(c)
  BY DEF SyncInv, CameraInv, Owned
<1>2. ~JobStep
  BY <1>1, WriterStep DEF CameraInv, Synced, Removed
<1>3. Outside
  BY <1>2 DEF Next, Begin, BeginPass, BeginRepair, BeginCamera, BeginRemove, Operator, ForgetTarget, Select,
     Change, SetEnabled, Crash, vars, frigate
<1>4. \E d \in Cameras : OperatorRecords(d) \/ OperatorDeletes(d)
  BY <1>3 DEF Outside, FrigateRestarts, WorkerStarts
<1>5. ASSUME NEW d \in Cameras, d # c, OperatorRecords(d) \/ OperatorDeletes(d) PROVE FALSE
  BY <1>1, <1>5 DEF OperatorRecords, OperatorDeletes, TypeOK
<1> QED
  BY <1>4, <1>5

\* Of a camera whose entry the integration did not make and has not retired, only
\* an operator in Frigate changes the entry: what it does not own it reports as a
\* conflict and never overwrites (reconcile_frigate).
THEOREM ForeignUntouched == Spec => ForeignKept
<1>1. SyncInv /\ [Next]_vars =>
        [\A c \in Cameras \ mine :
           Exists(c) /\ entry'[c] # entry[c] /\ marker[c] = {} => OperatorRecords(c) \/ OperatorDeletes(c)]_vars
  BY ForeignStep
<1> QED
  BY <1>1, InvHolds, PTL DEF Spec, ForeignKept
=============================================================================
