------------------------ MODULE AddressRecoveryProofs ------------------------
(***************************************************************************)
(* What AddressRecovery promises of any cameras and addresses, under any   *)
(* number of moves, failures and requests. A first inductive invariant     *)
(* follows the plans of a recovery: one plan per camera, all of them       *)
(* carried out before the relay is touched, and every camera that was      *)
(* moved and is still adopted has its incident open and the sources        *)
(* recovery gave it, unless its operator adopted it again. A second one,   *)
(* proved with it, follows the relay: what it has, what is desired of it   *)
(* and what its latest revision says, at every step of the procedure.      *)
(***************************************************************************)
EXTENDS AddressRecovery, TLAPS

PlansOK ==
  /\ job.moved \subseteq job.plans
  /\ \A p, q \in job.plans : p.camera = q.camera => p = q
  /\ job.kind # "recovery" => job.plans = {}
  /\ job.step \in {"replace", "probe", "commit"} => job.moved = job.plans

MovedOK ==
  \A p \in job.moved :
    p.camera \notin job.gone =>
      /\ p.camera \in incident
      /\ p.camera \notin crossed => saved[p.camera] = p.to

IInv == TypeOK /\ PlansOK /\ MovedOK /\ MovesAreExplained

-----------------------------------------------------------------------------
(* Types *)

LEMMA NoJobType == NoJob \in Jobs
  BY DEF NoJob, Jobs, Steps, Everywhere, Places

LEMMA DesiredType == ASSUME TypeOK PROVE Desired \in Everywhere
  BY DEF TypeOK, Desired, Everywhere, Places

LEMMA SpendType ==
  ASSUME TypeOK, NEW what \in {"moves", "faults", "requests"}, Spend(what)
  PROVE  budget' \in [moves : 0..MaxMoves, faults : 0..MaxFaults, requests : 0..MaxRequests]
  BY RecoveryAssumption DEF TypeOK, Spend

LEMMA CompleteType ==
  ASSUME TypeOK, NEW status \in {"applied", "failed"}, Complete(status)
  PROVE  revision' \in [sources : Everywhere, status : {"desired", "applied", "failed"}]
<1> DEFINE Rows == [sources : Everywhere, status : {"desired", "applied", "failed"}]
<1>1. revision \in Rows
  BY DEF TypeOK
<1> HIDE DEF Rows
<1>2. [revision EXCEPT !.status = status] \in Rows
  BY <1>1 DEF Rows
<1> QED BY <1>1, <1>2 DEF Complete, Rows

LEMMA RecordType ==
  ASSUME TypeOK, RecordDesired(Desired)
  PROVE  revision' \in [sources : Everywhere, status : {"desired", "applied", "failed"}]
  BY DesiredType DEF TypeOK, RecordDesired

LEMMA ReplaceType ==
  ASSUME TypeOK, NEW sources \in Everywhere, NEW cameras, NEW outcome \in ReplaceOutcomes,
         Replace(sources, cameras, outcome)
  PROVE  /\ config' \in Everywhere /\ runtime' \in Everywhere /\ broken' \in BOOLEAN
         /\ budget' \in [moves : 0..MaxMoves, faults : 0..MaxFaults, requests : 0..MaxRequests]
<1> DEFINE file == [c \in Cameras |-> IF c \in cameras /\ sources[c] # Nowhere
                                      THEN sources[c] ELSE config[c]]
<1>1. file \in Everywhere
  BY DEF TypeOK, Everywhere
<1>2. [c \in Cameras |-> IF c \in {d \in cameras : sources[d] # Nowhere}
                         THEN sources[c] ELSE config[c]] = file
  OBVIOUS
<1>3. config' \in Everywhere /\ runtime' \in Everywhere
  BY <1>1, <1>2 DEF Replace, TypeOK
<1>4. broken' \in BOOLEAN
  BY DEF Replace, TypeOK
<1>5. budget' \in [moves : 0..MaxMoves, faults : 0..MaxFaults, requests : 0..MaxRequests]
  <2>1. CASE outcome = "done"
    BY <2>1 DEF Replace, TypeOK
  <2>2. CASE outcome # "done"
    <3>1. Spend("faults")
      BY <2>2 DEF Replace
    <3> QED BY <3>1, SpendType
  <2> QED BY <2>1, <2>2
<1> QED BY <1>3, <1>4, <1>5

\* A job whose progress changes is still one.
LEMMA StepType ==
  ASSUME TypeOK, NEW step \in Steps
  PROVE  [job EXCEPT !.step = step] \in Jobs
  BY DEF TypeOK, Jobs

LEMMA TakeType ==
  ASSUME TypeOK, NEW kind \in {"reconcile", "settings"}, NEW cameras \in SUBSET Cameras,
         Take(kind, "apply", cameras)
  PROVE  /\ revision' \in [sources : Everywhere, status : {"desired", "applied", "failed"}]
         /\ job' \in Jobs /\ job'.plans = {} /\ job'.moved = {} /\ job'.step = "apply"
<1>1. RecordDesired(Desired)
  BY DEF Take
<1>2. Desired \in Everywhere /\ Fresh(Desired) \in BOOLEAN
  BY DesiredType DEF Fresh, Reused
<1>3. job' = [kind |-> kind, step |-> "apply", plans |-> {}, moved |-> {}, gone |-> {},
              sources |-> Desired, taken |-> TRUE, fresh |-> Fresh(Desired),
              enabling |-> cameras]
  BY DEF Take, NoJob
<1>4. job' \in Jobs
  BY <1>2, <1>3 DEF Jobs, Steps
<1> QED BY <1>1, <1>3, <1>4, RecordType

-----------------------------------------------------------------------------
(* The parts of the invariant that speak of plans *)

\* A step that leaves the cameras' sources, records and incidents alone, and
\* does not move on with a plan, keeps what is said of both.
LEMMA QuietStep ==
  ASSUME IInv, UNCHANGED <<saved, known, incident, crossed>>,
         job'.moved = {} \/ (job'.moved = job.moved /\ job'.gone = job.gone)
  PROVE  MovedOK' /\ MovesAreExplained'
  BY DEF IInv, MovedOK, MovesAreExplained

\* A step that only goes from one step of the job to another keeps the plans.
LEMMA StepOnly ==
  ASSUME IInv, NEW step \in Steps, job' = [job EXCEPT !.step = step],
         step \in {"replace", "probe", "commit"} => job.moved = job.plans
  PROVE  /\ PlansOK' /\ job' \in Jobs
         /\ job'.moved = job.moved /\ job'.gone = job.gone /\ job'.plans = job.plans
<1>1. job \in Jobs
  BY DEF IInv, TypeOK
<1>2. /\ job'.kind = job.kind /\ job'.step = step /\ job'.plans = job.plans
      /\ job'.moved = job.moved /\ job'.gone = job.gone
  BY <1>1 DEF Jobs
<1>3. job' \in Jobs
  BY StepType DEF IInv
<1> QED BY <1>2, <1>3 DEF IInv, PlansOK

LEMMA IInvInit == Init => IInv
<1> SUFFICES ASSUME Init PROVE IInv
  OBVIOUS
<1>1. TypeOK
  <2>1. \A c \in Cameras : saved[c] # Nowhere
    BY RecoveryAssumption DEF Init
  <2>2. where \in Everywhere /\ config \in Everywhere
    BY DEF Init, Everywhere, Places
  <2>3. job \in Jobs
    BY NoJobType DEF Init
  <2>4. revision \in [sources : Everywhere, status : {"desired", "applied", "failed"}]
    BY <2>2 DEF Init
  <2>5. budget \in [moves : 0..MaxMoves, faults : 0..MaxFaults, requests : 0..MaxRequests]
    BY RecoveryAssumption DEF Init
  <2> QED BY <2>1, <2>2, <2>3, <2>4, <2>5 DEF Init, TypeOK
<1>2. PlansOK /\ MovedOK
  BY DEF Init, NoJob, PlansOK, MovedOK
<1>3. MovesAreExplained
  BY DEF Init, MovesAreExplained
<1> QED BY <1>1, <1>2, <1>3 DEF IInv

LEMMA BeginKeeps ==
  ASSUME IInv, NEW valid \in SUBSET Displaced, RecoveryBegin(valid)
  PROVE  IInv'
<1> DEFINE plans == {[camera |-> c, from |-> saved[c], to |-> seen[c]] : c \in valid}
           step == IF valid = {} THEN "drift" ELSE "moving"
<1>1. \A c \in Displaced : c \in Cameras /\ saved[c] \in Hosts /\ seen[c] \in Hosts
  BY DEF IInv, TypeOK, Displaced, Everywhere, Places
<1>2. valid \subseteq Displaced
  OBVIOUS
<1>3. job' = [kind |-> "recovery", step |-> step, plans |-> plans, moved |-> {}, gone |-> {},
              sources |-> [c \in Cameras |-> Nowhere], taken |-> FALSE, fresh |-> FALSE,
              enabling |-> {}]
  BY DEF RecoveryBegin, NoJob
<1>4. plans \in SUBSET Plan
  BY <1>1, <1>2 DEF Plan
<1>5. job' \in Jobs
  BY <1>3, <1>4 DEF Jobs, Steps, Everywhere, Places
<1>6. PlansOK'
  BY <1>3 DEF PlansOK
<1>7. resting' \in SUBSET (Cameras \X Hosts)
  BY <1>1 DEF RecoveryBegin, IInv, TypeOK
<1>8. TypeOK'
  BY <1>5, <1>7 DEF RecoveryBegin, IInv, TypeOK, database, relay, ghosts, requests
<1>9. job'.moved = {}
  BY <1>3
<1>10. MovedOK' /\ MovesAreExplained'
  BY <1>9, QuietStep DEF RecoveryBegin, database, ghosts
<1> QED BY <1>6, <1>8, <1>10 DEF IInv

LEMMA MoveKeeps ==
  ASSUME IInv, NEW p \in job.plans, MoveSources(p)
  PROVE  IInv'
<1>1. p \in Plan /\ p.camera \in Cameras /\ p.to \in Hosts /\ job \in Jobs
  BY DEF IInv, TypeOK, Jobs, Plan
<1>2. CASE p.camera \in job.gone
  <2>1. job' = [job EXCEPT !.step = "failing"] /\ UNCHANGED <<saved, incident>>
    BY <1>2 DEF MoveSources
  <2>2. /\ PlansOK' /\ job' \in Jobs
        /\ job'.moved = job.moved /\ job'.gone = job.gone
    BY <2>1, StepOnly DEF Steps
  <2>3. MovedOK' /\ MovesAreExplained'
    BY <2>1, <2>2, QuietStep DEF MoveSources, ghosts
  <2>4. TypeOK'
    BY <2>1, <2>2 DEF MoveSources, IInv, TypeOK, relay, ghosts, requests
  <2> QED BY <2>2, <2>3, <2>4 DEF IInv
<1>3. CASE p.camera \notin job.gone
  <2>1. /\ saved' = [saved EXCEPT ![p.camera] = p.to]
        /\ incident' = incident \cup {p.camera}
        /\ job' = [job EXCEPT !.moved = @ \cup {p}]
        /\ UNCHANGED <<known, crossed, on>>
    BY <1>3 DEF MoveSources, ghosts
  <2>2. /\ job'.kind = job.kind /\ job'.step = "moving" /\ job'.plans = job.plans
        /\ job'.moved = job.moved \cup {p} /\ job'.gone = job.gone
    BY <2>1, <1>1 DEF Jobs, MoveSources
  <2>3. job' \in Jobs
    BY <2>1, <1>1 DEF Jobs
  <2>4. saved \in Everywhere /\ incident \subseteq Cameras /\ on \subseteq Cameras
    BY DEF IInv, TypeOK
  <2>5. saved' \in Everywhere
    BY <2>1, <2>4, <1>1 DEF Everywhere, Places
  <2>6. \A c \in Cameras : saved'[c] = IF c = p.camera THEN p.to ELSE saved[c]
    BY <2>1, <2>4, <1>1 DEF Everywhere
  <2>7. p.to # Nowhere
    BY <1>1, RecoveryAssumption
  <2>8. on' \in SUBSET {c \in Cameras : saved'[c] # Nowhere}
        /\ incident' \in SUBSET {c \in Cameras : saved'[c] # Nowhere}
    BY <2>1, <2>6, <2>7, <1>1 DEF IInv, TypeOK
  <2>9. TypeOK'
    BY <2>3, <2>5, <2>8 DEF MoveSources, IInv, TypeOK, relay, ghosts, requests
  <2>10. PlansOK'
    BY <2>2 DEF IInv, PlansOK
  <2>11. MovedOK'
    <3> SUFFICES ASSUME NEW q \in job'.moved, q.camera \notin job'.gone
                 PROVE  q.camera \in incident' /\ (q.camera \notin crossed' => saved'[q.camera] = q.to)
      BY DEF MovedOK
    <3>1. q.camera \in Cameras /\ q \in job.plans
      BY <2>2 DEF IInv, TypeOK, PlansOK, Jobs, Plan
    <3>2. CASE q.camera = p.camera
      <4>1. q = p
        BY <3>1, <3>2 DEF IInv, PlansOK
      <4> QED BY <4>1, <2>1, <2>6, <3>1
    <3>3. CASE q.camera # p.camera
      <4>1. q \in job.moved
        BY <3>3, <2>2
      <4> QED BY <4>1, <3>1, <3>3, <2>1, <2>2, <2>6 DEF IInv, MovedOK
    <3> QED BY <3>2, <3>3
  <2>12. MovesAreExplained'
    BY <2>1, <2>6 DEF IInv, MovesAreExplained
  <2> QED BY <2>9, <2>10, <2>11, <2>12 DEF IInv
<1> QED BY <1>2, <1>3

LEMMA CommitKeeps ==
  ASSUME IInv, NEW p \in job.plans, Commit(p)
  PROVE  IInv'
<1>1. /\ p \in Plan /\ p.camera \in Cameras /\ p.to \in Hosts /\ job \in Jobs
      /\ p \in job.moved /\ job.step = "commit"
  BY DEF IInv, TypeOK, Jobs, Plan, PlansOK, Commit
<1>2. CASE p.camera \in job.gone
  <2>1. job' = [job EXCEPT !.step = "drift"] /\ UNCHANGED <<known, period, incident, resting>>
    BY <1>2 DEF Commit
  <2>2. /\ PlansOK' /\ job' \in Jobs
        /\ job'.moved = job.moved /\ job'.gone = job.gone
    BY <2>1, StepOnly DEF Steps
  <2>3. MovedOK' /\ MovesAreExplained'
    BY <2>1, <2>2, QuietStep DEF Commit, ghosts
  <2>4. TypeOK'
    BY <2>1, <2>2 DEF Commit, IInv, TypeOK, relay, ghosts, requests
  <2> QED BY <2>2, <2>3, <2>4 DEF IInv
<1>3. CASE p.camera \notin job.gone
  <2> DEFINE step == IF job.plans = {p} THEN "drift" ELSE "commit"
  <2>1. /\ known' = [known EXCEPT ![p.camera] = p.to]
        /\ period' = [period EXCEPT ![p.camera] = p.to]
        /\ incident' = incident \ {p.camera}
        /\ job' = [job EXCEPT !.plans = @ \ {p}, !.moved = @ \ {p}, !.step = step]
        /\ UNCHANGED <<saved, crossed, on>>
    BY <1>3 DEF Commit, ghosts
  <2>2. resting' \in SUBSET (Cameras \X Hosts)
    BY <1>3 DEF Commit, IInv, TypeOK
  <2>3. /\ job'.kind = job.kind /\ job'.step = step /\ job'.plans = job.plans \ {p}
        /\ job'.moved = job.moved \ {p} /\ job'.gone = job.gone
    BY <2>1, <1>1 DEF Jobs
  <2>4. job' \in Jobs
    BY <2>1, <1>1 DEF Jobs, Steps
  <2>5. known \in Everywhere /\ period \in Everywhere
    BY DEF IInv, TypeOK
  <2>6. known' \in Everywhere /\ period' \in Everywhere
    BY <2>1, <2>5, <1>1 DEF Everywhere, Places
  <2>7. \A c \in Cameras : known'[c] = IF c = p.camera THEN p.to ELSE known[c]
    BY <2>1, <2>5, <1>1 DEF Everywhere
  <2>8. TypeOK'
    BY <2>1, <2>2, <2>4, <2>6 DEF Commit, IInv, TypeOK, relay, ghosts, requests
  <2>9. PlansOK'
    BY <2>3, <1>1 DEF IInv, PlansOK
  <2>10. MovedOK'
    <3> SUFFICES ASSUME NEW q \in job'.moved, q.camera \notin job'.gone
                 PROVE  q.camera \in incident' /\ (q.camera \notin crossed' => saved'[q.camera] = q.to)
      BY DEF MovedOK
    <3>1. q.camera # p.camera /\ q \in job.moved
      BY <1>1, <2>3 DEF IInv, PlansOK
    <3> QED BY <3>1, <2>1, <2>3 DEF IInv, MovedOK
  <2>11. MovesAreExplained'
    BY <1>1, <1>3, <2>1, <2>7 DEF IInv, MovesAreExplained, MovedOK
  <2> QED BY <2>8, <2>9, <2>10, <2>11 DEF IInv
<1> QED BY <1>2, <1>3

LEMMA RollbackKeeps ==
  ASSUME IInv, NEW p \in job.moved, Rollback(p)
  PROVE  IInv'
<1>1. /\ p \in Plan /\ p.camera \in Cameras /\ p.from \in Hosts /\ job \in Jobs
      /\ job.step = "rollback"
  BY DEF IInv, TypeOK, Jobs, Plan, PlansOK, Rollback
<1>2. CASE p.camera \in job.gone
  <2>1. job' = [job EXCEPT !.step = "drift"] /\ UNCHANGED saved
    BY <1>2 DEF Rollback
  <2>2. /\ PlansOK' /\ job' \in Jobs
        /\ job'.moved = job.moved /\ job'.gone = job.gone
    BY <2>1, StepOnly DEF Steps
  <2>3. MovedOK' /\ MovesAreExplained'
    BY <2>1, <2>2, QuietStep DEF Rollback, ghosts
  <2>4. TypeOK'
    BY <2>1, <2>2 DEF Rollback, IInv, TypeOK, relay, ghosts, requests
  <2> QED BY <2>2, <2>3, <2>4 DEF IInv
<1>3. CASE p.camera \notin job.gone
  <2>1. /\ saved' = [saved EXCEPT ![p.camera] = p.from]
        /\ job' = [job EXCEPT !.moved = @ \ {p}]
        /\ UNCHANGED <<known, incident, crossed, on>>
    BY <1>3 DEF Rollback, ghosts
  <2>2. /\ job'.kind = job.kind /\ job'.step = job.step /\ job'.plans = job.plans
        /\ job'.moved = job.moved \ {p} /\ job'.gone = job.gone
    BY <2>1, <1>1 DEF Jobs
  <2>3. job' \in Jobs
    BY <2>1, <1>1 DEF Jobs
  <2>4. saved \in Everywhere
    BY DEF IInv, TypeOK
  <2>5. saved' \in Everywhere
    BY <2>1, <2>4, <1>1 DEF Everywhere, Places
  <2>6. \A c \in Cameras : saved'[c] = IF c = p.camera THEN p.from ELSE saved[c]
    BY <2>1, <2>4, <1>1 DEF Everywhere
  <2>7. p.from # Nowhere
    BY <1>1, RecoveryAssumption
  <2>8. on' \in SUBSET {c \in Cameras : saved'[c] # Nowhere}
        /\ incident' \in SUBSET {c \in Cameras : saved'[c] # Nowhere}
    BY <2>1, <2>6, <2>7 DEF IInv, TypeOK
  <2>9. TypeOK'
    BY <2>3, <2>5, <2>8 DEF Rollback, IInv, TypeOK, relay, ghosts, requests
  <2>10. PlansOK'
    BY <2>2, <1>1 DEF IInv, PlansOK
  <2>11. MovedOK'
    <3> SUFFICES ASSUME NEW q \in job'.moved, q.camera \notin job'.gone
                 PROVE  q.camera \in incident' /\ (q.camera \notin crossed' => saved'[q.camera] = q.to)
      BY DEF MovedOK
    <3>1. q.camera # p.camera /\ q \in job.moved /\ q.camera \in Cameras
      BY <2>2, <1>1 DEF IInv, PlansOK, Jobs, Plan
    <3> QED BY <3>1, <2>1, <2>2, <2>6 DEF IInv, MovedOK
  <2>12. MovesAreExplained'
    BY <1>1, <1>3, <2>1, <2>6 DEF IInv, MovesAreExplained, MovedOK
  <2> QED BY <2>9, <2>10, <2>11, <2>12 DEF IInv
<1> QED BY <1>2, <1>3

\* The steps of a recovery that touch only the relay, the revision and the
\* place in the procedure.
LEMMA ProcedureKeeps ==
  ASSUME IInv,
         \/ TakeRevision \/ ProbeMoved \/ FailRevision
         \/ \E outcome \in ReplaceOutcomes : ReplaceMoved(outcome) \/ RollbackDone(outcome)
  PROVE  IInv'
<1> DEFINE Rows == [sources : Everywhere, status : {"desired", "applied", "failed"}]
<1>1. CASE TakeRevision
  <2>1. revision' \in Rows /\ Desired \in Everywhere /\ Fresh(Desired) \in BOOLEAN
    BY <1>1, RecordType, DesiredType DEF TakeRevision, IInv, Fresh, Reused
  <2>2. job \in Jobs /\ job.moved = job.plans
    BY <1>1 DEF IInv, TypeOK, TakeRevision
  <2>3. job' = [job EXCEPT !.step = "replace", !.sources = Desired, !.taken = TRUE,
                           !.fresh = Fresh(Desired)]
    BY <1>1 DEF TakeRevision
  <2>4. /\ job'.kind = job.kind /\ job'.plans = job.plans
        /\ job'.moved = job.moved /\ job'.gone = job.gone
    BY <2>2, <2>3 DEF Jobs
  <2>5. job' \in Jobs
    BY <2>1, <2>2, <2>3 DEF Jobs, Steps
  <2>6. PlansOK'
    BY <2>2, <2>4 DEF IInv, PlansOK
  <2>7. MovedOK' /\ MovesAreExplained'
    BY <1>1, <2>4, QuietStep DEF TakeRevision, ghosts
  <2>8. TypeOK'
    BY <1>1, <2>1, <2>5 DEF TakeRevision, IInv, TypeOK, relay, ghosts, requests
  <2> QED BY <2>6, <2>7, <2>8 DEF IInv
<1>2. CASE ProbeMoved
  <2>1. revision' \in Rows
    BY <1>2, CompleteType DEF ProbeMoved, IInv, TypeOK
  <2> DEFINE step == IF Served THEN "commit" ELSE "failing"
  <2>2. job' = [job EXCEPT !.step = step] /\ step \in Steps /\ job.moved = job.plans
    BY <1>2 DEF ProbeMoved, AfterProbe, Steps, IInv, PlansOK
  <2>3. /\ PlansOK' /\ job' \in Jobs
        /\ job'.moved = job.moved /\ job'.gone = job.gone
    BY <2>2, StepOnly
  <2>4. MovedOK' /\ MovesAreExplained'
    BY <1>2, <2>3, QuietStep DEF ProbeMoved, AfterProbe, ghosts
  <2>5. TypeOK'
    BY <1>2, <2>1, <2>3 DEF ProbeMoved, AfterProbe, IInv, TypeOK, relay, ghosts, requests
  <2> QED BY <2>3, <2>4, <2>5 DEF IInv
<1>3. CASE FailRevision
  <2>1. revision' \in Rows
    BY <1>3, CompleteType DEF FailRevision, IInv, TypeOK
  <2>2. job' = [job EXCEPT !.step = "rollback"]
    BY <1>3 DEF FailRevision
  <2>3. /\ PlansOK' /\ job' \in Jobs
        /\ job'.moved = job.moved /\ job'.gone = job.gone
    BY <2>2, StepOnly DEF Steps
  <2>4. MovedOK' /\ MovesAreExplained'
    BY <1>3, <2>3, QuietStep DEF FailRevision, ghosts
  <2>5. TypeOK'
    BY <1>3, <2>1, <2>3 DEF FailRevision, IInv, TypeOK, relay, ghosts, requests
  <2> QED BY <2>3, <2>4, <2>5 DEF IInv
<1>4. ASSUME NEW outcome \in ReplaceOutcomes, ReplaceMoved(outcome) PROVE IInv'
  <2> DEFINE step == IF outcome = "done" THEN "probe" ELSE "failing"
  <2>1. job' = [job EXCEPT !.step = step] /\ step \in Steps /\ job.moved = job.plans
    BY <1>4 DEF ReplaceMoved, Steps, IInv, PlansOK
  <2>2. /\ PlansOK' /\ job' \in Jobs
        /\ job'.moved = job.moved /\ job'.gone = job.gone
    BY <2>1, StepOnly
  <2>3. job.sources \in Everywhere
    BY DEF IInv, TypeOK, Jobs
  <2>4. /\ config' \in Everywhere /\ runtime' \in Everywhere /\ broken' \in BOOLEAN
        /\ budget' \in [moves : 0..MaxMoves, faults : 0..MaxFaults, requests : 0..MaxRequests]
    BY <1>4, <2>3, ReplaceType DEF ReplaceMoved, IInv
  <2>5. MovedOK' /\ MovesAreExplained'
    BY <1>4, <2>2, QuietStep DEF ReplaceMoved, database
  <2>6. TypeOK'
    BY <1>4, <2>2, <2>4 DEF ReplaceMoved, IInv, TypeOK, database, requests
  <2> QED BY <2>2, <2>5, <2>6 DEF IInv
<1>5. ASSUME NEW outcome \in ReplaceOutcomes, RollbackDone(outcome) PROVE IInv'
  <2>1. job' = [job EXCEPT !.step = "drift"]
    BY <1>5 DEF RollbackDone
  <2>2. /\ PlansOK' /\ job' \in Jobs
        /\ job'.moved = job.moved /\ job'.gone = job.gone
    BY <2>1, StepOnly DEF Steps
  <2>3. /\ config' \in Everywhere /\ runtime' \in Everywhere /\ broken' \in BOOLEAN
        /\ budget' \in [moves : 0..MaxMoves, faults : 0..MaxFaults, requests : 0..MaxRequests]
    <3>1. CASE job.taken
      BY <1>5, <3>1, DesiredType, ReplaceType DEF RollbackDone, IInv
    <3>2. CASE ~job.taken
      BY <1>5, <3>2 DEF RollbackDone, IInv, TypeOK, relay
    <3> QED BY <3>1, <3>2
  <2>4. MovedOK' /\ MovesAreExplained'
    BY <1>5, <2>2, QuietStep DEF RollbackDone, database
  <2>5. TypeOK'
    BY <1>5, <2>2, <2>3 DEF RollbackDone, IInv, TypeOK, database, requests
  <2> QED BY <2>2, <2>4, <2>5 DEF IInv
<1> QED BY <1>1, <1>2, <1>3, <1>4, <1>5

\* Reconciliations have no plans, and leave the cameras' rows alone.
LEMMA LockHolderKeeps ==
  ASSUME IInv,
         \/ DriftCheck \/ ReconcileBegin \/ SettingsBegin \/ ObserveIdentities
         \/ \E done \in SUBSET Cameras : Apply(done)
         \/ \E outcome \in ReplaceOutcomes : SettingsRestart(outcome)
  PROVE  IInv'
<1> DEFINE Rows == [sources : Everywhere, status : {"desired", "applied", "failed"}]
           Budgets == [moves : 0..MaxMoves, faults : 0..MaxFaults, requests : 0..MaxRequests]
<1>1. ASSUME job'.plans = {}, job'.moved = {}, job'.step \notin {"replace", "probe", "commit"},
             UNCHANGED <<saved, known, incident, crossed>>
      PROVE  PlansOK' /\ MovedOK' /\ MovesAreExplained'
  BY <1>1, QuietStep DEF PlansOK
<1>2. NoJob.plans = {} /\ NoJob.moved = {} /\ NoJob.step = "idle" /\ NoJob \in Jobs
  BY NoJobType DEF NoJob
<1>3. CASE DriftCheck
  <2>1. UNCHANGED <<where, seen, saved, on, incident, known, period, resting, relay, ghosts,
                    requests, budget>>
    BY <1>3 DEF DriftCheck, Take, database
  <2>2. /\ revision' \in Rows /\ job' \in Jobs
        /\ job'.plans = {} /\ job'.moved = {} /\ job'.step \in {"idle", "apply"}
    <3>1. CASE Drifted
      BY <1>3, <3>1, TakeType DEF DriftCheck, IInv
    <3>2. CASE ~Drifted
      BY <1>3, <3>2, <1>2 DEF DriftCheck, IInv, TypeOK, database
    <3> QED BY <3>1, <3>2
  <2> QED BY <1>1, <2>1, <2>2 DEF IInv, TypeOK, relay, ghosts, requests
<1>4. CASE ReconcileBegin
  <2>1. /\ Take("reconcile", "apply", enabling) /\ enabling \in SUBSET Cameras
        /\ pending' = FALSE /\ enabling' = {} /\ UNCHANGED budget
    BY <1>4 DEF ReconcileBegin, IInv, TypeOK
  <2>2. /\ revision' \in Rows /\ job' \in Jobs
        /\ job'.plans = {} /\ job'.moved = {} /\ job'.step = "apply"
    BY <2>1, TakeType DEF IInv
  <2> QED BY <1>1, <2>1, <2>2 DEF Take, IInv, TypeOK, relay, ghosts
<1>5. CASE SettingsBegin
  <2>1. Take("settings", "apply", {}) /\ Spend("requests") /\ UNCHANGED requests
    BY <1>5 DEF SettingsBegin
  <2>2. /\ revision' \in Rows /\ job' \in Jobs
        /\ job'.plans = {} /\ job'.moved = {} /\ job'.step = "apply"
    BY <2>1, TakeType DEF IInv
  <2>3. budget' \in Budgets
    BY <2>1, SpendType DEF IInv
  <2> QED BY <1>1, <2>1, <2>2, <2>3 DEF Take, IInv, TypeOK, relay, ghosts, requests
<1>6. CASE ObserveIdentities
  <2>1. period' \in Everywhere
    BY <1>6 DEF ObserveIdentities, IInv, TypeOK, Everywhere
  <2>2. UNCHANGED <<where, seen, saved, on, incident, known, revision, resting, relay, job,
                    requests, ghosts, budget>>
    BY <1>6 DEF ObserveIdentities
  <2>3. MovedOK' /\ MovesAreExplained'
    BY <2>2, QuietStep DEF ghosts
  <2> QED BY <2>1, <2>2, <2>3 DEF IInv, TypeOK, PlansOK, relay, ghosts, requests
<1>7. ASSUME NEW done \in SUBSET Cameras, Apply(done) PROVE IInv'
  <2> DEFINE mixed(streams) == [c \in Cameras |-> IF c \in done THEN job.sources[c] ELSE streams[c]]
  <2>1. /\ config' = mixed(config) /\ runtime' = mixed(runtime)
        /\ broken' = ~(done = Cameras)
        /\ on' \in SUBSET on /\ pending' \in BOOLEAN
        /\ UNCHANGED <<where, seen, saved, incident, known, period, resting, enabling, crossed>>
    BY <1>7 DEF Apply, IInv, TypeOK
  <2>2. job.sources \in Everywhere /\ config \in Everywhere /\ runtime \in Everywhere
    BY DEF IInv, TypeOK, Jobs
  <2>3. mixed(config) \in Everywhere /\ mixed(runtime) \in Everywhere
    BY <2>2 DEF Everywhere
  <2>4. budget' \in Budgets
    <3>1. CASE done = Cameras
      BY <1>7, <3>1 DEF Apply, IInv, TypeOK
    <3>2. CASE done # Cameras
      BY <1>7, <3>2, SpendType DEF Apply, IInv
    <3> QED BY <3>1, <3>2
  <2>5. revision' \in Rows
    <3>1. CASE job.kind = "settings" \/ ~job.fresh
      BY <1>7, <3>1 DEF Apply, IInv, TypeOK
    <3>2. CASE ~(job.kind = "settings" \/ ~job.fresh)
      BY <1>7, <3>2, CompleteType DEF Apply, IInv
    <3> QED BY <3>1, <3>2
  <2>6. CASE done = Cameras /\ job.kind = "settings"
    <3>1. job' = [job EXCEPT !.step = "restart"]
      BY <1>7, <2>6 DEF Apply
    <3>2. /\ PlansOK' /\ job' \in Jobs
          /\ job'.moved = job.moved /\ job'.gone = job.gone
      BY <3>1, StepOnly DEF Steps
    <3>3. MovedOK' /\ MovesAreExplained'
      BY <2>1, <3>2, QuietStep
    <3> QED BY <2>1, <2>3, <2>4, <2>5, <3>2, <3>3 DEF IInv, TypeOK
  <2>7. CASE ~(done = Cameras /\ job.kind = "settings")
    <3>1. job' = NoJob
      BY <1>7, <2>7 DEF Apply
    <3> QED BY <1>1, <1>2, <2>1, <2>3, <2>4, <2>5, <3>1 DEF IInv, TypeOK
  <2> QED BY <2>6, <2>7
<1>8. ASSUME NEW outcome \in ReplaceOutcomes, SettingsRestart(outcome) PROVE IInv'
  <2>1. job.sources \in Everywhere
    BY DEF IInv, TypeOK, Jobs
  <2>2. /\ config' \in Everywhere /\ runtime' \in Everywhere /\ broken' \in BOOLEAN
        /\ budget' \in Budgets
    BY <1>8, <2>1, ReplaceType DEF SettingsRestart, IInv
  <2>3. revision' \in Rows
    BY <1>8, CompleteType DEF SettingsRestart, IInv, TypeOK
  <2>4. job' = NoJob
        /\ UNCHANGED <<where, seen, saved, on, incident, known, period, resting, requests, crossed>>
    BY <1>8 DEF SettingsRestart
  <2> QED BY <1>1, <1>2, <2>2, <2>3, <2>4 DEF IInv, TypeOK, requests
<1> QED BY <1>3, <1>4, <1>5, <1>6, <1>7, <1>8

\* Requests change the rows of one camera while a recovery may be under way.
LEMMA RequestKeeps ==
  ASSUME IInv, NEW c \in Cameras, Adopt(c) \/ Unadopt(c) \/ SetEnabled(c)
  PROVE  IInv'
<1>1. /\ saved \in Everywhere /\ known \in Everywhere /\ period \in Everywhere
      /\ seen \in Everywhere /\ job \in Jobs
      /\ \A p \in job.plans : p.camera \in Cameras
  BY DEF IInv, TypeOK, Jobs, Plan
<1>2. budget' \in [moves : 0..MaxMoves, faults : 0..MaxFaults, requests : 0..MaxRequests]
  BY SpendType DEF Adopt, Unadopt, SetEnabled, IInv
<1>3. CASE Adopt(c)
  <2>1. /\ saved' = [saved EXCEPT ![c] = seen[c]] /\ known' = [known EXCEPT ![c] = seen[c]]
        /\ period' = [period EXCEPT ![c] = seen[c]] /\ seen[c] # Nowhere
        /\ crossed' = IF InRecovery(c) THEN crossed \cup {c} ELSE crossed \ {c}
        /\ UNCHANGED <<incident, job>>
    BY <1>3 DEF Adopt
  <2>2. saved' \in Everywhere /\ known' \in Everywhere /\ period' \in Everywhere
    BY <1>1, <2>1 DEF Everywhere
  <2>3. \A d \in Cameras : /\ saved'[d] = IF d = c THEN seen[c] ELSE saved[d]
                           /\ known'[d] = IF d = c THEN seen[c] ELSE known[d]
    BY <1>1, <2>1 DEF Everywhere
  <2>4. /\ on' \in SUBSET {d \in Cameras : saved'[d] # Nowhere}
        /\ incident' \in SUBSET {d \in Cameras : saved'[d] # Nowhere}
    BY <1>3, <2>1, <2>3 DEF Adopt, IInv, TypeOK
  <2>5. TypeOK'
    BY <1>2, <1>3, <2>1, <2>2, <2>4 DEF Adopt, IInv, TypeOK, relay
  <2>6. PlansOK'
    BY <2>1 DEF IInv, PlansOK
  <2>7. MovedOK'
    <3> SUFFICES ASSUME NEW q \in job.moved, q.camera \notin job.gone
                 PROVE  q.camera \in incident /\ (q.camera \notin crossed' => saved'[q.camera] = q.to)
      BY <2>1 DEF MovedOK
    <3>1. q \in job.plans /\ q.camera \in Cameras /\ job.kind = "recovery"
      BY <1>1 DEF IInv, PlansOK
    <3>2. CASE q.camera = c
      <4>1. InRecovery(c)
        BY <3>1, <3>2 DEF InRecovery, PlannedCameras
      <4> QED BY <4>1, <3>2, <2>1 DEF IInv, MovedOK
    <3>3. CASE q.camera # c
      BY <3>1, <3>3, <2>1, <2>3 DEF IInv, MovedOK
    <3> QED BY <3>2, <3>3
  <2>8. MovesAreExplained'
    BY <2>1, <2>3 DEF IInv, MovesAreExplained
  <2> QED BY <2>5, <2>6, <2>7, <2>8 DEF IInv
<1>4. CASE Unadopt(c)
  <2>1. /\ saved' = [saved EXCEPT ![c] = Nowhere] /\ known' = [known EXCEPT ![c] = Nowhere]
        /\ period' = [period EXCEPT ![c] = Nowhere]
        /\ on' = on \ {c} /\ incident' = incident \ {c} /\ crossed' = crossed \ {c}
        /\ job' = IF InRecovery(c) THEN [job EXCEPT !.gone = @ \cup {c}] ELSE job
    BY <1>4 DEF Unadopt
  <2>2. saved' \in Everywhere /\ known' \in Everywhere /\ period' \in Everywhere
    BY <1>1, <2>1 DEF Everywhere, Places
  <2>3. \A d \in Cameras : /\ saved'[d] = IF d = c THEN Nowhere ELSE saved[d]
                           /\ known'[d] = IF d = c THEN Nowhere ELSE known[d]
    BY <1>1, <2>1 DEF Everywhere
  <2>4. /\ job' \in Jobs /\ job'.kind = job.kind /\ job'.step = job.step
        /\ job'.plans = job.plans /\ job'.moved = job.moved
        /\ job'.gone = IF InRecovery(c) THEN job.gone \cup {c} ELSE job.gone
    BY <1>1, <2>1 DEF Jobs
  <2>5. /\ on' \in SUBSET {d \in Cameras : saved'[d] # Nowhere}
        /\ incident' \in SUBSET {d \in Cameras : saved'[d] # Nowhere}
    BY <2>1, <2>3 DEF IInv, TypeOK
  <2>6. TypeOK'
    BY <1>2, <1>4, <2>1, <2>2, <2>4, <2>5 DEF Unadopt, IInv, TypeOK, relay
  <2>7. PlansOK'
    BY <2>4 DEF IInv, PlansOK
  <2>8. MovedOK'
    <3> SUFFICES ASSUME NEW q \in job.moved, q.camera \notin job'.gone
                 PROVE  q.camera \in incident' /\ (q.camera \notin crossed' => saved'[q.camera] = q.to)
      BY <2>4 DEF MovedOK
    <3>1. q \in job.plans /\ q.camera \in Cameras /\ job.kind = "recovery"
      BY <1>1 DEF IInv, PlansOK
    <3>2. q.camera # c
      <4>1. ASSUME q.camera = c PROVE InRecovery(c)
        BY <3>1, <4>1 DEF InRecovery, PlannedCameras
      <4> QED BY <4>1, <2>4
    <3> QED BY <3>1, <3>2, <2>1, <2>3, <2>4 DEF IInv, MovedOK
  <2>9. MovesAreExplained'
    BY <2>1, <2>3 DEF IInv, MovesAreExplained
  <2> QED BY <2>6, <2>7, <2>8, <2>9 DEF IInv
<1>5. CASE SetEnabled(c)
  <2>1. /\ UNCHANGED <<where, seen, saved, incident, known, period, revision, resting, relay,
                       job, ghosts>>
        /\ pending' = TRUE /\ enabling' \in SUBSET Cameras
    BY <1>5 DEF SetEnabled, IInv, TypeOK
  <2>2. on' \in SUBSET {d \in Cameras : saved'[d] # Nowhere}
    BY <1>5, <2>1 DEF SetEnabled, IInv, TypeOK
  <2>3. MovedOK' /\ MovesAreExplained'
    BY <2>1, QuietStep DEF ghosts
  <2> QED BY <1>2, <2>1, <2>2, <2>3 DEF IInv, TypeOK, PlansOK, relay, ghosts
<1> QED BY <1>3, <1>4, <1>5

LEMMA SurroundingsKeep ==
  ASSUME IInv,
         \/ Restart \/ RelayRestart
         \/ \E a \in resting : Elapse(a)
         \/ \E c \in Cameras : Scan(c) \/ \E place \in Places : Relocate(c, place)
  PROVE  IInv'
<1>1. CASE Restart
  <2>1. budget' \in [moves : 0..MaxMoves, faults : 0..MaxFaults, requests : 0..MaxRequests]
    BY <1>1, SpendType DEF Restart, IInv
  <2>2. job' = NoJob /\ job' \in Jobs /\ job'.plans = {} /\ job'.moved = {}
        /\ job'.step = "idle"
    BY <1>1, NoJobType DEF Restart, NoJob
  <2>3. MovedOK' /\ MovesAreExplained'
    BY <1>1, <2>2, QuietStep DEF Restart, database
  <2>4. config' \in Everywhere /\ runtime' \in Everywhere
    BY <1>1 DEF Restart, Everywhere, Places
  <2> QED BY <1>1, <2>1, <2>2, <2>3, <2>4 DEF Restart, IInv, TypeOK, PlansOK, database
<1>2. CASE RelayRestart
  <2>1. budget' \in [moves : 0..MaxMoves, faults : 0..MaxFaults, requests : 0..MaxRequests]
    BY <1>2, SpendType DEF RelayRestart, IInv
  <2>2. MovedOK' /\ MovesAreExplained'
    BY <1>2, QuietStep DEF RelayRestart, database, ghosts
  <2> QED BY <1>2, <2>1, <2>2 DEF RelayRestart, IInv, TypeOK, PlansOK, database, ghosts, requests
<1>3. ASSUME NEW a \in resting, Elapse(a) PROVE IInv'
  <2>1. MovedOK' /\ MovesAreExplained'
    BY <1>3, QuietStep DEF Elapse, database, ghosts
  <2> QED BY <1>3, <2>1 DEF Elapse, IInv, TypeOK, PlansOK, database, relay, ghosts, requests
<1>4. ASSUME NEW c \in Cameras, Scan(c) PROVE IInv'
  <2>1. MovedOK' /\ MovesAreExplained'
    BY <1>4, QuietStep DEF Scan, database, ghosts
  <2>2. seen' \in Everywhere
    BY <1>4 DEF Scan, IInv, TypeOK, Everywhere
  <2> QED BY <1>4, <2>1, <2>2 DEF Scan, IInv, TypeOK, PlansOK, database, relay, ghosts, requests
<1>5. ASSUME NEW c \in Cameras, NEW place \in Places, Relocate(c, place) PROVE IInv'
  <2>1. MovedOK' /\ MovesAreExplained'
    BY <1>5, QuietStep DEF Relocate, database, ghosts
  <2>2. where' \in Everywhere
    BY <1>5 DEF Relocate, IInv, TypeOK, Everywhere
  <2>3. budget' \in [moves : 0..MaxMoves, faults : 0..MaxFaults, requests : 0..MaxRequests]
    BY <1>5, SpendType DEF Relocate, IInv
  <2> QED BY <1>5, <2>1, <2>2, <2>3 DEF Relocate, IInv, TypeOK, PlansOK, database, relay, ghosts, requests
<1> QED BY <1>1, <1>2, <1>3, <1>4, <1>5

-----------------------------------------------------------------------------
(* Theorems *)

LEMMA IInvStep == IInv /\ [Next]_vars => IInv'
<1> SUFFICES ASSUME IInv, [Next]_vars PROVE IInv'
  OBVIOUS
<1>1. CASE JobStep
  BY <1>1, MoveKeeps, CommitKeeps, RollbackKeeps, ProcedureKeeps, LockHolderKeeps DEF JobStep
<1>2. CASE Turn
  BY <1>2, BeginKeeps DEF Turn
<1>3. CASE ReconcileBegin \/ SettingsBegin \/ ObserveIdentities
  BY <1>3, LockHolderKeeps
<1>4. CASE \E c \in Cameras : Adopt(c) \/ Unadopt(c) \/ SetEnabled(c)
  BY <1>4, RequestKeeps
<1>5. CASE \/ Restart \/ RelayRestart
           \/ \E a \in resting : Elapse(a)
           \/ \E c \in Cameras : Scan(c) \/ \E place \in Places : Relocate(c, place)
  BY <1>5, SurroundingsKeep
<1>6. CASE UNCHANGED vars
  <2>1. MovedOK' /\ MovesAreExplained'
    BY <1>6, QuietStep DEF vars, database, ghosts
  <2> QED BY <1>6, <2>1 DEF vars, IInv, TypeOK, PlansOK, database, relay, ghosts, requests
<1> QED BY <1>1, <1>2, <1>3, <1>4, <1>5, <1>6 DEF Next

LEMMA IInvAlways == Spec => []IInv
  BY IInvInit, IInvStep, PTL DEF Spec

\* The camera tables, the relay and the procedure of recovery keep their types:
\* no flag or incident of a camera that is not adopted, among others
\* (recover_inventory_addresses against unadopt_camera).
THEOREM TypeCorrect == Spec => []TypeOK
  BY IInvAlways, PTL DEF IInv

\* Whatever fails, restarts or is requested between the steps of
\* recover_inventory_addresses, sources that are not where the last recorded
\* adoption or move put them have an open address incident.
THEOREM MovesExplained == Spec => []MovesAreExplained
  BY IInvAlways, PTL DEF IInv

-----------------------------------------------------------------------------
(* The relay and its revisions. As long as no request waits and no call of  *)
(* the relay failed, the relay has what the database desires, except for    *)
(* the cameras a recovery has moved and not yet, or no longer, applied; a   *)
(* row taken up for a recovery was never applied before, since the moves    *)
(* change what is desired.                                                  *)

Quiet == ~pending /\ ~broken

StepsOK ==
  /\ job.kind = "none" => job.step = "idle"
  /\ job.kind = "recovery" =>
       job.step \in {"moving", "replace", "probe", "commit", "failing", "rollback", "drift"}
  /\ job.kind \in {"reconcile", "settings"} => job.step \in {"apply", "restart"}
  /\ job.kind # "recovery" => job.gone = {}

SourcesOK ==
  /\ ~broken => config = runtime
  /\ job.step = "restart" => ~broken /\ config = job.sources
  /\ job.step \in {"replace", "probe", "apply", "restart"} =>
       /\ revision.sources = job.sources
       /\ ~pending => job.sources = Desired

UntouchedOK ==
  /\ job.gone = {}
  /\ \A p \in job.plans : p.camera \in on
  /\ job.step \in {"replace", "probe", "failing", "rollback"} => job.taken
  /\ job.step = "moving" =>
       /\ job.plans # {}
       /\ \A p \in job.plans : runtime[p.camera] = p.from /\ p.from # p.to
       /\ \A p \in job.moved : saved[p.camera] = p.to

RelayOK ==
  /\ job.step \in {"idle", "probe", "commit", "drift"} => runtime = Desired
  /\ job.step # "apply" => \A c \in Cameras \ PlannedCameras : runtime[c] = Desired[c]
  /\ job.step \in {"replace", "probe", "failing", "rollback"} => revision.status # "applied"
  /\ job.step \in {"idle", "moving", "commit", "drift", "restart"} /\ revision.status = "applied"
       => runtime = revision.sources

RInv == StepsOK /\ SourcesOK /\ (Quiet => UntouchedOK /\ RelayOK)

\* What replace_streams leaves when every call of it succeeded.
LEMMA Replaced ==
  ASSUME TypeOK, NEW sources \in Everywhere, NEW cameras, NEW outcome \in ReplaceOutcomes,
         Replace(sources, cameras, outcome), ~broken', config = runtime
  PROVE  /\ outcome = "done" /\ ~broken /\ config' = runtime' /\ runtime' \in Everywhere
         /\ \A c \in Cameras :
              runtime'[c] = IF c \in cameras /\ sources[c] # Nowhere THEN sources[c]
                            ELSE runtime[c]
<1> DEFINE written == {c \in cameras : sources[c] # Nowhere}
           file == [c \in Cameras |-> IF c \in written THEN sources[c] ELSE config[c]]
<1>1. outcome = "done" /\ ~broken
  BY DEF Replace, TypeOK
<1>2. /\ config' = file
      /\ runtime' = IF written = {} THEN runtime ELSE file
  BY <1>1 DEF Replace
<1>3. runtime \in Everywhere
  BY DEF TypeOK
<1>4. \A c \in Cameras :
        file[c] = IF c \in cameras /\ sources[c] # Nowhere THEN sources[c] ELSE runtime[c]
  OBVIOUS
<1>5. file \in Everywhere
  BY <1>3 DEF Everywhere
<1> HIDE DEF file
<1>6. CASE written = {}
  <2>1. \A c \in Cameras : file[c] = runtime[c]
    BY <1>4, <1>6
  <2>2. file = runtime
    BY <2>1, <1>3, <1>5 DEF Everywhere
  <2> QED BY <1>1, <1>2, <1>4, <1>5, <2>2
<1>7. CASE written # {}
  BY <1>1, <1>2, <1>4, <1>5, <1>7
<1> QED BY <1>6, <1>7

\* Two placements of the cameras are the same when they agree everywhere.
LEMMA SamePlaces ==
  ASSUME NEW f \in Everywhere, NEW g \in Everywhere, \A c \in Cameras : f[c] = g[c]
  PROVE  f = g
  BY DEF Everywhere

\* Recording what is desired: the row's sources are the desired ones.
LEMMA Recorded ==
  ASSUME TypeOK, RecordDesired(Desired)
  PROVE  /\ revision'.sources = Desired
         /\ revision'.status = "applied" =>
              revision.status = "applied" /\ revision.sources = Desired
  BY DEF RecordDesired, Reused

\* Completing a row leaves its sources.
LEMMA Completed ==
  ASSUME TypeOK, NEW status \in {"applied", "failed"}, Complete(status)
  PROVE  /\ revision'.sources = revision.sources
         /\ revision'.status = IF revision.status = "desired" THEN status ELSE revision.status
  BY DEF TypeOK, Complete

LEMMA RInvInit == Init => RInv
<1> SUFFICES ASSUME Init PROVE RInv
  OBVIOUS
<1>1. /\ job.kind = "none" /\ job.step = "idle" /\ job.gone = {} /\ job.plans = {}
      /\ job.moved = {}
  BY DEF Init, NoJob
<1>2. runtime = Desired /\ config = runtime /\ revision.sources = runtime
  BY DEF Init, Desired
<1> QED BY <1>1, <1>2 DEF RInv, StepsOK, SourcesOK, UntouchedOK, RelayOK, Quiet

\* Steps that concern neither the relay nor what is desired of it.
LEMMA RSteady ==
  ASSUME RInv,
         UNCHANGED <<saved, on, config, runtime, revision, job, pending, broken>>
  PROVE  RInv'
<1>1. Desired' = Desired /\ PlannedCameras' = PlannedCameras /\ Quiet' = Quiet
  BY DEF Desired, PlannedCameras, Quiet
<1> QED BY <1>1 DEF RInv, StepsOK, SourcesOK, UntouchedOK, RelayOK

\* A request waits for the lock from then on.
LEMMA RRequest ==
  ASSUME IInv, RInv, NEW c \in Cameras, Adopt(c) \/ Unadopt(c) \/ SetEnabled(c)
  PROVE  RInv'
<1>1. pending' = TRUE /\ UNCHANGED <<config, runtime, revision, broken>>
  BY DEF Adopt, Unadopt, SetEnabled, relay, ghosts
<1>2. /\ job'.kind = job.kind /\ job'.step = job.step /\ job'.sources = job.sources
      /\ job.kind # "recovery" => job'.gone = job.gone
  <2>1. job \in Jobs
    BY DEF IInv, TypeOK
  <2>2. \/ job' = job
        \/ job.kind = "recovery" /\ job' = [job EXCEPT !.gone = @ \cup {c}]
    BY DEF Adopt, Unadopt, SetEnabled, InRecovery
  <2> QED BY <2>1, <2>2 DEF Jobs
<1> QED BY <1>1, <1>2 DEF RInv, StepsOK, SourcesOK, Quiet

LEMMA RBegin ==
  ASSUME IInv, RInv, NEW valid \in SUBSET Displaced, RecoveryBegin(valid)
  PROVE  RInv'
<1> DEFINE plans == {[camera |-> c, from |-> saved[c], to |-> seen[c]] : c \in valid}
           step == IF valid = {} THEN "drift" ELSE "moving"
<1>1. UNCHANGED <<saved, on, config, runtime, revision, pending, broken>>
      /\ job.kind = "none"
  BY DEF RecoveryBegin, database, relay, requests, ghosts
<1>2. /\ job'.kind = "recovery" /\ job'.step = step /\ job'.plans = plans
      /\ job'.moved = {} /\ job'.gone = {}
  BY DEF RecoveryBegin, NoJob
<1>3. Desired' = Desired /\ Quiet' = Quiet
  BY <1>1 DEF Desired, Quiet
<1>4. StepsOK' /\ SourcesOK'
  BY <1>1, <1>2 DEF StepsOK, SourcesOK, RInv
<1>5. ASSUME Quiet PROVE UntouchedOK' /\ RelayOK'
  <2>1. job.step = "idle" /\ runtime = Desired
        /\ (revision.status = "applied" => runtime = revision.sources)
    BY <1>1, <1>5 DEF RInv, StepsOK, RelayOK
  <2>2. \A c \in valid : /\ c \in on /\ c \in Cameras /\ runtime[c] = saved[c]
                         /\ saved[c] # seen[c]
    BY <2>1 DEF Displaced, Desired, IInv, TypeOK
  <2>3. UntouchedOK'
    <3>1. \A p \in plans : \E c \in valid : p = [camera |-> c, from |-> saved[c], to |-> seen[c]]
      OBVIOUS
    <3>2. \A p \in plans : p.camera \in on /\ runtime[p.camera] = p.from /\ p.from # p.to
      BY <3>1, <2>2
    <3>3. step = "moving" => plans # {}
      OBVIOUS
    <3> HIDE DEF plans
    <3> QED BY <1>1, <1>2, <3>2, <3>3 DEF UntouchedOK
  <2>4. RelayOK'
    BY <1>1, <1>2, <1>3, <2>1 DEF RelayOK
  <2> QED BY <2>3, <2>4
<1> QED BY <1>3, <1>4, <1>5 DEF RInv

LEMMA RMove ==
  ASSUME IInv, RInv, NEW p \in job.plans, MoveSources(p)
  PROVE  RInv'
<1>1. /\ job \in Jobs /\ p.camera \in Cameras /\ job.step = "moving"
      /\ saved \in Everywhere /\ p \notin job.moved
      /\ UNCHANGED <<on, config, runtime, revision, pending, broken>>
  BY DEF IInv, TypeOK, Jobs, Plan, MoveSources, relay, requests, ghosts
<1>2. CASE p.camera \in job.gone
  <2>1. job'.kind = job.kind /\ job'.step = "failing" /\ job'.gone = job.gone /\ saved' = saved
    BY <1>1, <1>2 DEF MoveSources, Jobs
  <2>2. ~Quiet'
    BY <1>1, <1>2 DEF RInv, UntouchedOK, Quiet
  <2> QED BY <1>1, <2>1, <2>2 DEF RInv, StepsOK, SourcesOK
<1>3. CASE p.camera \notin job.gone
  <2>1. saved' = [saved EXCEPT ![p.camera] = p.to] /\ job' = [job EXCEPT !.moved = @ \cup {p}]
    BY <1>3 DEF MoveSources
  <2>2. /\ job'.kind = job.kind /\ job'.step = "moving" /\ job'.plans = job.plans
        /\ job'.gone = job.gone /\ job'.moved = job.moved \cup {p}
    BY <1>1, <2>1 DEF Jobs
  <2>3. \A c \in Cameras : saved'[c] = IF c = p.camera THEN p.to ELSE saved[c]
    BY <1>1, <2>1 DEF Everywhere
  <2>4. StepsOK' /\ SourcesOK'
    BY <1>1, <2>2 DEF RInv, StepsOK, SourcesOK
  <2>5. ASSUME Quiet PROVE UntouchedOK' /\ RelayOK'
    <3>1. UntouchedOK /\ RelayOK
      BY <2>5 DEF RInv
    <3>2. \A q \in job.plans : q.camera \in Cameras /\ (q.camera = p.camera => q = p)
      BY DEF IInv, TypeOK, PlansOK, Jobs, Plan
    <3>3. \A q \in job'.moved : saved'[q.camera] = q.to
      <4> SUFFICES ASSUME NEW q \in job'.moved PROVE saved'[q.camera] = q.to
        OBVIOUS
      <4>1. q \in job.plans
        BY <2>2 DEF IInv, PlansOK
      <4>2. CASE q = p
        BY <4>2, <2>3, <1>1
      <4>3. CASE q # p
        <5>1. q \in job.moved /\ q.camera # p.camera
          BY <4>1, <4>3, <2>2, <3>2
        <5> QED BY <5>1, <4>1, <3>1, <3>2, <2>3, <1>1 DEF UntouchedOK
      <4> QED BY <4>2, <4>3
    <3>4. UntouchedOK'
      BY <1>1, <2>2, <3>1, <3>3 DEF UntouchedOK
    <3>5. p.camera \in PlannedCameras /\ PlannedCameras' = PlannedCameras
      BY <2>2 DEF PlannedCameras
    <3>6. \A c \in Cameras \ PlannedCameras : Desired'[c] = Desired[c]
      BY <1>1, <2>3, <3>5 DEF Desired
    <3>7. RelayOK'
      BY <1>1, <2>2, <3>1, <3>5, <3>6 DEF RelayOK
    <3> QED BY <3>4, <3>7
  <2>6. Quiet' = Quiet
    BY <1>1 DEF Quiet
  <2> QED BY <2>4, <2>5, <2>6 DEF RInv
<1> QED BY <1>2, <1>3

\* What is taken up for a recovery was never applied: the relay still has the
\* cameras where they were.
LEMMA RTakeRevision ==
  ASSUME IInv, RInv, TakeRevision
  PROVE  RInv'
<1>1. /\ job \in Jobs /\ job.step = "moving" /\ job.moved = job.plans
      /\ RecordDesired(Desired)
      /\ job' = [job EXCEPT !.step = "replace", !.sources = Desired, !.taken = TRUE,
                            !.fresh = Fresh(Desired)]
      /\ UNCHANGED <<saved, on, config, runtime, pending, broken>>
  BY DEF TakeRevision, IInv, TypeOK, relay, requests, ghosts
<1>2. /\ job'.kind = job.kind /\ job'.step = "replace" /\ job'.plans = job.plans
      /\ job'.moved = job.moved /\ job'.gone = job.gone /\ job'.sources = Desired
      /\ job'.taken = TRUE
  BY <1>1 DEF Jobs
<1>3. /\ revision'.sources = Desired
      /\ revision'.status = "applied" =>
           revision.status = "applied" /\ revision.sources = Desired
  BY <1>1, Recorded DEF IInv
<1>4. Desired' = Desired /\ Quiet' = Quiet /\ PlannedCameras' = PlannedCameras
  BY <1>1, <1>2 DEF Desired, Quiet, PlannedCameras
<1>5. StepsOK' /\ SourcesOK'
  BY <1>1, <1>2, <1>3, <1>4 DEF RInv, StepsOK, SourcesOK
<1>6. ASSUME Quiet PROVE UntouchedOK' /\ RelayOK'
  <2>1. UntouchedOK /\ RelayOK
    BY <1>6 DEF RInv
  <2>2. UntouchedOK'
    BY <1>1, <1>2, <2>1 DEF UntouchedOK
  <2>3. PICK p \in job.plans : TRUE
    BY <1>1, <2>1 DEF UntouchedOK
  <2>4. /\ p.camera \in on /\ p.camera \in Cameras
        /\ runtime[p.camera] # saved[p.camera]
    BY <1>1, <2>1, <2>3 DEF UntouchedOK, IInv, TypeOK
  <2>5. runtime # Desired
    BY <2>4 DEF Desired
  <2>6. revision'.status # "applied"
    BY <1>1, <1>3, <2>1, <2>5 DEF RelayOK
  <2>7. RelayOK'
    BY <1>1, <1>2, <1>4, <2>1, <2>6 DEF RelayOK
  <2> QED BY <2>2, <2>7
<1> QED BY <1>4, <1>5, <1>6 DEF RInv

LEMMA RReplaceMoved ==
  ASSUME IInv, RInv, NEW outcome \in ReplaceOutcomes, ReplaceMoved(outcome)
  PROVE  RInv'
<1> DEFINE step == IF outcome = "done" THEN "probe" ELSE "failing"
<1>1. /\ job \in Jobs /\ job.step = "replace" /\ job.kind = "recovery"
      /\ Replace(job.sources, PlannedCameras, outcome)
      /\ job' = [job EXCEPT !.step = step]
      /\ UNCHANGED <<saved, on, revision, pending>>
  BY DEF ReplaceMoved, IInv, TypeOK, database, requests
<1>2. /\ job'.kind = job.kind /\ job'.step = step /\ job'.plans = job.plans
      /\ job'.moved = job.moved /\ job'.gone = job.gone /\ job'.sources = job.sources
      /\ job'.taken = job.taken
  BY <1>1 DEF Jobs
<1>3. Desired' = Desired /\ PlannedCameras' = PlannedCameras
  BY <1>1, <1>2 DEF Desired, PlannedCameras
<1>4. ~broken' => ~broken
  BY <1>1 DEF Replace
<1>5. ASSUME ~broken'
      PROVE  /\ step = "probe" /\ config' = runtime' /\ runtime' \in Everywhere
             /\ \A c \in Cameras :
                  runtime'[c] = IF c \in PlannedCameras /\ job.sources[c] # Nowhere
                                THEN job.sources[c] ELSE runtime[c]
  <2>1. config = runtime
    BY <1>4, <1>5 DEF RInv, SourcesOK
  <2>2. job.sources \in Everywhere /\ TypeOK
    BY <1>1 DEF Jobs, IInv
  <2> QED BY <1>1, <1>5, <2>1, <2>2, Replaced
<1> HIDE DEF step
<1>6. StepsOK' /\ SourcesOK'
  BY <1>1, <1>2, <1>3, <1>5 DEF RInv, StepsOK, SourcesOK, step
<1>7. ASSUME Quiet' PROVE UntouchedOK' /\ RelayOK'
  <2>1. ~pending /\ ~broken /\ ~broken' /\ UntouchedOK /\ RelayOK
    BY <1>1, <1>4, <1>7 DEF RInv, Quiet
  <2>2. UntouchedOK'
    BY <1>1, <1>2, <1>5, <2>1 DEF UntouchedOK
  <2>3. job.sources = Desired
    BY <1>1, <2>1 DEF RInv, SourcesOK
  <2>4. \A c \in PlannedCameras : Desired[c] # Nowhere
    <3>1. \A c \in PlannedCameras : c \in on
      BY <2>1 DEF PlannedCameras, UntouchedOK
    <3> QED BY <3>1 DEF Desired, IInv, TypeOK
  <2>5. \A c \in Cameras : runtime'[c] = Desired[c]
    BY <1>1, <1>5, <2>1, <2>3, <2>4 DEF RelayOK
  <2>6. runtime' = Desired
    BY <1>5, <2>1, <2>5, SamePlaces, DesiredType DEF IInv
  <2>7. RelayOK'
    BY <1>1, <1>2, <1>3, <1>5, <2>1, <2>5, <2>6 DEF RelayOK
  <2> QED BY <2>2, <2>7
<1> QED BY <1>6, <1>7 DEF RInv

LEMMA RProbe ==
  ASSUME IInv, RInv, ProbeMoved
  PROVE  RInv'
<1> DEFINE step == IF Served THEN "commit" ELSE "failing"
<1>1. /\ job \in Jobs /\ job.step = "probe" /\ job' = [job EXCEPT !.step = step]
      /\ UNCHANGED <<saved, on, config, runtime, pending, broken>>
  BY DEF ProbeMoved, AfterProbe, IInv, TypeOK, relay, requests, ghosts
<1>2. /\ job'.kind = job.kind /\ job'.step = step /\ job'.plans = job.plans
      /\ job'.moved = job.moved /\ job'.gone = job.gone /\ job'.sources = job.sources
      /\ job'.taken = job.taken
  BY <1>1 DEF Jobs
<1>3. /\ revision'.sources = revision.sources
      /\ step = "failing" => revision' = revision
  BY Completed DEF ProbeMoved, IInv
<1>4. Desired' = Desired /\ Quiet' = Quiet /\ PlannedCameras' = PlannedCameras
  BY <1>1, <1>2 DEF Desired, Quiet, PlannedCameras
<1>5. step \in {"commit", "failing"}
  OBVIOUS
<1> HIDE DEF step
<1>6. StepsOK' /\ SourcesOK'
  BY <1>1, <1>2, <1>5 DEF RInv, StepsOK, SourcesOK
<1>7. ASSUME Quiet PROVE UntouchedOK' /\ RelayOK'
  <2>1. UntouchedOK /\ RelayOK
    BY <1>7 DEF RInv
  <2>2. UntouchedOK'
    BY <1>1, <1>2, <1>5, <2>1 DEF UntouchedOK
  <2>3. runtime = Desired /\ revision.sources = Desired
    BY <1>1, <1>7, <2>1 DEF RelayOK, RInv, SourcesOK, Quiet
  <2>4. RelayOK'
    BY <1>1, <1>2, <1>3, <1>4, <1>5, <2>1, <2>3 DEF RelayOK
  <2> QED BY <2>2, <2>4
<1> QED BY <1>4, <1>6, <1>7 DEF RInv

LEMMA RCommit ==
  ASSUME IInv, RInv, NEW p \in job.plans, Commit(p)
  PROVE  RInv'
<1>1. /\ job \in Jobs /\ job.step = "commit"
      /\ UNCHANGED <<saved, on, config, runtime, revision, pending, broken>>
  BY DEF Commit, IInv, TypeOK, relay, requests, ghosts
<1>2. /\ job'.kind = job.kind /\ job'.step \in {"commit", "drift"}
      /\ job'.plans \subseteq job.plans /\ job'.gone = job.gone
  <2>1. \/ job' = [job EXCEPT !.step = "drift"]
        \/ job' = [job EXCEPT !.plans = @ \ {p}, !.moved = @ \ {p},
                              !.step = IF job.plans = {p} THEN "drift" ELSE "commit"]
    BY DEF Commit
  <2> QED BY <1>1, <2>1 DEF Jobs
<1>3. Desired' = Desired /\ Quiet' = Quiet
  BY <1>1 DEF Desired, Quiet
<1>4. StepsOK' /\ SourcesOK'
  BY <1>1, <1>2 DEF RInv, StepsOK, SourcesOK
<1>5. ASSUME Quiet PROVE UntouchedOK' /\ RelayOK'
  <2>1. UntouchedOK /\ RelayOK
    BY <1>5 DEF RInv
  <2>2. UntouchedOK'
    BY <1>1, <1>2, <2>1 DEF UntouchedOK
  <2>3. RelayOK'
    BY <1>1, <1>2, <1>3, <2>1 DEF RelayOK
  <2> QED BY <2>2, <2>3
<1> QED BY <1>3, <1>4, <1>5 DEF RInv

LEMMA RFail ==
  ASSUME IInv, RInv, FailRevision
  PROVE  RInv'
<1>1. /\ job \in Jobs /\ job.step = "failing" /\ job' = [job EXCEPT !.step = "rollback"]
      /\ UNCHANGED <<saved, on, config, runtime, pending, broken>>
  BY DEF FailRevision, IInv, TypeOK, relay, requests, ghosts
<1>2. /\ job'.kind = job.kind /\ job'.step = "rollback" /\ job'.plans = job.plans
      /\ job'.moved = job.moved /\ job'.gone = job.gone /\ job'.taken = job.taken
  BY <1>1 DEF Jobs
<1>3. revision'.status = "applied" => revision.status = "applied"
  BY Completed DEF FailRevision, IInv
<1>4. Desired' = Desired /\ Quiet' = Quiet /\ PlannedCameras' = PlannedCameras
  BY <1>1, <1>2 DEF Desired, Quiet, PlannedCameras
<1>5. StepsOK' /\ SourcesOK'
  BY <1>1, <1>2 DEF RInv, StepsOK, SourcesOK
<1>6. ASSUME Quiet PROVE UntouchedOK' /\ RelayOK'
  <2>1. UntouchedOK /\ RelayOK
    BY <1>6 DEF RInv
  <2> QED BY <1>1, <1>2, <1>3, <1>4, <2>1 DEF UntouchedOK, RelayOK
<1> QED BY <1>4, <1>5, <1>6 DEF RInv

LEMMA RRollback ==
  ASSUME IInv, RInv, NEW p \in job.moved, Rollback(p)
  PROVE  RInv'
<1>1. /\ job \in Jobs /\ p \in job.plans /\ p.camera \in Cameras /\ job.step = "rollback"
      /\ saved \in Everywhere
      /\ UNCHANGED <<on, config, runtime, revision, pending, broken>>
  BY DEF IInv, PlansOK, TypeOK, Jobs, Plan, Rollback, relay, requests, ghosts
<1>2. Quiet' = Quiet
  BY <1>1 DEF Quiet
<1>3. CASE p.camera \in job.gone
  <2>1. job'.kind = job.kind /\ job'.step = "drift" /\ job'.gone = job.gone /\ saved' = saved
    BY <1>1, <1>3 DEF Rollback, Jobs
  <2>2. ~Quiet
    BY <1>1, <1>3 DEF RInv, UntouchedOK
  <2> QED BY <1>1, <1>2, <2>1, <2>2 DEF RInv, StepsOK, SourcesOK
<1>4. CASE p.camera \notin job.gone
  <2>1. saved' = [saved EXCEPT ![p.camera] = p.from] /\ job' = [job EXCEPT !.moved = @ \ {p}]
    BY <1>4 DEF Rollback
  <2>2. /\ job'.kind = job.kind /\ job'.step = "rollback" /\ job'.plans = job.plans
        /\ job'.gone = job.gone /\ job'.taken = job.taken
    BY <1>1, <2>1 DEF Jobs
  <2>3. \A c \in Cameras : saved'[c] = IF c = p.camera THEN p.from ELSE saved[c]
    BY <1>1, <2>1 DEF Everywhere
  <2>4. p.camera \in PlannedCameras /\ PlannedCameras' = PlannedCameras
    BY <1>1, <2>2 DEF PlannedCameras
  <2>5. \A c \in Cameras \ PlannedCameras : Desired'[c] = Desired[c]
    BY <1>1, <2>3, <2>4 DEF Desired
  <2>6. StepsOK' /\ SourcesOK'
    BY <1>1, <2>2 DEF RInv, StepsOK, SourcesOK
  <2>7. ASSUME Quiet PROVE UntouchedOK' /\ RelayOK'
    <3>1. UntouchedOK /\ RelayOK
      BY <2>7 DEF RInv
    <3> QED BY <1>1, <2>2, <2>4, <2>5, <3>1 DEF UntouchedOK, RelayOK
  <2> QED BY <1>2, <2>6, <2>7 DEF RInv
<1> QED BY <1>3, <1>4

\* The end of a rollback: the relay gets the old addresses back.
LEMMA RRollbackDone ==
  ASSUME IInv, RInv, NEW outcome \in ReplaceOutcomes, RollbackDone(outcome)
  PROVE  RInv'
<1>1. /\ job \in Jobs /\ job.step = "rollback" /\ job' = [job EXCEPT !.step = "drift"]
      /\ UNCHANGED <<saved, on, revision, pending>>
  BY DEF RollbackDone, IInv, TypeOK, database, requests
<1>2. /\ job'.kind = job.kind /\ job'.step = "drift" /\ job'.plans = job.plans
      /\ job'.gone = job.gone
  BY <1>1 DEF Jobs
<1>3. Desired' = Desired /\ PlannedCameras' = PlannedCameras
  BY <1>1, <1>2 DEF Desired, PlannedCameras
<1>4. ~broken' => ~broken
  BY DEF RollbackDone, Replace
<1>5. ASSUME ~broken', job.taken
      PROVE  /\ config' = runtime' /\ runtime' \in Everywhere
             /\ \A c \in Cameras :
                  runtime'[c] = IF c \in PlannedCameras /\ Desired[c] # Nowhere
                                THEN Desired[c] ELSE runtime[c]
  <2>1. config = runtime /\ TypeOK /\ Desired \in Everywhere
    BY <1>4, <1>5, DesiredType DEF RInv, SourcesOK, IInv
  <2>2. Replace(Desired, PlannedCameras, outcome)
    BY <1>5 DEF RollbackDone
  <2> QED BY <1>5, <2>1, <2>2, Replaced
<1>6. StepsOK' /\ SourcesOK'
  <2>1. CASE job.taken
    BY <1>1, <1>2, <1>5, <2>1 DEF RInv, StepsOK, SourcesOK
  <2>2. CASE ~job.taken
    <3>1. UNCHANGED <<config, runtime, broken>>
      BY <2>2 DEF RollbackDone, relay
    <3> QED BY <1>1, <1>2, <3>1 DEF RInv, StepsOK, SourcesOK
  <2> QED BY <2>1, <2>2
<1>7. ASSUME Quiet' PROVE UntouchedOK' /\ RelayOK'
  <2>1. ~broken' /\ UntouchedOK /\ RelayOK
    BY <1>1, <1>4, <1>7 DEF RInv, Quiet
  <2>2. job.taken
    BY <1>1, <2>1 DEF UntouchedOK
  <2>3. \A c \in PlannedCameras : Desired[c] # Nowhere
    <3>1. \A c \in PlannedCameras : c \in on
      BY <2>1 DEF PlannedCameras, UntouchedOK
    <3> QED BY <3>1 DEF Desired, IInv, TypeOK
  <2>4. \A c \in Cameras : runtime'[c] = Desired[c]
    BY <1>1, <1>5, <2>1, <2>2, <2>3 DEF RelayOK
  <2>5. runtime' = Desired
    BY <1>5, <2>1, <2>2, <2>4, SamePlaces, DesiredType DEF IInv
  <2> QED BY <1>1, <1>2, <1>3, <2>1, <2>4, <2>5 DEF UntouchedOK, RelayOK
<1> QED BY <1>6, <1>7 DEF RInv

\* Taking the lock to reconcile: the desired sources are recorded.
LEMMA RTake ==
  ASSUME IInv, RInv, NEW kind \in {"reconcile", "settings"}, NEW cameras \in SUBSET Cameras,
         Take(kind, "apply", cameras)
  PROVE  RInv'
<1>1. UNCHANGED <<saved, on, config, runtime, broken>> /\ RecordDesired(Desired)
  BY DEF Take, relay, ghosts
<1>2. /\ job'.kind = kind /\ job'.step = "apply" /\ job'.plans = {} /\ job'.gone = {}
      /\ job'.sources = Desired
  BY DEF Take, NoJob
<1>3. Desired' = Desired
  BY <1>1 DEF Desired
<1>4. revision'.sources = Desired
  BY <1>1, Recorded DEF IInv
<1>5. UntouchedOK' /\ RelayOK'
  BY <1>2 DEF UntouchedOK, RelayOK
<1> QED BY <1>1, <1>2, <1>3, <1>4, <1>5 DEF RInv, StepsOK, SourcesOK

LEMMA RDrift ==
  ASSUME IInv, RInv, DriftCheck
  PROVE  RInv'
<1>1. CASE Drifted
  BY <1>1, RTake DEF DriftCheck
<1>2. CASE ~Drifted
  <2>1. /\ UNCHANGED <<saved, on, config, runtime, revision, pending, broken>>
        /\ job' = NoJob /\ job.step = "drift"
    BY <1>2 DEF DriftCheck, database, relay, requests, ghosts
  <2>2. /\ job'.kind = "none" /\ job'.step = "idle" /\ job'.plans = {} /\ job'.gone = {}
    BY <2>1 DEF NoJob
  <2>3. Desired' = Desired /\ Quiet' = Quiet
    BY <2>1 DEF Desired, Quiet
  <2>4. ASSUME Quiet PROVE UntouchedOK' /\ RelayOK'
    <3>1. RelayOK
      BY <2>4 DEF RInv
    <3> QED BY <2>1, <2>2, <2>3, <3>1 DEF UntouchedOK, RelayOK
  <2> QED BY <2>1, <2>2, <2>3, <2>4 DEF RInv, StepsOK, SourcesOK
<1> QED BY <1>1, <1>2

\* When every stream was put, the relay has what was recorded.
LEMMA RApply ==
  ASSUME IInv, RInv, NEW done \in SUBSET Cameras, Apply(done)
  PROVE  RInv'
<1>1. job \in Jobs /\ job.step = "apply" /\ broken' = (done # Cameras) /\ saved' = saved
  BY DEF Apply, IInv, TypeOK
<1>2. NoJob.kind = "none" /\ NoJob.step = "idle" /\ NoJob.plans = {} /\ NoJob.gone = {}
  BY DEF NoJob
<1>3. CASE done # Cameras
  <2>1. job' = NoJob
    BY <1>3 DEF Apply
  <2> QED BY <1>1, <1>2, <1>3, <2>1 DEF RInv, StepsOK, SourcesOK, Quiet
<1>4. CASE done = Cameras
  <2>1. job.sources \in Everywhere
    BY <1>1 DEF Jobs
  <2>2. [c \in Cameras |-> job.sources[c]] = job.sources
    BY <2>1 DEF Everywhere
  <2>3. config' = job.sources /\ runtime' = job.sources
    BY <1>4, <2>2 DEF Apply
  <2>4. on' = on /\ pending' = pending
    BY <1>4 DEF Apply, IInv, TypeOK
  <2>5. Desired' = Desired
    BY <1>1, <2>4 DEF Desired
  <2>6. revision.sources = job.sources /\ (~pending => job.sources = Desired)
    BY <1>1 DEF RInv, SourcesOK
  <2>7. revision'.sources = revision.sources
    <3>1. \/ UNCHANGED revision
          \/ Complete("applied")
      BY <1>4 DEF Apply
    <3> QED BY <3>1, Completed DEF IInv
  <2>8. CASE job.kind = "settings"
    <3>1. job' = [job EXCEPT !.step = "restart"]
      BY <1>4, <2>8 DEF Apply
    <3>2. /\ job'.kind = job.kind /\ job'.step = "restart" /\ job'.plans = job.plans
          /\ job'.gone = job.gone /\ job'.sources = job.sources
      BY <1>1, <3>1 DEF Jobs
    <3>3. StepsOK' /\ SourcesOK'
      BY <1>1, <1>4, <2>3, <2>4, <2>5, <2>6, <2>7, <2>8, <3>2
         DEF RInv, StepsOK, SourcesOK
    <3>4. job.plans = {}
      BY <2>8 DEF IInv, PlansOK
    <3>5. ASSUME Quiet' PROVE UntouchedOK' /\ RelayOK'
      <4>1. ~pending
        BY <2>4, <3>5 DEF Quiet
      <4>2. job.gone = {}
        BY <2>8 DEF RInv, StepsOK
      <4> QED BY <2>3, <2>5, <2>6, <2>7, <3>2, <3>4, <4>1, <4>2 DEF UntouchedOK, RelayOK
    <3> QED BY <3>3, <3>5 DEF RInv
  <2>9. CASE job.kind # "settings"
    <3>1. job' = NoJob
      BY <1>4, <2>9 DEF Apply
    <3> QED BY <1>1, <1>2, <1>4, <2>3, <2>4, <2>5, <2>6, <2>7, <3>1
            DEF RInv, StepsOK, SourcesOK, UntouchedOK, RelayOK, Quiet
  <2> QED BY <2>8, <2>9
<1> QED BY <1>3, <1>4

LEMMA RSettingsRestart ==
  ASSUME IInv, RInv, NEW outcome \in ReplaceOutcomes, SettingsRestart(outcome)
  PROVE  RInv'
<1>1. /\ job \in Jobs /\ job.step = "restart" /\ job' = NoJob
      /\ Replace(job.sources, Cameras, outcome)
      /\ UNCHANGED <<saved, on, pending>>
  BY DEF SettingsRestart, IInv, TypeOK, requests
<1>2. NoJob.kind = "none" /\ NoJob.step = "idle" /\ NoJob.plans = {} /\ NoJob.gone = {}
  BY DEF NoJob
<1>3. config = runtime /\ config = job.sources /\ revision.sources = job.sources
      /\ (~pending => job.sources = Desired)
  BY <1>1 DEF RInv, SourcesOK
<1>4. revision'.sources = revision.sources
  BY Completed DEF SettingsRestart, IInv
<1>5. Desired' = Desired
  BY <1>1 DEF Desired
<1>6. ASSUME ~broken' PROVE config' = runtime' /\ runtime' = job.sources
  <2>1. job.sources \in Everywhere /\ TypeOK
    BY <1>1 DEF Jobs, IInv
  <2>2. /\ config' = runtime' /\ runtime' \in Everywhere
        /\ \A c \in Cameras :
             runtime'[c] = IF c \in Cameras /\ job.sources[c] # Nowhere THEN job.sources[c]
                           ELSE runtime[c]
    BY <1>1, <1>3, <1>6, <2>1, Replaced
  <2>3. \A c \in Cameras : runtime'[c] = job.sources[c]
    BY <1>3, <2>2
  <2> QED BY <2>1, <2>2, <2>3, SamePlaces
<1> QED BY <1>1, <1>2, <1>3, <1>4, <1>5, <1>6
        DEF RInv, StepsOK, SourcesOK, UntouchedOK, RelayOK, Quiet

LEMMA RRestarts ==
  ASSUME IInv, RInv, Restart \/ RelayRestart
  PROVE  RInv'
<1>1. CASE Restart
  <2>1. job'.kind = "none" /\ job'.step = "idle" /\ job'.gone = {}
    BY <1>1 DEF Restart, NoJob
  <2>2. pending' /\ config' = runtime'
    BY <1>1 DEF Restart
  <2> QED BY <2>1, <2>2 DEF RInv, StepsOK, SourcesOK, Quiet
<1>2. CASE RelayRestart
  <2>1. runtime' = config
        /\ UNCHANGED <<saved, on, config, revision, job, pending, broken>>
    BY <1>2 DEF RelayRestart, database, requests, ghosts
  <2>2. CASE broken
    <3>1. Desired' = Desired /\ ~Quiet'
      BY <2>1, <2>2 DEF Desired, Quiet
    <3> QED BY <2>1, <2>2, <3>1 DEF RInv, StepsOK, SourcesOK
  <2>3. CASE ~broken
    <3>1. UNCHANGED <<saved, on, config, runtime, revision, job, pending, broken>>
      BY <2>1, <2>3 DEF RInv, SourcesOK
    <3> QED BY <3>1, RSteady
  <2> QED BY <2>2, <2>3
<1> QED BY <1>1, <1>2

LEMMA RInvStep == IInv /\ RInv /\ [Next]_vars => RInv'
<1> SUFFICES ASSUME IInv, RInv, [Next]_vars PROVE RInv'
  OBVIOUS
<1>1. CASE JobStep
  <2>1. ASSUME NEW p \in job.plans, MoveSources(p) \/ Commit(p) PROVE RInv'
    BY <2>1, RMove, RCommit
  <2>2. ASSUME NEW p \in job.moved, Rollback(p) PROVE RInv'
    BY <2>2, RRollback
  <2>3. ASSUME NEW outcome \in ReplaceOutcomes,
               ReplaceMoved(outcome) \/ RollbackDone(outcome) \/ SettingsRestart(outcome)
        PROVE  RInv'
    BY <2>3, RReplaceMoved, RRollbackDone, RSettingsRestart
  <2>4. ASSUME NEW done \in SUBSET Cameras, Apply(done) PROVE RInv'
    BY <2>4, RApply
  <2> QED BY <1>1, <2>1, <2>2, <2>3, <2>4, RTakeRevision, RProbe, RFail, RDrift DEF JobStep
<1>2. CASE Turn
  BY <1>2, RBegin DEF Turn
<1>3. CASE ReconcileBegin
  <2>1. Take("reconcile", "apply", enabling) /\ enabling \in SUBSET Cameras
    BY <1>3 DEF ReconcileBegin, IInv, TypeOK
  <2> QED BY <2>1, RTake
<1>4. CASE SettingsBegin
  BY <1>4, RTake DEF SettingsBegin
<1>5. CASE \E c \in Cameras : Adopt(c) \/ Unadopt(c) \/ SetEnabled(c)
  BY <1>5, RRequest
<1>6. CASE Restart \/ RelayRestart
  BY <1>6, RRestarts
<1>7. CASE \/ ObserveIdentities
           \/ \E a \in resting : Elapse(a)
           \/ \E c \in Cameras : Scan(c) \/ \E place \in Places : Relocate(c, place)
           \/ UNCHANGED vars
  <2>1. UNCHANGED <<saved, on, config, runtime, revision, job, pending, broken>>
    BY <1>7 DEF ObserveIdentities, Elapse, Scan, Relocate, vars, database, relay, requests,
                ghosts
  <2> QED BY <2>1, RSteady
<1> QED BY <1>1, <1>2, <1>3, <1>4, <1>5, <1>6, <1>7 DEF Next

LEMMA RInvAlways == Spec => []RInv
  BY IInvAlways, RInvInit, RInvStep, PTL DEF Spec

LEMMA ServedAtRest == IInv /\ RInv => RelayServesSaved /\ AppliedIsServed
<1> SUFFICES ASSUME IInv, RInv, AtRest
             PROVE  /\ \A c \in Names(runtime) \cap on : runtime[c] = saved[c]
                    /\ revision.status = "applied" => runtime = revision.sources
  BY DEF RelayServesSaved, AppliedIsServed
<1>1. job.step = "idle" /\ RelayOK
  BY DEF AtRest, RInv, StepsOK, Quiet
<1>2. runtime = Desired
  BY <1>1 DEF RelayOK
<1> QED BY <1>1, <1>2 DEF RelayOK, Desired, Names

\* A relay that nobody is changing, and of which no call failed, reads every
\* enabled camera from the address its sources have, after a recovery or its
\* rollback, a restart of the relay alone, and requests that came in between
\* (recover_inventory_addresses, reconcile_streams).
THEOREM SavedIsServed == Spec => []RelayServesSaved
  BY IInvAlways, RInvAlways, ServedAtRest, PTL

\* A revision that complete_media_revision marked applied is then what the
\* relay has: no recovery that was rolled back leaves one behind.
THEOREM RevisionIsServed == Spec => []AppliedIsServed
  BY IInvAlways, RInvAlways, ServedAtRest, PTL
=============================================================================
