------------------------- MODULE CameraHealthProofs -------------------------
(***************************************************************************)
(* Theorems about CameraHealth, for every set of cameras and profile       *)
(* tokens and every bound on incidents.                                    *)
(***************************************************************************)
EXTENDS CameraHealth, SequenceTheorems, TLAPS

-----------------------------------------------------------------------------
(* The pure rules. *)

\* A probe result folded into a stream row gives a stream row.
LEMMA FoldProbeType ==
  ASSUME NEW r \in StreamRow, NEW status \in ProbeStatus
  PROVE  FoldProbe(r, status) \in StreamRow
BY DEF FoldProbe, HealthAfter, CountFailure, StreamRow, StreamHealth,
       OfflineAfter, DegradedAfter

\* Whatever the streams say, the camera gets one of the verdicts.
LEMMA HealthVerdictType ==
  ASSUME NEW on, NEW healths
  PROVE  HealthVerdict(on, healths) \in Verdicts
BY DEF HealthVerdict, Verdicts

LEMMA VerdictType ==
  ASSUME NEW on, NEW rows, NEW b, NEW c
  PROVE  Verdict(on, rows, b, c) \in Verdicts
BY HealthVerdictType DEF Verdict

-----------------------------------------------------------------------------
(* The incident log of one camera. *)

\* Closing keeps the log's length and kinds, and leaves no health incident open.
LEMMA CloseFacts ==
  ASSUME NEW log \in Seq(Incident), NEW reason \in Reasons \ {"open"}
  PROVE  /\ Close(log, reason) \in Seq(Incident)
         /\ Len(Close(log, reason)) = Len(log)
         /\ \A n \in DOMAIN log :
              /\ Close(log, reason)[n].kind = log[n].kind
              /\ log[n].reason # "open" => Close(log, reason)[n] = log[n]
         /\ OpenHealth(Close(log, reason)) = {}
<1> DEFINE new == Close(log, reason)
<1>1. DOMAIN log = 1..Len(log) /\ Len(log) \in Nat
  OBVIOUS
<1>2. \A n \in 1..Len(log) : log[n] \in Incident
  OBVIOUS
<1>3. new = [n \in 1..Len(log) |->
               IF n \in OpenHealth(log) THEN [log[n] EXCEPT !.reason = reason] ELSE log[n]]
  BY <1>1 DEF Close
<1> HIDE DEF new
<1>4. \A n \in 1..Len(log) :
        /\ new[n] \in Incident
        /\ new[n].kind = log[n].kind
        /\ log[n].reason # "open" => new[n] = log[n]
        /\ ~(new[n].kind \in HealthKinds /\ new[n].reason = "open")
  BY <1>1, <1>2, <1>3 DEF OpenHealth, Incident
<1>5. new \in Seq(Incident) /\ Len(new) = Len(log)
  <2>1. new \in [1..Len(log) -> Incident]
    BY <1>3, <1>4
  <2> QED  BY <1>1, <2>1, SeqDef
<1>6. OpenHealth(new) = {}
  BY <1>4, <1>5 DEF OpenHealth
<1> QED  BY <1>1, <1>4, <1>5, <1>6 DEF new

\* Reconciling gives a log that is no shorter, and one that tracks the verdict
\* if at most one health incident was open.
LEMMA ReconcileFacts ==
  ASSUME NEW log \in Seq(Incident), NEW verdict \in Verdicts
  PROVE  /\ Reconcile(log, verdict) \in Seq(Incident)
         /\ Len(log) <= Len(Reconcile(log, verdict))
         /\ (\A m, n \in OpenHealth(log) : m = n)
              => Tracks(Reconcile(log, verdict), verdict)
<1> DEFINE wanted == DesiredKind(verdict)
<1>1. wanted \in HealthKinds \cup {NoKind}
  BY DEF DesiredKind, HealthKinds, NoKind
<1>2. wanted # NoKind => verdict \notin Closing
  BY DEF DesiredKind, NoKind, Closing
<1>3. "cause_changed" \in Reasons \ {"open"} /\ ClosingReason(verdict) \in Reasons \ {"open"}
  BY DEF Reasons, ClosingReason
<1>4. Len(log) \in Nat
  OBVIOUS
<1>5. CASE wanted # NoKind /\ \E n \in OpenHealth(log) : log[n].kind = wanted
  BY <1>2, <1>4, <1>5 DEF Reconcile, Tracks
<1>6. CASE wanted # NoKind /\ ~\E n \in OpenHealth(log) : log[n].kind = wanted
  <2> DEFINE closed == Close(log, "cause_changed")
             fresh  == [kind |-> wanted, reason |-> "open"]
  <2>1. closed \in Seq(Incident) /\ Len(closed) = Len(log) /\ OpenHealth(closed) = {}
    BY <1>3, CloseFacts
  <2>2. fresh \in Incident /\ wanted \in HealthKinds
    BY <1>1, <1>6 DEF Incident, Kinds, Reasons
  <2>3. Reconcile(log, verdict) = Append(closed, fresh)
    BY <1>6 DEF Reconcile
  <2> HIDE DEF closed, fresh
  <2>4. /\ Append(closed, fresh) \in Seq(Incident)
        /\ Len(Append(closed, fresh)) = Len(log) + 1
        /\ DOMAIN Append(closed, fresh) = 1..(Len(log) + 1)
        /\ \A n \in 1..Len(log) : Append(closed, fresh)[n] = closed[n]
        /\ Append(closed, fresh)[Len(log) + 1] = fresh
    BY <2>1, <2>2
  <2>5. OpenHealth(Append(closed, fresh)) = {Len(log) + 1}
    <3>1. \A n \in 1..Len(log) : ~(closed[n].kind \in HealthKinds /\ closed[n].reason = "open")
      BY <2>1 DEF OpenHealth
    <3>2. fresh.kind \in HealthKinds /\ fresh.reason = "open"
      BY <2>2 DEF fresh
    <3> QED  BY <1>4, <2>4, <3>1, <3>2 DEF OpenHealth
  <2>6. fresh.kind = wanted
    BY DEF fresh
  <2>7. verdict \notin Closing
    BY <1>2, <1>6
  <2>8. Tracks(Append(closed, fresh), verdict)
    BY <2>4, <2>5, <2>6, <2>7 DEF Tracks
  <2> QED  BY <1>4, <2>3, <2>4, <2>8
<1>7. CASE wanted = NoKind /\ verdict \in Closing
  <2>1. Reconcile(log, verdict) = Close(log, ClosingReason(verdict))
    BY <1>7 DEF Reconcile
  <2> QED  BY <1>3, <1>4, <1>7, <2>1, CloseFacts DEF Tracks
<1>8. CASE wanted = NoKind /\ verdict \notin Closing
  BY <1>4, <1>8 DEF Reconcile, Tracks
<1> QED  BY <1>5, <1>6, <1>7, <1>8

-----------------------------------------------------------------------------
(* Type correctness. *)

\* Every outbox row a transaction adds is named by an incident in the log.
LEMMA EnqueueType ==
  ASSUME TypeOK, NEW after \in [Cameras -> Seq(Incident)],
         \A c \in Cameras : Len(after[c]) <= MaxIncidents,
         Enqueue(after)
  PROVE  queue' \in SUBSET AlertKeys /\ settled' \in SUBSET AlertKeys
<1>1. \A c \in Cameras : NewAlerts(c, incidents[c], after[c]) \subseteq AlertKeys
  <2> SUFFICES ASSUME NEW c \in Cameras
               PROVE  NewAlerts(c, incidents[c], after[c]) \subseteq AlertKeys
    OBVIOUS
  <2>1. /\ Len(incidents[c]) \in Nat /\ Len(after[c]) \in Nat
        /\ DOMAIN incidents[c] = 1..Len(incidents[c])
        /\ DOMAIN after[c] = 1..Len(after[c])
        /\ Len(incidents[c]) <= MaxIncidents /\ Len(after[c]) <= MaxIncidents
    BY DEF TypeOK
  <2>2. DOMAIN incidents[c] \subseteq 1..MaxIncidents /\ DOMAIN after[c] \subseteq 1..MaxIncidents
    BY <2>1, CameraHealthAssumption
  <2> SUFFICES ASSUME NEW k \in NewAlerts(c, incidents[c], after[c])
               PROVE  k \in AlertKeys
    OBVIOUS
  <2>3. \/ \E n \in DOMAIN after[c] : k = <<c, n, "incident_opened">>
        \/ \E n \in DOMAIN incidents[c] : k = <<c, n, "incident_resolved">>
    BY DEF NewAlerts
  <2> QED  BY <2>2, <2>3 DEF AlertKeys, Events
<1> QED  BY <1>1 DEF Enqueue, TypeOK

\* A health transition keeps the types of what it writes.
LEMMA TransitionType ==
  ASSUME TypeOK, NEW cams \in SUBSET Cameras, NEW late \in SUBSET Cameras,
         NEW verdict \in [Cameras -> Verdicts],
         RecordTransition(cams, verdict, late)
  PROVE  /\ lastEvent' \in [Cameras -> Verdicts \cup {"none"}]
         /\ hidden' \in [Cameras -> Verdicts \cup {"none"}]
         /\ incidents' \in [Cameras -> Seq(Incident)]
         /\ \A c \in Cameras : Len(incidents'[c]) <= MaxIncidents
         /\ queue' \in SUBSET AlertKeys
         /\ settled' \in SUBSET AlertKeys
<1>1. lastEvent' \in [Cameras -> Verdicts \cup {"none"}] /\ hidden' \in [Cameras -> Verdicts \cup {"none"}]
  BY DEF RecordTransition, RecordEvents, TypeOK
<1>2. incidents' \in [Cameras -> Seq(Incident)]
  <2>1. \A c \in Cameras : Reconcile(incidents[c], verdict[c]) \in Seq(Incident)
    BY ReconcileFacts DEF TypeOK
  <2> QED  BY <2>1 DEF RecordTransition, TypeOK
<1>3. \A c \in Cameras : Len(incidents'[c]) <= MaxIncidents
  BY DEF RecordTransition
<1>4. queue' \in SUBSET AlertKeys /\ settled' \in SUBSET AlertKeys
  BY <1>2, <1>3, EnqueueType DEF RecordTransition
<1> QED  BY <1>1, <1>2, <1>3, <1>4

\* The same for an operator's transaction, which also touches a waiting probe.
LEMMA OperatorType ==
  ASSUME TypeOK, NEW c \in Cameras, NEW early, NEW on, NEW rows, NEW b, NEW gone,
         OperatorTransition(c, early, on, rows, b, gone)
  PROVE  /\ lastEvent' \in [Cameras -> Verdicts \cup {"none"}]
         /\ hidden' \in [Cameras -> Verdicts \cup {"none"}]
         /\ incidents' \in [Cameras -> Seq(Incident)]
         /\ \A x \in Cameras : Len(incidents'[x]) <= MaxIncidents
         /\ queue' \in SUBSET AlertKeys
         /\ settled' \in SUBSET AlertKeys
         /\ probe' \in [step : {"idle", "watching", "saving"}, streams : SUBSET Streams,
                         first : SUBSET Streams, seen : StreamRow]
<1> DEFINE verdict == [x \in Cameras |-> Verdict(on, rows, b, x)]
<1>1. verdict \in [Cameras -> Verdicts]
  BY VerdictType
<1>2. PICK late \in SUBSET Cameras : RecordTransition({c}, verdict, late)
  BY DEF OperatorTransition, Overtaken
<1> HIDE DEF verdict
<1>3. probe' \in [step : {"idle", "watching", "saving"}, streams : SUBSET Streams,
                  first : SUBSET Streams, seen : StreamRow]
  BY DEF OperatorTransition, TypeOK
<1> QED  BY <1>1, <1>2, <1>3, TransitionType

\* Resetting rows gives rows.
LEMMA ResetType ==
  ASSUME TypeOK, NEW tokens, NEW c
  PROVE  Reset(tokens, c) \in [Streams -> StreamRow]
BY DEF Reset, TypeOK, StreamRow, FreshRow, StreamHealth, OfflineAfter

LEMMA InitType == Init => TypeOK
BY CameraHealthAssumption
DEF Init, TypeOK, Streams, StreamRow, FreshRow, StreamHealth, OfflineAfter, NoProbe,
    AlertKeys

\* Every operator request keeps the types.
LEMMA OperatorStepType ==
  ASSUME TypeOK, NEW c \in Cameras, Operator(c)
  PROVE  TypeOK'
<1>1. ASSUME NEW offered \in (SUBSET Tokens) \ {{}}, NEW roles \in [Roles -> offered],
             Adopt(c, offered, roles)
      PROVE  TypeOK'
  <2> DEFINE kept == offered \cup (streams[c] \ served[c])
             gone == streams[c] \ kept
  <2>1. OperatorTransition(c, TRUE, enabled', row', binding', {c} \X gone)
    BY <1>1 DEF Adopt
  <2>2. row' \in [Streams -> StreamRow]
    BY <1>1, ResetType DEF Adopt
  <2>3. binding' \in [Cameras -> [Roles -> Tokens \cup {NoToken}]]
    BY <1>1 DEF Adopt, RolesAfterAdopt, TypeOK
  <2>4. /\ streams' \in [Cameras -> SUBSET Tokens]
        /\ served' \in [Cameras -> SUBSET Tokens]
    BY <1>1 DEF Adopt, TypeOK
  <2>5. /\ phase' \in [Cameras -> {"candidate", "adopted", "removed"}]
        /\ enabled' \in SUBSET Cameras
        /\ silenced' \in SUBSET Cameras /\ custom' \in SUBSET Cameras
        /\ telegram' \in [on : BOOLEAN, paired : BOOLEAN]
    BY <1>1 DEF Adopt, TypeOK
  <2> QED  BY <2>1, <2>2, <2>3, <2>4, <2>5, OperatorType DEF TypeOK
<1>2. CASE Unadopt(c)
  <2>1. row' \in [Streams -> StreamRow]
    BY <1>2, ResetType DEF Unadopt
  <2>2. /\ incidents' \in [Cameras -> Seq(Incident)]
        /\ \A x \in Cameras : Len(incidents'[x]) <= MaxIncidents
    BY <1>2, CameraHealthAssumption DEF Unadopt, TypeOK
  <2>3. /\ binding' \in [Cameras -> [Roles -> Tokens \cup {NoToken}]]
        /\ streams' \in [Cameras -> SUBSET Tokens]
        /\ served' \in [Cameras -> SUBSET Tokens]
        /\ phase' \in [Cameras -> {"candidate", "adopted", "removed"}]
    BY <1>2 DEF Unadopt, TypeOK
  <2>4. probe' \in [step : {"idle", "watching", "saving"}, streams : SUBSET Streams,
                    first : SUBSET Streams, seen : StreamRow]
    BY <1>2 DEF Unadopt, TypeOK
  <2> QED  BY <1>2, <2>1, <2>2, <2>3, <2>4 DEF Unadopt, TypeOK
<1>3. ASSUME NEW on \in BOOLEAN, SetCameraEnabled(c, on)
      PROVE  TypeOK'
  <2>1. OperatorTransition(c, TRUE, enabled', row, binding, {})
    BY <1>3 DEF SetCameraEnabled
  <2> QED  BY <1>3, <2>1, OperatorType DEF SetCameraEnabled, TypeOK
<1>4. CASE ReplaceCameraCredentials(c)
  <2>1. OperatorTransition(c, TRUE, enabled, row', binding, {})
    BY <1>4 DEF ReplaceCameraCredentials
  <2>2. row' \in [Streams -> StreamRow]
    BY <1>4, ResetType DEF ReplaceCameraCredentials
  <2> QED  BY <1>4, <2>1, <2>2, OperatorType DEF ReplaceCameraCredentials, TypeOK, config
<1>5. ASSUME NEW on \in SUBSET Tokens, NEW roles \in [Roles -> on],
             SetStreamSettings(c, on, roles)
      PROVE  TypeOK'
  <2>1. OperatorTransition(c, FALSE, enabled, row, binding', {})
    BY <1>5 DEF SetStreamSettings
  <2>2. /\ served' \in [Cameras -> SUBSET Tokens]
        /\ binding' \in [Cameras -> [Roles -> Tokens \cup {NoToken}]]
        /\ custom' \in SUBSET Cameras
    BY <1>5 DEF SetStreamSettings, TypeOK
  <2> QED  BY <1>5, <2>1, <2>2, OperatorType DEF SetStreamSettings, TypeOK
<1>6. ASSUME NEW quiet \in BOOLEAN, SetSilenced(c, quiet)
      PROVE  TypeOK'
  BY <1>6 DEF SetSilenced, TypeOK, history
<1> QED  BY <1>1, <1>2, <1>3, <1>4, <1>5, <1>6 DEF Operator

\* Every step of address recovery keeps the types.
LEMMA RecoveryStepType ==
  ASSUME TypeOK, NEW c \in Cameras, Recovery(c)
  PROVE  TypeOK'
<1>1. ASSUME NEW tokens \in SUBSET Tokens, UpdateProfileSources(c, tokens)
      PROVE  TypeOK'
  <2>1. OperatorTransition(c, TRUE, enabled, row', binding, {})
    BY <1>1 DEF UpdateProfileSources
  <2>2. row' \in [Streams -> StreamRow]
    BY <1>1, ResetType DEF UpdateProfileSources
  <2> QED  BY <1>1, <2>1, <2>2, OperatorType DEF UpdateProfileSources, TypeOK, config
<1>2. CASE OpenAddressIncident(c)
  <2> DEFINE opened == Append(incidents[c], [kind |-> AddressKind, reason |-> "open"])
  <2>1. [kind |-> AddressKind, reason |-> "open"] \in Incident
    BY DEF Incident, Kinds, Reasons
  <2>2. /\ opened \in Seq(Incident)
        /\ Len(opened) = Len(incidents[c]) + 1
        /\ Len(incidents[c]) \in Nat
    BY <2>1 DEF TypeOK
  <2>3. incidents' = [incidents EXCEPT ![c] = opened] /\ Len(incidents[c]) < MaxIncidents
    BY <1>2 DEF OpenAddressIncident
  <2> HIDE DEF opened
  <2>4. /\ incidents' \in [Cameras -> Seq(Incident)]
        /\ \A x \in Cameras : Len(incidents'[x]) <= MaxIncidents
    BY <2>2, <2>3, CameraHealthAssumption DEF TypeOK
  <2>5. queue' \in SUBSET AlertKeys /\ settled' \in SUBSET AlertKeys
    BY <1>2, <2>4, EnqueueType DEF OpenAddressIncident
  <2> QED  BY <1>2, <2>4, <2>5 DEF OpenAddressIncident, TypeOK, config, history
<1>3. ASSUME NEW n \in 1..MaxIncidents, ResolveAddressIncident(c, n)
      PROVE  TypeOK'
  <2> DEFINE answered == [incidents[c][n] EXCEPT !.reason = "stream_recovered"]
             closed == [incidents[c] EXCEPT ![n] = answered]
  <2>1. /\ n \in 1..Len(incidents[c]) /\ incidents[c] \in Seq(Incident)
        /\ incidents' = [incidents EXCEPT ![c] = closed]
    BY <1>3 DEF ResolveAddressIncident, TypeOK
  <2>2. answered \in Incident
    <3>1. incidents[c][n] \in Incident
      BY <2>1
    <3> QED  BY <3>1 DEF Incident, Reasons
  <2> HIDE DEF answered
  <2>3. closed \in Seq(Incident) /\ Len(closed) = Len(incidents[c])
    BY <2>1, <2>2
  <2> HIDE DEF closed
  <2>4. /\ incidents' \in [Cameras -> Seq(Incident)]
        /\ \A x \in Cameras : Len(incidents'[x]) <= MaxIncidents
    BY <2>1, <2>3 DEF TypeOK
  <2>5. queue' \in SUBSET AlertKeys /\ settled' \in SUBSET AlertKeys
    BY <1>3, <2>4, EnqueueType DEF ResolveAddressIncident
  <2> QED  BY <1>3, <2>4, <2>5 DEF ResolveAddressIncident, TypeOK, config, history
<1> QED  BY <1>1, <1>2, <1>3 DEF Recovery

\* So do the notification settings and the deliveries,
LEMMA AlertingStepType ==
  ASSUME TypeOK, Alerting
  PROVE  TypeOK'
<1>1. ASSUME NEW replacing \in BOOLEAN, NEW stale \in BOOLEAN,
             SaveTelegramSettings(replacing, stale)
      PROVE  TypeOK'
  BY <1>1 DEF SaveTelegramSettings, TypeOK, config, ledger, history
<1>2. CASE CompleteTelegramPairing
  BY <1>2 DEF CompleteTelegramPairing, TypeOK, config, ledger, history
<1>3. ASSUME NEW k \in AlertKeys, SettleAlert(k)
      PROVE  TypeOK'
  <2>1. queue' \in SUBSET AlertKeys /\ settled' \in SUBSET AlertKeys
    BY <1>3 DEF SettleAlert, TypeOK
  <2> QED  BY <1>3, <2>1 DEF SettleAlert, TypeOK, config, history
<1> QED  BY <1>1, <1>2, <1>3 DEF Alerting

\* and so does the prober.
LEMMA ProberStepType ==
  ASSUME TypeOK, Prober
  PROVE  TypeOK'
<1>1. ASSUME NEW sources \in SUBSET Streams, ProbeBegin(sources)
      PROVE  TypeOK'
  <2>1. FreshRow \in StreamRow
    BY DEF StreamRow, FreshRow, StreamHealth, OfflineAfter
  <2>2. probe' = [step |-> "watching", streams |-> sources, first |-> {},
                  seen |-> FreshRow]
    BY <1>1 DEF ProbeBegin, NoProbe
  <2>3. probe' \in [step : {"idle", "watching", "saving"}, streams : SUBSET Streams,
                    first : SUBSET Streams, seen : StreamRow]
    BY <2>1, <2>2
  <2> QED  BY <1>1, <2>3 DEF ProbeBegin, TypeOK, config, ledger, history
<1>2. ASSUME NEW s \in Streams, ProbeRead(s)
      PROVE  TypeOK'
  BY <1>2 DEF ProbeRead, TypeOK, config, ledger, history
<1>3. CASE ProbeVanish
  BY <1>3 DEF ProbeVanish, TypeOK, NoProbe, config, ledger, history, StreamRow,
     FreshRow, StreamHealth, OfflineAfter
<1>4. ASSUME NEW hit \in SUBSET Streams, NEW results \in [hit -> Produced],
             ProbeCommit(results)
      PROVE  TypeOK'
  <2> DEFINE base == [s \in hit |-> IF s \in probe.first THEN probe.seen ELSE row[s]]
             rows == [s \in Streams |->
                        IF s \in hit THEN FoldProbe(base[s], results[s]) ELSE row[s]]
             cams == {s[1] : s \in hit \cup probe.first} \cap Adopted
             verdict == [x \in Cameras |-> Verdict(enabled, rows, binding, x)]
  <2>1. DOMAIN results = hit
    OBVIOUS
  <2>2. row' = rows /\ probe' = NoProbe
    BY <1>4, <2>1 DEF ProbeCommit
  <2>0. PICK late \in SUBSET Overtaken(cams, verdict) : RecordTransition(cams, verdict, late)
    BY <1>4, <2>1 DEF ProbeCommit
  <2>3. rows \in [Streams -> StreamRow]
    <3>1. \A s \in hit : base[s] \in StreamRow /\ results[s] \in ProbeStatus
      BY DEF TypeOK, Produced
    <3> QED  BY <3>1, FoldProbeType DEF TypeOK
  <2>4. cams \in SUBSET Cameras /\ late \in SUBSET Cameras
    BY DEF Adopted, Overtaken
  <2>5. verdict \in [Cameras -> Verdicts]
    BY VerdictType
  <2> HIDE DEF verdict, cams, rows
  <2>6. /\ lastEvent' \in [Cameras -> Verdicts \cup {"none"}]
        /\ hidden' \in [Cameras -> Verdicts \cup {"none"}]
        /\ incidents' \in [Cameras -> Seq(Incident)]
        /\ \A x \in Cameras : Len(incidents'[x]) <= MaxIncidents
        /\ queue' \in SUBSET AlertKeys
        /\ settled' \in SUBSET AlertKeys
    BY <2>0, <2>4, <2>5, TransitionType
  <2>7. probe' \in [step : {"idle", "watching", "saving"}, streams : SUBSET Streams,
                    first : SUBSET Streams, seen : StreamRow]
    BY <2>2 DEF NoProbe, StreamRow, FreshRow, StreamHealth, OfflineAfter
  <2> QED  BY <1>4, <2>2, <2>3, <2>6, <2>7 DEF ProbeCommit, TypeOK, config
<1> QED  BY <1>1, <1>2, <1>3, <1>4 DEF Prober

LEMMA NextType == TypeOK /\ [Next]_vars => TypeOK'
<1> SUFFICES ASSUME TypeOK, [Next]_vars
             PROVE  TypeOK'
  OBVIOUS
<1>1. CASE \E c \in Cameras : Operator(c) \/ Recovery(c)
  BY <1>1, OperatorStepType, RecoveryStepType
<1>2. CASE Alerting
  BY <1>2, AlertingStepType
<1>3. CASE Prober
  BY <1>3, ProberStepType
<1>4. CASE UNCHANGED vars
  BY <1>4 DEF vars, config, ledger, history, TypeOK
<1> QED  BY <1>1, <1>2, <1>3, <1>4 DEF Next

\* Every column of the health bookkeeping keeps its type, and no camera has
\* more incidents than the bound.
THEOREM TypeCorrect == Spec => []TypeOK
BY InitType, NextType, PTL DEF Spec

-----------------------------------------------------------------------------
(***************************************************************************)
(* Incidents and history track health. The invariant is inductive only     *)
(* with the fact that a camera not adopted yet has no incidents: its first *)
(* adoption runs the transition on that log.                               *)
(***************************************************************************)
Sound(c) ==
  /\ Tracks(incidents[c], CurrentVerdict(c))
  /\ CurrentVerdict(c) = IF hidden[c] = "none" THEN lastEvent[c] ELSE hidden[c]

HealthInv ==
  /\ \A c \in Adopted : Sound(c)
  /\ \A c \in Cameras : phase[c] = "candidate" => incidents[c] = <<>>

\* A camera none of whose health columns, bindings, incidents and events
\* changed stays sound.
LEMMA Untouched ==
  ASSUME TypeOK, NEW x \in Cameras, Sound(x),
         incidents'[x] = incidents[x],
         lastEvent'[x] = lastEvent[x], hidden'[x] = hidden[x],
         x \in enabled' <=> x \in enabled,
         binding'[x] = binding[x],
         \A t \in Tokens : row'[<<x, t>>] = row[<<x, t>>]
  PROVE  Sound(x)'
<1>1. Bound(binding[x]) \subseteq Tokens
  BY DEF Bound, TypeOK
<1>2. Bound(binding'[x]) = Bound(binding[x])
  OBVIOUS
<1>3. {row'[<<x, t>>].health : t \in Bound(binding'[x])}
        = {row[<<x, t>>].health : t \in Bound(binding[x])}
  BY <1>1, <1>2
<1>4. (x \in enabled') = (x \in enabled)
  OBVIOUS
<1>5. HealthVerdict(x \in enabled', {row'[<<x, t>>].health : t \in Bound(binding'[x])})
        = HealthVerdict(x \in enabled, {row[<<x, t>>].health : t \in Bound(binding[x])})
  BY <1>3, <1>4
<1>6. CurrentVerdict(x)' = CurrentVerdict(x)
  BY <1>5 DEF CurrentVerdict, Verdict
<1> QED  BY <1>6 DEF Sound

\* The transition makes every camera it covers sound, and leaves the incidents
\* and events of the others alone.
LEMMA TransitionSound ==
  ASSUME TypeOK, NEW cams \in SUBSET Cameras, NEW late \in SUBSET Cameras,
         NEW verdict \in [Cameras -> Verdicts],
         RecordTransition(cams, verdict, late),
         NEW c \in Cameras
  PROVE  /\ c \in cams /\ (\A m, n \in OpenHealth(incidents[c]) : m = n)
              => Tracks(incidents'[c], verdict[c])
         /\ c \in cams =>
              verdict[c] = IF hidden'[c] = "none" THEN lastEvent'[c] ELSE hidden'[c]
         /\ c \notin cams => /\ incidents'[c] = incidents[c]
                             /\ lastEvent'[c] = lastEvent[c]
                             /\ hidden'[c] = hidden[c]
<1>1. incidents[c] \in Seq(Incident) /\ verdict[c] \in Verdicts
  BY DEF TypeOK
<1>2. c \in cams => incidents'[c] = Reconcile(incidents[c], verdict[c])
  BY DEF RecordTransition
<1>3. c \in cams /\ (\A m, n \in OpenHealth(incidents[c]) : m = n)
        => Tracks(incidents'[c], verdict[c])
  BY <1>1, <1>2, ReconcileFacts
<1>4. c \in cams =>
        verdict[c] = IF hidden'[c] = "none" THEN lastEvent'[c] ELSE hidden'[c]
  BY <1>1 DEF RecordTransition, RecordEvents, Verdicts
<1>5. c \notin cams => /\ incidents'[c] = incidents[c]
                       /\ lastEvent'[c] = lastEvent[c]
                       /\ hidden'[c] = hidden[c]
  BY DEF RecordTransition, RecordEvents
<1> QED  BY <1>3, <1>4, <1>5

\* At most one health incident is open wherever a transition may run.
LEMMA OneOpen ==
  ASSUME TypeOK, HealthInv, NEW c \in Cameras, phase[c] # "removed"
  PROVE  \A m, n \in OpenHealth(incidents[c]) : m = n
<1>1. CASE phase[c] = "adopted"
  BY <1>1 DEF HealthInv, Adopted, Sound, Tracks
<1>2. CASE phase[c] = "candidate"
  BY <1>2 DEF HealthInv, OpenHealth
<1> QED  BY <1>1, <1>2 DEF TypeOK

\* An operator's transaction on c that commits the rows it passed to its
\* transition preserves the invariant.
LEMMA OperatorSound ==
  ASSUME TypeOK, HealthInv, NEW c \in Cameras, phase[c] # "removed", NEW early, NEW gone,
         OperatorTransition(c, early, enabled', row', binding', gone),
         \A x \in Cameras \ {c} :
           /\ phase'[x] = phase[x]
           /\ x \in enabled' <=> x \in enabled
           /\ binding'[x] = binding[x]
           /\ \A t \in Tokens : row'[<<x, t>>] = row[<<x, t>>],
         phase'[c] = "adopted"
  PROVE  HealthInv'
<1> DEFINE verdict == [x \in Cameras |-> Verdict(enabled', row', binding', x)]
<1>1. verdict \in [Cameras -> Verdicts]
  BY VerdictType
<1>0. PICK late \in SUBSET Cameras : RecordTransition({c}, verdict, late)
  BY DEF OperatorTransition, Overtaken
<1>2. verdict[c] = CurrentVerdict(c)'
  BY DEF CurrentVerdict, Verdict, Bound
<1> HIDE DEF verdict
<1>3. Sound(c)'
  BY <1>0, <1>1, <1>2, OneOpen, TransitionSound DEF Sound
<1>4. ASSUME NEW x \in Cameras \ {c}
      PROVE  /\ Sound(x) => Sound(x)'
             /\ incidents'[x] = incidents[x]
  <2>1. /\ incidents'[x] = incidents[x]
        /\ lastEvent'[x] = lastEvent[x]
        /\ hidden'[x] = hidden[x]
    BY <1>0, <1>1, TransitionSound
  <2> QED  BY <2>1, Untouched
<1> QED  BY <1>3, <1>4 DEF HealthInv, Adopted

LEMMA OperatorStepSound ==
  ASSUME TypeOK, HealthInv, NEW c \in Cameras, Operator(c)
  PROVE  HealthInv'
<1>1. ASSUME NEW offered \in (SUBSET Tokens) \ {{}}, NEW roles \in [Roles -> offered],
             Adopt(c, offered, roles)
      PROVE  HealthInv'
  <2>1. /\ phase[c] # "removed" /\ phase'[c] = "adopted"
        /\ \E gone : OperatorTransition(c, TRUE, enabled', row', binding', gone)
    BY <1>1 DEF Adopt, TypeOK
  <2>2. ASSUME NEW x \in Cameras \ {c}
        PROVE  /\ phase'[x] = phase[x]
               /\ x \in enabled' <=> x \in enabled
               /\ binding'[x] = binding[x]
               /\ \A t \in Tokens : row'[<<x, t>>] = row[<<x, t>>]
    BY <1>1 DEF Adopt, TypeOK, Reset, Streams
  <2> QED  BY <2>1, <2>2, OperatorSound
<1>2. CASE Unadopt(c)
  <2>1. ASSUME NEW x \in Cameras \ {c}, Sound(x)
        PROVE  Sound(x)'
    <3>1. /\ incidents'[x] = incidents[x] /\ lastEvent'[x] = lastEvent[x]
          /\ hidden'[x] = hidden[x]
          /\ x \in enabled' <=> x \in enabled
          /\ binding'[x] = binding[x]
      BY <1>2 DEF Unadopt, TypeOK
    <3>2. \A t \in Tokens : row'[<<x, t>>] = row[<<x, t>>]
      BY <1>2 DEF Unadopt, Reset, Streams
    <3> QED  BY <2>1, <3>1, <3>2, Untouched
  <2>2. Adopted' = Adopted \ {c}
    BY <1>2 DEF Unadopt, Adopted, TypeOK
  <2>3. \A x \in Cameras : phase'[x] = "candidate" => incidents'[x] = <<>>
    BY <1>2 DEF Unadopt, HealthInv, TypeOK
  <2> QED  BY <2>1, <2>2, <2>3 DEF HealthInv, Adopted
<1>3. ASSUME NEW on \in BOOLEAN, SetCameraEnabled(c, on)
      PROVE  HealthInv'
  BY <1>3, OperatorSound DEF SetCameraEnabled
<1>4. CASE ReplaceCameraCredentials(c)
  <2>1. \A x \in Cameras \ {c} : \A t \in Tokens : row'[<<x, t>>] = row[<<x, t>>]
    BY <1>4 DEF ReplaceCameraCredentials, Reset, Streams
  <2> QED  BY <1>4, <2>1, OperatorSound DEF ReplaceCameraCredentials, config
<1>5. ASSUME NEW on \in SUBSET Tokens, NEW roles \in [Roles -> on],
             SetStreamSettings(c, on, roles)
      PROVE  HealthInv'
  <2>1. \A x \in Cameras \ {c} : binding'[x] = binding[x]
    BY <1>5 DEF SetStreamSettings, TypeOK
  <2> QED  BY <1>5, <2>1, OperatorSound DEF SetStreamSettings
<1>6. ASSUME NEW quiet \in BOOLEAN, SetSilenced(c, quiet)
      PROVE  HealthInv'
  <2>1. \A x \in Adopted : Sound(x)'
    BY <1>6, Untouched DEF SetSilenced, history, HealthInv, Adopted
  <2> QED  BY <1>6, <2>1 DEF SetSilenced, HealthInv, Adopted
<1> QED  BY <1>1, <1>2, <1>3, <1>4, <1>5, <1>6 DEF Operator

\* Opening and resolving address incidents does not disturb health incidents.
LEMMA AddressIncidentSound ==
  ASSUME TypeOK, HealthInv, NEW c \in Cameras,
         incidents' \in [Cameras -> Seq(Incident)],
         \A x \in Cameras \ {c} : incidents'[x] = incidents[x],
         OpenHealth(incidents'[c]) = OpenHealth(incidents[c]),
         \A n \in OpenHealth(incidents[c]) : incidents'[c][n].kind = incidents[c][n].kind,
         phase[c] = "candidate" => incidents'[c] = <<>>,
         UNCHANGED <<config, row, history>>
  PROVE  HealthInv'
<1>1. \A x \in Cameras : CurrentVerdict(x)' = CurrentVerdict(x)
  BY DEF CurrentVerdict, Verdict, config
<1>2. ASSUME NEW x \in Adopted
      PROVE  Sound(x)'
  <2>1. Sound(x) /\ x \in Cameras
    BY DEF HealthInv, Adopted
  <2>2. Tracks(incidents'[x], CurrentVerdict(x))
    <3>1. CASE x # c
      BY <2>1, <3>1 DEF Sound
    <3>2. CASE x = c
      BY <2>1, <3>2 DEF Sound, Tracks
    <3> QED  BY <3>1, <3>2
  <2> QED  BY <1>1, <2>1, <2>2 DEF Sound, history
<1>3. Adopted' = Adopted
  BY DEF Adopted, config
<1> QED  BY <1>2, <1>3 DEF HealthInv, config

LEMMA RecoveryStepSound ==
  ASSUME TypeOK, TypeOK', HealthInv, NEW c \in Cameras, Recovery(c)
  PROVE  HealthInv'
<1>1. ASSUME NEW tokens \in SUBSET Tokens, UpdateProfileSources(c, tokens)
      PROVE  HealthInv'
  <2>1. \A x \in Cameras \ {c} : \A t \in Tokens : row'[<<x, t>>] = row[<<x, t>>]
    BY <1>1 DEF UpdateProfileSources, Reset, Streams
  <2> QED  BY <1>1, <2>1, OperatorSound DEF UpdateProfileSources, config
<1>2. CASE OpenAddressIncident(c)
  <2> DEFINE new == [kind |-> AddressKind, reason |-> "open"]
             log == incidents[c]
  <2>1. log \in Seq(Incident) /\ new \in Incident /\ new.kind \notin HealthKinds
    BY DEF TypeOK, Incident, Kinds, Reasons, AddressKind, HealthKinds
  <2>2. incidents' = [incidents EXCEPT ![c] = Append(log, new)]
    BY <1>2 DEF OpenAddressIncident
  <2> HIDE DEF new
  <2>3. /\ DOMAIN log = 1..Len(log) /\ Len(log) \in Nat
        /\ DOMAIN Append(log, new) = 1..(Len(log) + 1)
        /\ \A n \in 1..Len(log) : Append(log, new)[n] = log[n]
        /\ Append(log, new)[Len(log) + 1] = new
    BY <2>1
  <2>4. OpenHealth(Append(log, new)) = OpenHealth(log)
    BY <2>1, <2>3 DEF OpenHealth
  <2>5. /\ incidents'[c] = Append(log, new)
        /\ \A x \in Cameras \ {c} : incidents'[x] = incidents[x]
    BY <2>2 DEF TypeOK
  <2>6. \A n \in OpenHealth(log) : Append(log, new)[n].kind = log[n].kind
    BY <2>3 DEF OpenHealth
  <2>7. phase[c] = "adopted" /\ UNCHANGED <<config, row, history>>
    BY <1>2 DEF OpenAddressIncident
  <2>8. incidents' \in [Cameras -> Seq(Incident)]
    BY DEF TypeOK
  <2> QED  BY <2>4, <2>5, <2>6, <2>7, <2>8, AddressIncidentSound
<1>3. ASSUME NEW n \in 1..MaxIncidents, ResolveAddressIncident(c, n)
      PROVE  HealthInv'
  <2> DEFINE log == incidents[c]
             new == [log EXCEPT ![n].reason = "stream_recovered"]
  <2>1. /\ log \in Seq(Incident) /\ n \in DOMAIN log
        /\ log[n] = [kind |-> AddressKind, reason |-> "open"]
        /\ incidents' = [incidents EXCEPT ![c] = new]
    BY <1>3 DEF ResolveAddressIncident, TypeOK
  <2>2. /\ DOMAIN new = DOMAIN log
        /\ \A m \in DOMAIN log : m # n => new[m] = log[m]
        /\ new[n].kind = AddressKind
    BY <2>1
  <2> HIDE DEF new
  <2>3. /\ incidents'[c] = new
        /\ \A x \in Cameras \ {c} : incidents'[x] = incidents[x]
    BY <2>1 DEF TypeOK
  <2>4. AddressKind \notin HealthKinds
    BY DEF AddressKind, HealthKinds
  <2>5. OpenHealth(new) = OpenHealth(log)
    BY <2>1, <2>2, <2>4 DEF OpenHealth
  <2>6. \A m \in OpenHealth(log) : new[m].kind = log[m].kind
    BY <2>1, <2>2 DEF OpenHealth
  <2>7. phase[c] = "candidate" => log = <<>>
    BY DEF HealthInv
  <2>8. phase[c] # "candidate" /\ UNCHANGED <<config, row, history>>
    BY <1>3, <2>1, <2>7 DEF ResolveAddressIncident
  <2>9. incidents' \in [Cameras -> Seq(Incident)]
    BY DEF TypeOK
  <2> QED  BY <2>3, <2>5, <2>6, <2>8, <2>9, AddressIncidentSound
<1> QED  BY <1>1, <1>2, <1>3 DEF Recovery

\* Steps that touch neither rows nor incidents nor events preserve the invariant.
LEMMA QuietSound ==
  ASSUME TypeOK, HealthInv, UNCHANGED <<config, row, incidents, history>>
  PROVE  HealthInv'
<1>1. \A x \in Adopted : Sound(x)'
  BY Untouched DEF config, history, HealthInv, Adopted
<1> QED  BY <1>1 DEF HealthInv, Adopted, config

LEMMA ProberStepSound ==
  ASSUME TypeOK, HealthInv, Prober
  PROVE  HealthInv'
<1>1. ASSUME NEW sources \in SUBSET Streams, ProbeBegin(sources)
      PROVE  HealthInv'
  BY <1>1, QuietSound DEF ProbeBegin, ledger
<1>2. ASSUME NEW s \in Streams, ProbeRead(s)
      PROVE  HealthInv'
  BY <1>2, QuietSound DEF ProbeRead, ledger
<1>3. CASE ProbeVanish
  BY <1>3, QuietSound DEF ProbeVanish, ledger
<1>4. ASSUME NEW hit \in SUBSET Streams, NEW results \in [hit -> Produced],
             ProbeCommit(results)
      PROVE  HealthInv'
  <2> DEFINE base == [s \in hit |-> IF s \in probe.first THEN probe.seen ELSE row[s]]
             rows == [s \in Streams |->
                        IF s \in hit THEN FoldProbe(base[s], results[s]) ELSE row[s]]
             cams == {s[1] : s \in hit \cup probe.first} \cap Adopted
             verdict == [x \in Cameras |-> Verdict(enabled, rows, binding, x)]
  <2>1. DOMAIN results = hit
    OBVIOUS
  <2>2. row' = rows /\ UNCHANGED config
    BY <1>4, <2>1 DEF ProbeCommit
  <2>0. PICK late \in SUBSET Overtaken(cams, verdict) : RecordTransition(cams, verdict, late)
    BY <1>4, <2>1 DEF ProbeCommit
  <2>3. verdict \in [Cameras -> Verdicts]
    BY VerdictType
  <2>4. cams \in SUBSET Cameras /\ late \in SUBSET Cameras /\ cams \subseteq Adopted
    BY DEF Adopted, Overtaken
  <2>5. \A x \in Cameras : CurrentVerdict(x)' = verdict[x]
    BY <2>2 DEF CurrentVerdict, Verdict, config
  <2>6. ASSUME NEW x \in Adopted \ cams, NEW t \in Tokens
        PROVE  row'[<<x, t>>] = row[<<x, t>>]
    <3>1. <<x, t>> \in Streams /\ <<x, t>>[1] = x
      BY DEF Streams, Adopted
    <3>2. <<x, t>> \notin hit
      BY <3>1
    <3> QED  BY <2>2, <3>1, <3>2
  <2> HIDE DEF verdict, cams, rows
  <2>7. ASSUME NEW x \in Adopted
        PROVE  Sound(x)'
    <3>1. x \in Cameras /\ Sound(x) /\ phase[x] # "removed"
      BY DEF Adopted, HealthInv
    <3>2. CASE x \in cams
      BY <2>0, <2>3, <2>4, <2>5, <3>1, <3>2, OneOpen, TransitionSound DEF Sound
    <3>3. CASE x \notin cams
      <4>1. /\ incidents'[x] = incidents[x] /\ lastEvent'[x] = lastEvent[x]
            /\ hidden'[x] = hidden[x]
        BY <2>0, <2>3, <2>4, <3>1, <3>3, TransitionSound
      <4> QED  BY <2>2, <2>6, <3>1, <3>3, <4>1, Untouched DEF config
    <3> QED  BY <3>2, <3>3
  <2>8. ASSUME NEW x \in Cameras, phase'[x] = "candidate"
        PROVE  incidents'[x] = <<>>
    <3>1. x \notin cams /\ incidents[x] = <<>>
      BY <2>2, <2>4, <2>8 DEF config, Adopted, HealthInv
    <3> QED  BY <2>0, <2>3, <2>4, <3>1, TransitionSound
  <2> QED  BY <2>2, <2>7, <2>8 DEF HealthInv, Adopted, config
<1> QED  BY <1>1, <1>2, <1>3, <1>4 DEF Prober

LEMMA NextSound == TypeOK /\ TypeOK' /\ HealthInv /\ [Next]_vars => HealthInv'
<1> SUFFICES ASSUME TypeOK, TypeOK', HealthInv, [Next]_vars
             PROVE  HealthInv'
  OBVIOUS
<1>1. CASE \E c \in Cameras : Operator(c) \/ Recovery(c)
  BY <1>1, OperatorStepSound, RecoveryStepSound
<1>2. CASE Alerting
  BY <1>2, QuietSound
  DEF Alerting, SaveTelegramSettings, CompleteTelegramPairing, SettleAlert, ledger
<1>3. CASE Prober
  BY <1>3, ProberStepSound
<1>4. CASE UNCHANGED vars
  BY <1>4, QuietSound DEF vars, ledger
<1> QED  BY <1>1, <1>2, <1>3, <1>4 DEF Next

LEMMA HealthInvariant == Spec => []HealthInv
<1>1. Init => HealthInv
  BY DEF Init, HealthInv, Adopted
<1> QED  BY <1>1, TypeCorrect, NextSound, PTL DEF Spec

\* The open health incident of every adopted camera agrees with the health of
\* its bound streams, after any sequence of probes, requests and recoveries.
THEOREM IncidentsTrack == Spec => []IncidentsTrackHealth
<1>1. HealthInv => IncidentsTrackHealth
  BY DEF HealthInv, IncidentsTrackHealth, Sound
<1> QED  BY <1>1, HealthInvariant, PTL

\* The health of the bound streams is in the history: it is the newest event,
\* or the one that a transaction which came late has just filed below it
\* (_record_camera_health_transition).
THEOREM HistoryTracks == Spec => []HistoryTracksHealth
<1>1. HealthInv => HistoryTracksHealth
  BY DEF HealthInv, HistoryTracksHealth, Sound
<1> QED  BY <1>1, HealthInvariant, PTL

-----------------------------------------------------------------------------
(* The outbox: silencing, and recoveries only after openings. *)

QueueInv == SilencedHasNothingQueued /\ ResolutionFollowsOpening

\* What a transaction enqueues respects both.
LEMMA EnqueueKeeps ==
  ASSUME QueueInv, NEW after, Enqueue(after), silenced' = silenced
  PROVE  QueueInv'
<1> DEFINE new(c) == IF Alertable(c) THEN NewAlerts(c, incidents[c], after[c]) ELSE {}
<1>1. /\ queue' = queue \cup (UNION {new(c) : c \in Cameras} \ settled)
      /\ settled' = settled
  BY DEF Enqueue
<1>2. ASSUME NEW c \in Cameras, NEW k \in new(c)
      PROVE  /\ k[1] = c /\ c \notin silenced
             /\ \A x, n : k = <<x, n, "incident_resolved">>
                  => <<x, n, "incident_opened">> \in queue \cup settled
  <2>1. c \notin silenced /\ k \in NewAlerts(c, incidents[c], after[c])
    BY <1>2 DEF Alertable
  <2>2. \/ \E n : k = <<c, n, "incident_opened">>
        \/ \E n : /\ k = <<c, n, "incident_resolved">>
                 /\ <<c, n, "incident_opened">> \in queue \cup settled
    BY <2>1 DEF NewAlerts
  <2>3. ASSUME NEW n, k = <<c, n, "incident_opened">>
        PROVE  /\ k[1] = c
               /\ \A x, m : k # <<x, m, "incident_resolved">>
    BY <2>3
  <2>4. ASSUME NEW n, k = <<c, n, "incident_resolved">>,
               <<c, n, "incident_opened">> \in queue \cup settled
        PROVE  /\ k[1] = c
               /\ \A x, m : k = <<x, m, "incident_resolved">>
                    => <<x, m, "incident_opened">> \in queue \cup settled
    BY <2>4
  <2>5. CASE \E n : k = <<c, n, "incident_opened">>
    BY <2>1, <2>3, <2>5
  <2>6. CASE \E n : /\ k = <<c, n, "incident_resolved">>
                   /\ <<c, n, "incident_opened">> \in queue \cup settled
    BY <2>1, <2>4, <2>6
  <2> QED  BY <2>2, <2>5, <2>6
<1> HIDE DEF new
<1>3. SilencedHasNothingQueued'
  BY <1>1, <1>2 DEF QueueInv, SilencedHasNothingQueued
<1>4. ResolutionFollowsOpening'
  BY <1>1, <1>2 DEF QueueInv, ResolutionFollowsOpening
<1> QED  BY <1>3, <1>4 DEF QueueInv

\* A silenced camera loses its openings and its resolutions together, and a
\* delivery keeps the row it settles.
LEMMA NextQueue == QueueInv /\ [Next]_vars => QueueInv'
<1> SUFFICES ASSUME QueueInv, [Next]_vars
             PROVE  QueueInv'
  OBVIOUS
<1>1. ASSUME NEW c \in Cameras, Operator(c)
      PROVE  QueueInv'
  <2>1. ASSUME NEW offered \in (SUBSET Tokens) \ {{}}, NEW roles \in [Roles -> offered],
               Adopt(c, offered, roles)
        PROVE  QueueInv'
    BY <2>1, EnqueueKeeps DEF Adopt, OperatorTransition, RecordTransition
  <2>2. CASE Unadopt(c)
    BY <2>2 DEF Unadopt, QueueInv, SilencedHasNothingQueued, ResolutionFollowsOpening
  <2>3. ASSUME NEW on \in BOOLEAN, SetCameraEnabled(c, on)
        PROVE  QueueInv'
    BY <2>3, EnqueueKeeps DEF SetCameraEnabled, OperatorTransition, RecordTransition
  <2>4. CASE ReplaceCameraCredentials(c)
    BY <2>4, EnqueueKeeps
    DEF ReplaceCameraCredentials, OperatorTransition, RecordTransition, config
  <2>5. ASSUME NEW on \in SUBSET Tokens, NEW roles \in [Roles -> on],
               SetStreamSettings(c, on, roles)
        PROVE  QueueInv'
    BY <2>5, EnqueueKeeps DEF SetStreamSettings, OperatorTransition, RecordTransition
  <2>6. ASSUME NEW quiet \in BOOLEAN, SetSilenced(c, quiet)
        PROVE  QueueInv'
    <3>1. SilencedHasNothingQueued'
      BY <2>6 DEF SetSilenced, QueueInv, SilencedHasNothingQueued
    <3>2. ResolutionFollowsOpening'
      BY <2>6 DEF SetSilenced, QueueInv, ResolutionFollowsOpening
    <3> QED  BY <3>1, <3>2 DEF QueueInv
  <2> QED  BY <1>1, <2>1, <2>2, <2>3, <2>4, <2>5, <2>6 DEF Operator
<1>2. ASSUME NEW c \in Cameras, Recovery(c)
      PROVE  QueueInv'
  BY <1>2, EnqueueKeeps
  DEF Recovery, UpdateProfileSources, OpenAddressIncident, ResolveAddressIncident,
      OperatorTransition, RecordTransition, config
<1>3. CASE Alerting
  <2>1. ASSUME NEW k \in AlertKeys, SettleAlert(k)
        PROVE  QueueInv'
    BY <2>1 DEF SettleAlert, config, QueueInv, SilencedHasNothingQueued,
                ResolutionFollowsOpening
  <2> QED  BY <1>3, <2>1 DEF Alerting, SaveTelegramSettings, CompleteTelegramPairing,
              ledger, config, QueueInv, SilencedHasNothingQueued, ResolutionFollowsOpening
<1>4. CASE Prober
  <2>1. ASSUME NEW hit \in SUBSET Streams, NEW results \in [hit -> Produced],
               ProbeCommit(results)
        PROVE  QueueInv'
    BY <2>1, EnqueueKeeps DEF ProbeCommit, RecordTransition, config
  <2> QED  BY <1>4, <2>1 DEF Prober, ProbeBegin, ProbeRead, ProbeVanish, ledger, config,
              QueueInv, SilencedHasNothingQueued, ResolutionFollowsOpening
<1>5. CASE UNCHANGED vars
  BY <1>5 DEF vars, ledger, config, QueueInv, SilencedHasNothingQueued,
              ResolutionFollowsOpening
<1> QED  BY <1>1, <1>2, <1>3, <1>4, <1>5 DEF Next

LEMMA QueueInvariant == Spec => []QueueInv
<1>1. Init => QueueInv
  BY DEF Init, QueueInv, SilencedHasNothingQueued, ResolutionFollowsOpening
<1> QED  BY <1>1, NextQueue, PTL DEF Spec

\* No alert waits for a camera the operator silenced.
THEOREM SilencedQuiet == Spec => []SilencedHasNothingQueued
<1>1. QueueInv => SilencedHasNothingQueued
  BY DEF QueueInv
<1> QED  BY <1>1, QueueInvariant, PTL

\* A recovery alert waits only where its opening alert was queued or settled.
THEOREM ResolutionAnswers == Spec => []ResolutionFollowsOpening
<1>1. QueueInv => ResolutionFollowsOpening
  BY DEF QueueInv
<1> QED  BY <1>1, QueueInvariant, PTL

-----------------------------------------------------------------------------
(* Bindings point at served streams. *)

BindingInv ==
  /\ BindingsServed
  /\ \A c \in Cameras : phase[c] = "candidate" =>
       c \notin custom /\ streams[c] = {} /\ served[c] = {}

LEMMA NextBinding == TypeOK /\ BindingInv /\ [Next]_vars => BindingInv'
<1> SUFFICES ASSUME TypeOK, BindingInv, [Next]_vars
             PROVE  BindingInv'
  OBVIOUS
<1>1. ASSUME NEW c \in Cameras, NEW offered \in (SUBSET Tokens) \ {{}},
             NEW roles \in [Roles -> offered], Adopt(c, offered, roles)
      PROVE  BindingInv'
  <2>1. \A x \in Cameras \ {c} :
          /\ phase'[x] = phase[x] /\ binding'[x] = binding[x]
          /\ served'[x] = served[x] /\ streams'[x] = streams[x]
    BY <1>1 DEF Adopt, TypeOK
  <2>2. phase'[c] = "adopted" /\ custom' = custom
    BY <1>1 DEF Adopt, TypeOK
  <2>3. served'[c] \subseteq streams'[c]
    BY <1>1 DEF Adopt, TypeOK
  <2>4. c \notin custom => served'[c] = streams'[c]
    BY <1>1 DEF Adopt, TypeOK, BindingInv, BindingsServed, Adopted
  <2>5. \A r \in Roles : binding'[c][r] \in served'[c]
    <3>1. CASE c \in custom
      <4>1. phase[c] = "adopted"
        BY <1>1, <3>1 DEF Adopt, TypeOK, BindingInv
      <4>2. \A r \in Roles : binding[c][r] \in served[c] /\ binding[c][r] # NoToken
        BY <4>1, CameraHealthAssumption DEF BindingInv, BindingsServed, Adopted, TypeOK
      <4>3. \A r \in Roles : binding[c][r] \in offered
        BY <1>1, <3>1, <4>2 DEF Adopt, Bound
      <4> QED  BY <1>1, <3>1, <4>2, <4>3 DEF Adopt, RolesAfterAdopt, TypeOK
    <3>2. CASE c \notin custom
      BY <1>1, <2>4, <3>2 DEF Adopt, RolesAfterAdopt, TypeOK
    <3> QED  BY <3>1, <3>2
  <2> QED  BY <2>1, <2>2, <2>3, <2>4, <2>5 DEF BindingInv, BindingsServed, Adopted
<1>2. ASSUME NEW c \in Cameras, Unadopt(c)
      PROVE  BindingInv'
  BY <1>2 DEF Unadopt, TypeOK, BindingInv, BindingsServed, Adopted
<1>3. ASSUME NEW c \in Cameras, NEW on \in SUBSET Tokens, NEW roles \in [Roles -> on],
             SetStreamSettings(c, on, roles)
      PROVE  BindingInv'
  <2>1. \A r \in Roles : roles[r] \in on
    OBVIOUS
  <2> QED  BY <1>3, <2>1 DEF SetStreamSettings, TypeOK, BindingInv, BindingsServed, Adopted
<1>4. ASSUME UNCHANGED <<phase, custom, streams, served, binding>>
      PROVE  BindingInv'
  BY <1>4 DEF BindingInv, BindingsServed, Adopted
<1>5. ASSUME NEW c \in Cameras, Operator(c) \/ Recovery(c)
      PROVE  BindingInv'
  BY <1>1, <1>2, <1>3, <1>4, <1>5
  DEF Operator, Recovery, SetCameraEnabled, ReplaceCameraCredentials, SetSilenced,
      UpdateProfileSources, OpenAddressIncident, ResolveAddressIncident, config
<1>6. CASE Alerting \/ Prober \/ UNCHANGED vars
  BY <1>4, <1>6
  DEF Alerting, SaveTelegramSettings, CompleteTelegramPairing, SettleAlert, Prober,
      ProbeBegin, ProbeRead, ProbeVanish, ProbeCommit, vars, config
<1> QED  BY <1>5, <1>6 DEF Next

\* Record and Detect of an adopted camera are always bound to served streams.
THEOREM BindingsAreServed == Spec => []BindingsServed
<1>1. Init => BindingInv
  BY DEF Init, BindingInv, BindingsServed, Adopted
<1>2. BindingInv => BindingsServed
  BY DEF BindingInv
<1> QED  BY <1>1, <1>2, TypeCorrect, NextBinding, PTL DEF Spec

-----------------------------------------------------------------------------
(* Closed incidents are final. *)

\* What a step may do to a log: entries stay where they are and of what kind
\* they are, closed ones as they are.
Continues(log, new) ==
  \A n \in DOMAIN log :
    /\ n \in DOMAIN new
    /\ new[n].kind = log[n].kind
    /\ log[n].reason # "open" => new[n] = log[n]

LEMMA AppendContinues ==
  ASSUME NEW log \in Seq(Incident), NEW closed \in Seq(Incident), NEW e \in Incident,
         Continues(log, closed)
  PROVE  Continues(log, Append(closed, e))
<1>1. /\ DOMAIN closed = 1..Len(closed) /\ Len(closed) \in Nat
      /\ DOMAIN Append(closed, e) = 1..(Len(closed) + 1)
      /\ \A n \in 1..Len(closed) : Append(closed, e)[n] = closed[n]
  OBVIOUS
<1> QED  BY <1>1 DEF Continues

LEMMA ReconcileContinues ==
  ASSUME NEW log \in Seq(Incident), NEW verdict \in Verdicts
  PROVE  Continues(log, Reconcile(log, verdict))
<1>1. Continues(log, log)
  BY DEF Continues
<1>2. ASSUME NEW reason \in Reasons \ {"open"}
      PROVE  Close(log, reason) \in Seq(Incident) /\ Continues(log, Close(log, reason))
  <2>1. /\ Close(log, reason) \in Seq(Incident) /\ Len(Close(log, reason)) = Len(log)
        /\ \A n \in DOMAIN log :
             /\ Close(log, reason)[n].kind = log[n].kind
             /\ log[n].reason # "open" => Close(log, reason)[n] = log[n]
    BY CloseFacts
  <2>2. DOMAIN Close(log, reason) = DOMAIN log
    BY <2>1
  <2> QED  BY <2>1, <2>2 DEF Continues
<1>3. "cause_changed" \in Reasons \ {"open"} /\ ClosingReason(verdict) \in Reasons \ {"open"}
  BY DEF Reasons, ClosingReason
<1> DEFINE wanted == DesiredKind(verdict)
           fresh  == [kind |-> wanted, reason |-> "open"]
<1>4. wanted # NoKind => fresh \in Incident
  BY DEF DesiredKind, HealthKinds, NoKind, Incident, Kinds, Reasons
<1>5. wanted # NoKind => Continues(log, Append(Close(log, "cause_changed"), fresh))
  <2> HIDE DEF fresh, wanted
  <2> QED  BY <1>2, <1>3, <1>4, AppendContinues
<1>6. \/ Reconcile(log, verdict) = log
      \/ /\ wanted # NoKind
         /\ Reconcile(log, verdict) = Append(Close(log, "cause_changed"), fresh)
      \/ Reconcile(log, verdict) = Close(log, ClosingReason(verdict))
  BY DEF Reconcile
<1> QED  BY <1>1, <1>2, <1>3, <1>5, <1>6

\* The transition continues the log of every camera.
LEMMA TransitionContinues ==
  ASSUME TypeOK, NEW cams, NEW late, NEW verdict \in [Cameras -> Verdicts],
         RecordTransition(cams, verdict, late), NEW c \in Cameras
  PROVE  Continues(incidents[c], incidents'[c])
<1>1. incidents[c] \in Seq(Incident) /\ verdict[c] \in Verdicts
  BY DEF TypeOK
<1>2. incidents'[c] = IF c \in cams THEN Reconcile(incidents[c], verdict[c]) ELSE incidents[c]
  BY DEF RecordTransition
<1>3. Continues(incidents[c], incidents[c])
  BY DEF Continues
<1> QED  BY <1>1, <1>2, <1>3, ReconcileContinues

LEMMA OperatorContinues ==
  ASSUME TypeOK, NEW x \in Cameras, NEW early, NEW on, NEW rows, NEW b, NEW gone,
         OperatorTransition(x, early, on, rows, b, gone), NEW c \in Cameras
  PROVE  Continues(incidents[c], incidents'[c])
<1> DEFINE verdict == [y \in Cameras |-> Verdict(on, rows, b, y)]
<1>1. verdict \in [Cameras -> Verdicts]
  BY VerdictType
<1>2. PICK late \in SUBSET Cameras : RecordTransition({x}, verdict, late)
  BY DEF OperatorTransition, Overtaken
<1> HIDE DEF verdict
<1> QED  BY <1>1, <1>2, TransitionContinues

LEMMA NextContinues ==
  ASSUME TypeOK, Next, NEW c \in Cameras, phase'[c] # "removed"
  PROVE  Continues(incidents[c], incidents'[c])
<1>1. /\ incidents \in [Cameras -> Seq(Incident)] /\ incidents[c] \in Seq(Incident)
      /\ Continues(incidents[c], incidents[c])
  BY DEF TypeOK, Continues
<1>2. CASE UNCHANGED incidents
  BY <1>1, <1>2
<1>3. ASSUME NEW x \in Cameras, Operator(x) PROVE Continues(incidents[c], incidents'[c])
  <2>1. CASE Unadopt(x)
    <3>1. phase'[x] = "removed"
      BY <2>1 DEF Unadopt, TypeOK
    <3>2. incidents'[c] = incidents[c]
      BY <1>1, <2>1, <3>1 DEF Unadopt
    <3> QED  BY <1>1, <3>2
  <2>2. ASSUME NEW quiet \in BOOLEAN, SetSilenced(x, quiet)
        PROVE  Continues(incidents[c], incidents'[c])
    BY <1>2, <2>2 DEF SetSilenced
  <2>3. ASSUME \/ \E offered \in (SUBSET Tokens) \ {{}} : \E roles \in [Roles -> offered] :
                    Adopt(x, offered, roles)
               \/ \E on \in BOOLEAN : SetCameraEnabled(x, on)
               \/ ReplaceCameraCredentials(x)
               \/ \E on \in SUBSET Tokens : \E roles \in [Roles -> on] :
                    SetStreamSettings(x, on, roles)
        PROVE  Continues(incidents[c], incidents'[c])
    BY <2>3, OperatorContinues
       DEF Adopt, SetCameraEnabled, ReplaceCameraCredentials, SetStreamSettings
  <2> QED  BY <1>3, <2>1, <2>2, <2>3 DEF Operator
<1>4. ASSUME NEW x \in Cameras, Recovery(x) PROVE Continues(incidents[c], incidents'[c])
  <2>1. ASSUME NEW tokens \in SUBSET Tokens, UpdateProfileSources(x, tokens)
        PROVE  Continues(incidents[c], incidents'[c])
    BY <2>1, OperatorContinues DEF UpdateProfileSources
  <2>2. CASE OpenAddressIncident(x)
    <3> DEFINE e == [kind |-> AddressKind, reason |-> "open"]
    <3>1. e \in Incident
      BY DEF Incident, Kinds, Reasons
    <3>2. incidents'[c] = IF c = x THEN Append(incidents[c], e) ELSE incidents[c]
      BY <1>1, <2>2 DEF OpenAddressIncident
    <3> HIDE DEF e
    <3> QED  BY <1>1, <3>1, <3>2, AppendContinues
  <2>3. ASSUME NEW n \in 1..MaxIncidents, ResolveAddressIncident(x, n)
        PROVE  Continues(incidents[c], incidents'[c])
    <3> DEFINE e == [incidents[x][n] EXCEPT !.reason = "stream_recovered"]
    <3>1. /\ n \in DOMAIN incidents[x] /\ incidents[x][n].reason = "open"
          /\ e.kind = incidents[x][n].kind
      BY <2>3 DEF ResolveAddressIncident
    <3>2. incidents' = [incidents EXCEPT ![x] = [incidents[x] EXCEPT ![n] = e]]
      BY <2>3 DEF ResolveAddressIncident
    <3> HIDE DEF e
    <3>3. CASE c = x
      <4>1. incidents'[c] = [incidents[c] EXCEPT ![n] = e]
        BY <1>1, <3>2, <3>3
      <4> QED  BY <1>1, <3>1, <3>3, <4>1 DEF Continues
    <3>4. CASE c # x
      BY <1>1, <3>2, <3>4
    <3> QED  BY <3>3, <3>4
  <2> QED  BY <1>4, <2>1, <2>2, <2>3 DEF Recovery
<1>5. CASE Alerting
  BY <1>2, <1>5 DEF Alerting, SaveTelegramSettings, CompleteTelegramPairing, SettleAlert, ledger
<1>6. CASE Prober
  <2>1. ASSUME NEW hit \in SUBSET Streams, NEW results \in [hit -> Produced],
               ProbeCommit(results)
        PROVE  Continues(incidents[c], incidents'[c])
    <3> DEFINE base == [s \in DOMAIN results |-> IF s \in probe.first THEN probe.seen ELSE row[s]]
               rows == [s \in Streams |-> IF s \in DOMAIN results
                                          THEN FoldProbe(base[s], results[s]) ELSE row[s]]
               cams == {s[1] : s \in DOMAIN results \cup probe.first} \cap Adopted
               verdict == [y \in Cameras |-> Verdict(enabled, rows, binding, y)]
    <3>1. PICK late \in SUBSET Overtaken(cams, verdict) : RecordTransition(cams, verdict, late)
      BY <2>1 DEF ProbeCommit
    <3>2. verdict \in [Cameras -> Verdicts]
      BY VerdictType
    <3> HIDE DEF verdict, cams
    <3> QED  BY <3>1, <3>2, TransitionContinues
  <2> QED  BY <1>2, <1>6, <2>1 DEF Prober, ProbeBegin, ProbeRead, ProbeVanish, ledger
<1> QED  BY <1>3, <1>4, <1>5, <1>6 DEF Next

\* Whatever happens to a camera that is not removed, its closed incidents keep
\* the reason they were closed for, and no incident changes its kind or goes
\* (_reconcile_camera_incident, _resolve_incident).
THEOREM ClosedIncidentsStay == Spec => ClosedIncidentsAreFinal
<1> DEFINE Final == \A c \in Cameras : phase'[c] # "removed" =>
                      \A n \in DOMAIN incidents[c] :
                        /\ n \in DOMAIN incidents'[c]
                        /\ incidents'[c][n].kind = incidents[c][n].kind
                        /\ incidents[c][n].reason # "open" => incidents'[c][n] = incidents[c][n]
<1>1. TypeOK /\ [Next]_vars => [Final]_vars
  BY NextContinues DEF Continues
<1> QED  BY <1>1, TypeCorrect, PTL DEF Spec, ClosedIncidentsAreFinal
=============================================================================
