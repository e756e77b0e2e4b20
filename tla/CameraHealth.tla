---------------------------- MODULE CameraHealth ----------------------------
(***************************************************************************)
(* The health bookkeeping of CameraRepository (src/camadmiral/storage.py): *)
(* stream rows, role bindings, the newest health event of each camera, its *)
(* incidents and the alert rows they put in the notification outbox.       *)
(*                                                                         *)
(* Every operation below is one SQLite write transaction of the code.      *)
(* Two things happen before the write lock and matter. The timestamp of a  *)
(* transaction is taken (_now), so that it may be older than an event that *)
(* another one commits first: a transition takes the cameras for which it  *)
(* comes late. And record_probe_results reads the row of its first stream, *)
(* so it is split into ProbeBegin (the sources are read), ProbeRead and    *)
(* ProbeCommit, and operator requests interleave with the three.           *)
(***************************************************************************)
EXTENDS HealthRules, Sequences, FiniteSets

CONSTANTS
  Cameras,       \* camera_uuids; a uuid is never used again after removal
  Tokens,        \* profile tokens; <<camera, token>> names a managed stream
  NoToken,       \* a role without a consumer_bindings row
  MaxIncidents   \* bound: incidents one camera may accumulate

ASSUME CameraHealthAssumption ==
  /\ NoToken \notin Tokens
  /\ MaxIncidents \in Nat

Roles == {"record", "detect"}
Streams == Cameras \X Tokens

AddressKind == "camera_address_changed"
Kinds == HealthKinds \cup {AddressKind}
Reasons == {"open", "recovered", "operator_disabled", "cause_changed",
            "stream_recovered"}
Incident == [kind : Kinds, reason : Reasons]   \* reason "open": resolved_at IS NULL
Events == {"incident_opened", "incident_resolved"}
\* An outbox row is named by its idempotency key; the nth incident of a
\* camera stands for its incident_uuid.
AlertKeys == Cameras \X (1..MaxIncidents) \X Events

VARIABLES
  phase,      \* "candidate", "adopted" or "removed"
  enabled,    \* cameras.enabled
  silenced,   \* cameras.notifications_silenced
  custom,     \* cameras.stream_settings_custom
  streams,    \* tokens of the camera that have a managed_streams row
  served,     \* the ones with managed_streams.enabled = 1
  row,        \* health columns of each managed stream
  binding,    \* consumer_bindings: the token of each role
  incidents,  \* camera_incidents, in the order they were opened
  queue,      \* outbox rows in status pending or retry
  settled,    \* outbox rows in status sent or failed
  telegram,   \* notification_settings: enabled, and chat_id present
  lastEvent,  \* verdict of the newest camera_health_events row by observed_at
  hidden,     \* verdict of the event that the camera's last transition filed
              \* below the newest one, "none" if it filed none there
  probe       \* the record_probe_results call under way

config  == <<phase, enabled, silenced, custom, streams, served, binding>>
ledger  == <<incidents, queue, settled>>
history == <<lastEvent, hidden>>
vars == <<config, row, ledger, telegram, history, probe>>

NoProbe == [step |-> "idle", streams |-> {}, first |-> {}, seen |-> FreshRow]

\* Type invariant: the rows the transactions of CameraRepository leave behind.
TypeOK ==
  /\ phase \in [Cameras -> {"candidate", "adopted", "removed"}]
  /\ enabled \in SUBSET Cameras
  /\ silenced \in SUBSET Cameras
  /\ custom \in SUBSET Cameras
  /\ streams \in [Cameras -> SUBSET Tokens]
  /\ served \in [Cameras -> SUBSET Tokens]
  /\ row \in [Streams -> StreamRow]
  /\ binding \in [Cameras -> [Roles -> Tokens \cup {NoToken}]]
  /\ incidents \in [Cameras -> Seq(Incident)]
  /\ \A c \in Cameras : Len(incidents[c]) <= MaxIncidents
  /\ queue \in SUBSET AlertKeys
  /\ settled \in SUBSET AlertKeys
  /\ telegram \in [on : BOOLEAN, paired : BOOLEAN]
  /\ lastEvent \in [Cameras -> Verdicts \cup {"none"}]
  /\ hidden \in [Cameras -> Verdicts \cup {"none"}]
  /\ probe \in [step : {"idle", "watching", "saving"}, streams : SUBSET Streams,
                first : SUBSET Streams, seen : StreamRow]

Init ==
  /\ phase = [c \in Cameras |-> "candidate"]
  /\ enabled = {} /\ silenced = {} /\ custom = {}
  /\ streams = [c \in Cameras |-> {}]
  /\ served = [c \in Cameras |-> {}]
  /\ row = [s \in Streams |-> FreshRow]
  /\ binding = [c \in Cameras |-> [r \in Roles |-> NoToken]]
  /\ incidents = [c \in Cameras |-> <<>>]
  /\ queue = {} /\ settled = {}
  /\ telegram = [on |-> FALSE, paired |-> FALSE]
  /\ lastEvent = [c \in Cameras |-> "none"]
  /\ hidden = [c \in Cameras |-> "none"]
  /\ probe = NoProbe

-----------------------------------------------------------------------------
(***************************************************************************)
(* The transition every health-changing transaction ends with.             *)
(***************************************************************************)
Adopted == {c \in Cameras : phase[c] = "adopted"}

Bound(b) == {b[r] : r \in Roles} \ {NoToken}

\* _camera_health_state, on the rows the transaction is about to commit.
Verdict(on, rows, b, c) ==
  HealthVerdict(c \in on, {rows[<<c, t>>].health : t \in Bound(b[c])})

OpenHealth(log) ==
  {n \in DOMAIN log : log[n].kind \in HealthKinds /\ log[n].reason = "open"}

\* Wrong on purpose: rewrites the reason of incidents closed long ago.
CloseEvery(log, reason) ==
  [n \in DOMAIN log |->
     IF log[n].kind \in HealthKinds THEN [log[n] EXCEPT !.reason = reason] ELSE log[n]]

\* _resolve_incident on the open health incident (an index makes it unique).
Close(log, reason) ==
  [n \in DOMAIN log |->
     IF n \in OpenHealth(log) THEN [log[n] EXCEPT !.reason = reason] ELSE log[n]]

\* Wrong on purpose: an open incident of the other kind is left alone.
ReconcileAnyOpen(log, verdict) ==
  LET wanted == DesiredKind(verdict)
  IN  IF wanted # NoKind
      THEN IF OpenHealth(log) # {} THEN log
           ELSE Append(log, [kind |-> wanted, reason |-> "open"])
      ELSE IF verdict \in Closing THEN Close(log, ClosingReason(verdict))
      ELSE log

\* _reconcile_camera_incident.
Reconcile(log, verdict) ==
  LET wanted == DesiredKind(verdict)
  IN  IF wanted # NoKind
      THEN IF \E n \in OpenHealth(log) : log[n].kind = wanted
           THEN log
           ELSE Append(Close(log, "cause_changed"), [kind |-> wanted, reason |-> "open"])
      ELSE IF verdict \in Closing THEN Close(log, ClosingReason(verdict))
      ELSE log

\* Wrong on purpose: the per-camera silence is not consulted.
AlertableUnlessOff(c) == telegram.on /\ telegram.paired

\* The guards of _enqueue_incident_notification.
Alertable(c) == telegram.on /\ telegram.paired /\ c \notin silenced

\* Wrong on purpose: every resolution is announced.
NewAlertsUnpaired(c, before, after) ==
  {<<c, n, "incident_opened">> : n \in DOMAIN after \ DOMAIN before}
  \cup {<<c, n, "incident_resolved">> :
          n \in {m \in DOMAIN before : before[m].reason = "open" /\ after[m].reason # "open"}}

\* _enqueue_incident_notification for every incident the step opens or
\* resolves: a resolution is announced only if its opening was.
NewAlerts(c, before, after) ==
  {<<c, n, "incident_opened">> : n \in DOMAIN after \ DOMAIN before}
  \cup {<<c, n, "incident_resolved">> :
          n \in {m \in DOMAIN before :
                   /\ before[m].reason = "open"
                   /\ after[m].reason # "open"
                   /\ <<c, m, "incident_opened">> \in queue \cup settled}}

Enqueue(after) ==
  /\ queue' = queue \cup
       (UNION {IF Alertable(c) THEN NewAlerts(c, incidents[c], after[c]) ELSE {} :
                 c \in Cameras} \ settled)
  /\ UNCHANGED settled

\* Wrong on purpose: an event is added only when the state column changes, so
\* "partial" and "degraded" (both state "degraded") are not told apart.
RecordEventsByState(cams, verdict, late) ==
  LET state(v) == IF v = "partial" THEN "degraded" ELSE v
      told == {c \in cams : state(verdict[c]) # state(lastEvent[c])}
  IN  /\ lastEvent' = [c \in Cameras |->
                         IF c \in told \ late THEN verdict[c] ELSE lastEvent[c]]
      /\ hidden' = [c \in Cameras |->
                      IF c \in told \cap late THEN verdict[c]
                      ELSE IF c \in cams THEN "none" ELSE hidden[c]]

\* An event is added where the verdict differs from the newest event, under
\* the timestamp of the transaction: it becomes the newest one unless a later
\* timestamp was committed first.
RecordEvents(cams, verdict, late) ==
  /\ lastEvent' = [c \in Cameras |->
                     IF c \in cams \ late THEN verdict[c] ELSE lastEvent[c]]
  /\ hidden' = [c \in Cameras |->
                  IF c \in cams \cap late /\ verdict[c] # lastEvent[c] THEN verdict[c]
                  ELSE IF c \in cams THEN "none" ELSE hidden[c]]

\* _record_camera_health_transition for the cameras in cams.
RecordTransition(cams, verdict, late) ==
  /\ RecordEvents(cams, verdict, late)
  /\ incidents' = [c \in Cameras |->
                     IF c \in cams THEN Reconcile(incidents[c], verdict[c])
                     ELSE incidents[c]]
  /\ \A c \in Cameras : Len(incidents'[c]) <= MaxIncidents
  /\ Enqueue(incidents')

\* The cameras whose event may come late when the transaction was stamped
\* before it got the write lock: how long a request or a prober waits for the
\* lock, and how many wait, is not bounded.
Overtaken(cams, verdict) == {c \in cams : lastEvent[c] \notin {"none", verdict[c]}}

\* The transition of an operator's transaction on one camera, which took its
\* timestamp early unless it took it under the lock; the streams it deletes
\* are no longer there for a waiting probe.
OperatorTransition(c, early, on, rows, b, gone) ==
  LET verdict == [x \in Cameras |-> Verdict(on, rows, b, x)]
  IN  /\ \E late \in SUBSET (IF early THEN Overtaken({c}, verdict) ELSE {}) :
           RecordTransition({c}, verdict, late)
      /\ probe' = [probe EXCEPT !.streams = @ \ gone]

Reset(tokens, c) ==
  [s \in Streams |-> IF s[1] = c /\ s[2] \in tokens THEN FreshRow ELSE row[s]]

-----------------------------------------------------------------------------
(***************************************************************************)
(* Operator requests and the recovery worker.                              *)
(***************************************************************************)
\* Wrong on purpose: a new login always rebinds to the roles just derived.
RolesAlwaysDerived(c, roles) == roles

\* Which streams the roles are bound to after an adoption.
RolesAfterAdopt(c, roles) == IF c \in custom THEN binding[c] ELSE roles

\* adopt: a first adoption, or a new login that re-reads the profiles. With
\* custom stream settings the saved roles win and must still be offered; a
\* profile that is no longer offered goes, unless its stream is disabled.
Adopt(c, offered, roles) ==
  LET kept    == offered \cup (streams[c] \ served[c])
      gone    == streams[c] \ kept
      added   == offered \ streams[c]
  IN  /\ phase[c] # "removed"
      /\ c \in custom => Bound(binding[c]) \subseteq offered
      /\ phase' = [phase EXCEPT ![c] = "adopted"]
      /\ enabled' = IF phase[c] = "adopted" THEN enabled ELSE enabled \cup {c}
      /\ streams' = [streams EXCEPT ![c] = kept]
      /\ served' = [served EXCEPT ![c] = (@ \cap kept)
                                   \cup (IF c \in custom THEN {} ELSE added)]
      /\ binding' = [binding EXCEPT ![c] = RolesAfterAdopt(c, roles)]
      /\ row' = Reset(offered \cup gone, c)
      /\ OperatorTransition(c, TRUE, enabled', row', binding', {c} \X gone)
      /\ UNCHANGED <<silenced, custom, telegram>>

\* unadopt_camera: everything of the camera cascades away, except outbox rows,
\* which lose their incident but stay deliverable.
Unadopt(c) ==
  /\ phase[c] = "adopted"
  /\ phase' = [phase EXCEPT ![c] = "removed"]
  /\ enabled' = enabled \ {c}
  /\ silenced' = silenced \ {c}
  /\ custom' = custom \ {c}
  /\ streams' = [streams EXCEPT ![c] = {}]
  /\ served' = [served EXCEPT ![c] = {}]
  /\ binding' = [binding EXCEPT ![c] = [r \in Roles |-> NoToken]]
  /\ row' = Reset(Tokens, c)
  /\ incidents' = [incidents EXCEPT ![c] = <<>>]
  /\ lastEvent' = [lastEvent EXCEPT ![c] = "none"]
  /\ hidden' = [hidden EXCEPT ![c] = "none"]
  /\ probe' = [probe EXCEPT !.streams = @ \ ({c} \X Tokens)]
  /\ UNCHANGED <<queue, settled, telegram>>

SetCameraEnabled(c, on) ==
  /\ phase[c] = "adopted"
  /\ enabled' = IF on THEN enabled \cup {c} ELSE enabled \ {c}
  /\ OperatorTransition(c, TRUE, enabled', row, binding, {})
  /\ UNCHANGED <<phase, silenced, custom, streams, served, binding, row, telegram>>

ReplaceCameraCredentials(c) ==
  /\ phase[c] = "adopted"
  /\ row' = Reset(streams[c], c)
  /\ OperatorTransition(c, TRUE, enabled, row', binding, {})
  /\ UNCHANGED <<config, telegram>>

\* set_stream_settings, the one transaction that is stamped under its lock.
SetStreamSettings(c, on, roles) ==
  /\ phase[c] = "adopted"
  /\ streams[c] # {}
  /\ on \subseteq streams[c]
  /\ Bound(roles) \subseteq on
  /\ served' = [served EXCEPT ![c] = on]
  /\ binding' = [binding EXCEPT ![c] = roles]
  /\ custom' = custom \cup {c}
  /\ OperatorTransition(c, FALSE, enabled, row, binding', {})
  /\ UNCHANGED <<phase, enabled, silenced, streams, row, telegram>>

\* update_profile_sources, by address recovery and by its rollback.
UpdateProfileSources(c, tokens) ==
  /\ phase[c] = "adopted"
  /\ tokens # {} /\ tokens \subseteq streams[c]
  /\ row' = Reset(tokens, c)
  /\ OperatorTransition(c, TRUE, enabled, row', binding, {})
  /\ UNCHANGED <<config, telegram>>

\* open_camera_address_incident: an open one is only refreshed.
OpenAddressIncident(c) ==
  /\ phase[c] = "adopted"
  /\ \A n \in DOMAIN incidents[c] : incidents[c][n].kind = AddressKind
                                      => incidents[c][n].reason # "open"
  /\ Len(incidents[c]) < MaxIncidents
  /\ incidents' = [incidents EXCEPT
                     ![c] = Append(@, [kind |-> AddressKind, reason |-> "open"])]
  /\ Enqueue(incidents')
  /\ UNCHANGED <<config, row, telegram, history, probe>>

\* resolve_camera_address_incident.
ResolveAddressIncident(c, n) ==
  /\ n \in DOMAIN incidents[c]
  /\ incidents[c][n] = [kind |-> AddressKind, reason |-> "open"]
  /\ incidents' = [incidents EXCEPT ![c][n].reason = "stream_recovered"]
  /\ Enqueue(incidents')
  /\ UNCHANGED <<config, row, telegram, history, probe>>

\* set_camera_notifications_silenced: silencing drops the queued alerts.
SetSilenced(c, quiet) ==
  /\ phase[c] = "adopted"
  /\ silenced' = IF quiet THEN silenced \cup {c} ELSE silenced \ {c}
  /\ queue' = IF quiet THEN {k \in queue : k[1] # c} ELSE queue
  /\ UNCHANGED <<phase, enabled, custom, streams, served, binding, row, incidents,
                 settled, telegram, history, probe>>

\* save_telegram_settings: the first save needs a bot token, a new token
\* forgets the chat, and the app always saves alerts as enabled. It writes
\* back the chat it read before (TelegramPairing), and may forget one
\* paired since.
SaveTelegramSettings(replacing, stale) ==
  /\ replacing \/ telegram.on
  /\ telegram' = [on |-> TRUE, paired |-> telegram.paired /\ ~replacing /\ ~stale]
  /\ UNCHANGED <<config, row, ledger, history, probe>>

CompleteTelegramPairing ==
  /\ telegram.on
  /\ telegram' = [telegram EXCEPT !.paired = TRUE]
  /\ UNCHANGED <<config, row, ledger, history, probe>>

\* The delivery loop is done with a row, sent or failed for good; retries
\* reorder rows, so any queued row may be next (AlertDelivery has the loop).
SettleAlert(k) ==
  /\ k \in queue
  /\ queue' = queue \ {k}
  /\ settled' = settled \cup {k}
  /\ UNCHANGED <<config, row, incidents, telegram, history, probe>>

-----------------------------------------------------------------------------
(***************************************************************************)
(* record_probe_results, with the reading of the sources before it.        *)
(***************************************************************************)
\* What managed_stream_sources can return to a prober: the served streams of
\* enabled cameras, or the bound streams of one the operator is enabling.
Observable ==
  {s \in Streams : /\ phase[s[1]] = "adopted"
                   /\ \/ s[1] \in enabled /\ s[2] \in served[s[1]]
                      \/ s[2] \in Bound(binding[s[1]])}

ProbeBegin(sources) ==
  /\ probe.step = "idle"
  /\ sources # {} /\ sources \subseteq Observable
  /\ probe' = [NoProbe EXCEPT !.step = "watching", !.streams = sources]
  /\ UNCHANGED <<config, row, ledger, telegram, history>>

\* The SELECT of the first stream still in the table, in autocommit mode:
\* the transaction opens at the first UPDATE.
ProbeRead(s) ==
  /\ probe.step = "watching"
  /\ s \in probe.streams
  /\ probe' = [probe EXCEPT !.step = "saving", !.first = {s}, !.seen = row[s]]
  /\ UNCHANGED <<config, row, ledger, telegram, history>>

\* Every stream was removed meanwhile: nothing is written.
ProbeVanish ==
  /\ probe.step = "watching"
  /\ probe.streams = {}
  /\ probe' = NoProbe
  /\ UNCHANGED <<config, row, ledger, telegram, history>>

\* The transaction: the UPDATE of every observed stream that still exists,
\* then the transition of every camera touched.
ProbeCommit(results) ==
  LET hit    == DOMAIN results
      base   == [s \in hit |-> IF s \in probe.first THEN probe.seen ELSE row[s]]
      rows   == [s \in Streams |->
                   IF s \in hit THEN FoldProbe(base[s], results[s]) ELSE row[s]]
      cams   == {s[1] : s \in hit \cup probe.first} \cap Adopted
      verdict == [x \in Cameras |-> Verdict(enabled, rows, binding, x)]
  IN  /\ probe.step = "saving"
      /\ hit \subseteq probe.streams
      /\ probe.first \cap probe.streams \subseteq hit
      /\ row' = rows
      /\ \E late \in SUBSET Overtaken(cams, verdict) :
           RecordTransition(cams, verdict, late)
      /\ probe' = NoProbe
      /\ UNCHANGED <<config, telegram>>

Operator(c) ==
  \/ \E offered \in (SUBSET Tokens) \ {{}} :
       \E roles \in [Roles -> offered] : Adopt(c, offered, roles)
  \/ Unadopt(c)
  \/ \E on \in BOOLEAN : SetCameraEnabled(c, on)
  \/ ReplaceCameraCredentials(c)
  \/ \E on \in SUBSET Tokens : \E roles \in [Roles -> on] :
       SetStreamSettings(c, on, roles)
  \/ \E quiet \in BOOLEAN : SetSilenced(c, quiet)

Recovery(c) ==
  \/ \E tokens \in SUBSET Tokens : UpdateProfileSources(c, tokens)
  \/ OpenAddressIncident(c)
  \/ \E n \in 1..MaxIncidents : ResolveAddressIncident(c, n)

Alerting ==
  \/ \E replacing, stale \in BOOLEAN : SaveTelegramSettings(replacing, stale)
  \/ CompleteTelegramPairing
  \/ \E k \in AlertKeys : SettleAlert(k)

Prober ==
  \/ \E sources \in SUBSET Streams : ProbeBegin(sources)
  \/ \E s \in Streams : ProbeRead(s)
  \/ ProbeVanish
  \/ \E hit \in SUBSET Streams : \E results \in [hit -> Produced] :
       ProbeCommit(results)

Next == (\E c \in Cameras : Operator(c) \/ Recovery(c)) \/ Alerting \/ Prober

Spec == Init /\ [][Next]_vars

-----------------------------------------------------------------------------
(***************************************************************************)
(* Properties.                                                             *)
(***************************************************************************)
CurrentVerdict(c) == Verdict(enabled, row, binding, c)

\* The health incident of an adopted camera agrees with its bound streams
\* whatever transaction ran last: exactly one of the right kind is open while
\* the camera is offline or refuses the login, none while it is healthy or
\* disabled, never more than one; address incidents do not interfere. Every
\* transaction that touches a health column, a binding or the enabled flag
\* has to end with _record_camera_health_transition for this to hold.
Tracks(log, verdict) ==
  LET wanted == DesiredKind(verdict)
  IN  /\ \A m, n \in OpenHealth(log) : m = n
      /\ wanted # NoKind => \E n \in OpenHealth(log) : log[n].kind = wanted
      /\ verdict \in Closing => OpenHealth(log) = {}

IncidentsTrackHealth ==
  \A c \in Adopted : Tracks(incidents[c], CurrentVerdict(c))

\* Record and Detect stay usable through every mix of re-adoption and stream
\* settings: an adopted camera has both roles bound, to streams that exist
\* and are served, and without custom settings all its streams are served.
\* A bound stream that is not served would never be probed again.
BindingsServed ==
  \A c \in Adopted :
    /\ \A r \in Roles : binding[c][r] \in served[c]
    /\ served[c] \subseteq streams[c]
    /\ c \notin custom => served[c] = streams[c]

\* The history never misses a change of health: of an adopted camera the
\* newest event is the health of its bound streams, or the transaction that
\* last wrote the camera came late and has filed that health below it.
\* Every transaction that touches health, bindings or the enabled flag has to
\* end with the transition, whatever the order of stamps and commits, and the
\* comparison with the newest event has to be of state and reason.
HistoryTracksHealth ==
  \A c \in Adopted :
    CurrentVerdict(c) = IF hidden[c] = "none" THEN lastEvent[c] ELSE hidden[c]

\* Nothing is queued for a silenced camera: set_camera_notifications_silenced
\* drops what was queued and no later transaction adds to it.
SilencedHasNothingQueued == \A k \in queue : k[1] \notin silenced

\* A recovery alert waits in the outbox only together with the alert it
\* answers: silencing, pairing changes and deliveries in any order never
\* leave a "recovered" about an outage the operator was not told of.
ResolutionFollowsOpening ==
  \A c \in Cameras, n \in 1..MaxIncidents :
    <<c, n, "incident_resolved">> \in queue
      => <<c, n, "incident_opened">> \in queue \cup settled

\* A closed incident is history: while its camera exists no step reopens it,
\* changes its kind or rewrites the reason it was closed for.
ClosedIncidentsAreFinal ==
  [][\A c \in Cameras : phase'[c] # "removed" =>
       \A n \in DOMAIN incidents[c] :
         /\ n \in DOMAIN incidents'[c]
         /\ incidents'[c][n].kind = incidents[c][n].kind
         /\ incidents[c][n].reason # "open" => incidents'[c][n] = incidents[c][n]]_vars
=============================================================================
