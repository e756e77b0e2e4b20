--------------------------- MODULE MonitoredCameras ---------------------------
(***************************************************************************)
(* What the loops of RelayHealthMonitor (src/camadmiral/media.py) share:   *)
(* the health columns of role-bound streams, the settings their sources    *)
(* are read from, the operator requests that change both without taking    *)
(* MEDIA_LOCK, and the cameras themselves. AuthRetry and RelayMonitor add  *)
(* a loop each.                                                            *)
(***************************************************************************)
EXTENDS HealthRules, FiniteSets

CONSTANTS
  Streams,      \* role-bound streams
  Cameras,
  CameraOf,     \* the camera of each stream
  Logins,       \* credentials; the code compares them with ==
  Capacity      \* workers of a pool of checks or snapshots; at most 4 in the code

ASSUME CamerasAssumption ==
  /\ IsFiniteSet(Streams)
  /\ CameraOf \in [Streams -> Cameras]
  /\ Capacity \in Nat \ {0}

VARIABLES
  row,       \* health columns of each stream
  login,     \* credentials stored for each camera
  accepted,  \* credentials each camera accepts now (external)
  on         \* enabled cameras

settings == <<login, accepted, on>>

CamerasTypeOK ==
  /\ row \in [Streams -> StreamRow]
  /\ login \in [Cameras -> Logins]
  /\ accepted \in [Cameras -> Logins]
  /\ on \in SUBSET Cameras

CamerasInit ==
  /\ login \in [Cameras -> Logins]
  /\ accepted = login
  /\ on = Cameras

\* The camera would let the stored credentials in.
Working(s) == login[CameraOf[s]] = accepted[CameraOf[s]]

\* managed_stream_sources(role_bound_only=True): the served streams.
Sources == {s \in Streams : CameraOf[s] \in on}

\* The health columns record_probe_results leaves behind.
RowsAfter(results) ==
  [s \in Streams |-> IF s \in DOMAIN results THEN FoldProbe(row[s], results[s])
                     ELSE row[s]]

\* The answers of reconcile_and_probe, which runs after runtime drift or a
\* change of any camera: it probes every stream through the relay, refused
\* ones too; up are the streams the relay serves.
RelayAnswers(up) == [s \in Sources |-> IF s \in up THEN "ready" ELSE "unavailable"]

-----------------------------------------------------------------------------
\* replace_camera_credentials, with a login the camera was seen to accept;
\* it may be the one that is stored already.
ReplaceCredentials(c) ==
  /\ login' = [login EXCEPT ![c] = accepted[c]]
  /\ row' = [s \in Streams |-> IF CameraOf[s] = c THEN FreshRow ELSE row[s]]
  /\ UNCHANGED <<accepted, on>>

SwitchOff(c) ==
  /\ c \in on
  /\ on' = on \ {c}
  /\ UNCHANGED <<row, login, accepted>>

\* A request to enable first probes the saved sources of the camera directly,
\* records the answers, and goes on only if all of them are good.
StreamsOf(c) == {s \in Streams : CameraOf[s] = c}

SwitchOn(c, answers) ==
  /\ c \notin on
  /\ DOMAIN answers = StreamsOf(c)
  /\ \A s \in StreamsOf(c) : answers[s] = "ready" => Working(s)
  /\ \A s \in StreamsOf(c) : answers[s] = "auth_failed" => ~Working(s)
  /\ on' = IF \A s \in StreamsOf(c) : answers[s] = "ready" THEN on \cup {c} ELSE on
  /\ row' = RowsAfter(answers)
  /\ UNCHANGED <<login, accepted>>

\* Someone changes the password on the camera itself.
ChangePassword(c, l) ==
  /\ l # accepted[c]
  /\ accepted' = [accepted EXCEPT ![c] = l]
  /\ UNCHANGED <<row, login, on>>
=============================================================================
