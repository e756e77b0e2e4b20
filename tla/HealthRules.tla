---------------------------- MODULE HealthRules ----------------------------
(***************************************************************************)
(* The pure rules that turn observations into camera health                *)
(* (src/camadmiral/storage.py): how one probe result changes a stream row, *)
(* how the rows of the bound streams become the verdict on a camera, and   *)
(* which incident a verdict calls for.                                     *)
(***************************************************************************)
EXTENDS Naturals

\* consecutive_failures at which a stream is degraded and then offline.
DegradedAfter == 2
OfflineAfter  == 3

StreamHealth == {"unknown", "healthy", "degraded", "offline", "auth_failed"}

\* The statuses a ProbeResult can carry; every failure other than a refused
\* login ("timeout", "invalid_media", "error" ...) is "unavailable" here.
ProbeStatus == {"ready", "idle", "auth_failed", "unavailable"}

\* The statuses media.py produces ("idle" is accepted but never produced).
Produced == ProbeStatus \ {"idle"}

\* The health columns of a managed_streams row. The failure counter is kept
\* exactly up to OfflineAfter, where it saturates: the code compares it with
\* nothing larger.
StreamRow == [health : StreamHealth, failures : 0..OfflineAfter]

FreshRow == [health |-> "unknown", failures |-> 0]

CountFailure(n) == IF n < OfflineAfter THEN n + 1 ELSE OfflineAfter

HealthAfter(row, status, failures) ==
  IF status = "ready" THEN "healthy"
  ELSE IF status = "idle" THEN "unknown"
  ELSE IF status = "auth_failed" THEN "auth_failed"
  ELSE IF failures >= OfflineAfter THEN "offline"
  ELSE IF failures >= DegradedAfter THEN "degraded"
  ELSE IF row.health = "healthy" THEN "healthy" ELSE "unknown"

\* One probe result folded into the row it was read against.
FoldProbe(row, status) ==
  LET failures == IF status \in {"ready", "idle"} THEN 0
                  ELSE CountFailure(row.failures)
  IN  [health |-> HealthAfter(row, status, failures), failures |-> failures]

-----------------------------------------------------------------------------
(***************************************************************************)
(* The verdict on a camera is the pair (state, reason) of a health event.  *)
(* A reason occurs with one state only, so one name stands for the pair:   *)
(* "partial" is ("degraded", "partial_stream_failure") and "degraded" is   *)
(* ("degraded", "media_probe_failed").                                     *)
(***************************************************************************)
Verdicts == {"disabled", "unknown", "auth_failed", "healthy", "offline",
             "partial", "degraded"}

\* healths is the set of health columns of the streams bound to a role.
HealthVerdict(isEnabled, healths) ==
  LET observed == healths \ {"unknown"}
  IN  IF ~isEnabled THEN "disabled"
      ELSE IF observed = {} THEN "unknown"
      ELSE IF "auth_failed" \in observed THEN "auth_failed"
      ELSE IF observed = {"healthy"} THEN "healthy"
      ELSE IF healths = {"offline"} THEN "offline"
      ELSE IF "offline" \in observed THEN "partial"
      ELSE "degraded"

HealthKinds == {"media_offline", "authentication_failed"}
NoKind == "none"

\* The incident a verdict asks to be open, if any.
DesiredKind(verdict) ==
  CASE verdict = "offline"     -> "media_offline"
    [] verdict = "auth_failed" -> "authentication_failed"
    [] OTHER                   -> NoKind

\* Verdicts that close whatever health incident is open, and why. Every other
\* verdict without a desired kind leaves an open incident as it is.
Closing == {"healthy", "disabled"}
ClosingReason(verdict) ==
  IF verdict = "healthy" THEN "recovered" ELSE "operator_disabled"
=============================================================================
