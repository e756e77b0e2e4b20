--------------------------- MODULE MCCameraHealth ---------------------------
(***************************************************************************)
(* Bounded instances of CameraHealth for TLC. The state splits into parts  *)
(* that meet only in the verdict, so three runs look at it closely from    *)
(* their sides: two streams and every request that changes rows, roles or  *)
(* settings, without the outbox, once with transactions that file their    *)
(* events in any order (HistorySpec) and once with more incidents instead  *)
(* (StreamsSpec); and one stream with every request that touches incidents *)
(* or the outbox (AlertsSpec).                                             *)
(***************************************************************************)
EXTENDS CameraHealth, TLC

TokenSymmetry == Permutations(Tokens)

\* Here a probe reads every source it can: the results it commits may be
\* those of any part of them.
ProbeAll ==
  \/ ProbeBegin(Observable)
  \/ \E s \in Streams : ProbeRead(s)
  \/ ProbeVanish
  \/ \E hit \in SUBSET Streams : \E results \in [hit -> Produced] :
       ProbeCommit(results)

StreamSteps ==
  \/ \E c \in Cameras :
       \/ \E offered \in (SUBSET Tokens) \ {{}} :
            \E roles \in [Roles -> offered] : Adopt(c, offered, roles)
       \/ Unadopt(c)
       \/ \E on \in BOOLEAN : SetCameraEnabled(c, on)
       \/ ReplaceCameraCredentials(c)
       \/ \E on \in SUBSET Tokens : \E roles \in [Roles -> on] :
            SetStreamSettings(c, on, roles)
       \/ \E tokens \in SUBSET Tokens : UpdateProfileSources(c, tokens)
  \/ ProbeAll

HistorySpec == Init /\ [][StreamSteps]_vars

StreamsNext == StreamSteps /\ hidden' = hidden

StreamsSpec == Init /\ [][StreamsNext]_vars

AlertSteps ==
  \/ \E c \in Cameras :
       \/ \E t \in Tokens : phase[c] = "candidate" /\ Adopt(c, {t}, [r \in Roles |-> t])
       \/ Unadopt(c)
       \/ \E on \in BOOLEAN : SetCameraEnabled(c, on)
       \/ \E quiet \in BOOLEAN : SetSilenced(c, quiet)
       \/ OpenAddressIncident(c)
       \/ \E n \in 1..MaxIncidents : ResolveAddressIncident(c, n)
  \/ Alerting
  \/ Prober

AlertsNext == AlertSteps /\ hidden' = hidden

AlertsSpec == Init /\ [][AlertsNext]_vars
=============================================================================
