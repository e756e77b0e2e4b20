---------------------------- MODULE MCRelayMonitor ----------------------------
(* Bounded instances of RelayMonitor for TLC. *)
EXTENDS RelayMonitor, TLC

\* All streams belong to one camera.
Siblings == [s \in Streams |-> CHOOSE c \in Cameras : TRUE]

\* The cycles themselves.
CycleNext ==
  \/ CycleBegin \/ CycleFails
  \/ \E lapsed \in SUBSET Timed(attempted) : Observe(lapsed)
  \/ \E refused \in SUBSET cycle.asked : CycleRecord(refused)
  \/ \E s \in Streams : \E result \in Results : SnapshotEnds(s, result)

\* Cycles while nothing is changed.
CycleSpec == Init /\ [][CycleNext]_vars /\ Fairness
=============================================================================
