---------------------------- MODULE MCFrigateSync ----------------------------
(***************************************************************************)
(* Bounded instances of FrigateSync for TLC. They start some time after    *)
(* the integration was added: one camera is synchronised, and the operator *)
(* has chosen whether Frigate records it.                                  *)
(***************************************************************************)
EXTENDS FrigateSync

First == CHOOSE c \in Cameras : TRUE

OfFirst(value, others) == [c \in Cameras |-> IF c = First THEN value ELSE others]

EstablishedInit ==
  /\ adopted = Cameras /\ selected = {First} /\ enabled = Cameras
  /\ wanted = [c \in Cameras |-> 1] /\ conflict = {}
  /\ binding = OfFirst([status |-> "applied", desired |-> 1, applied |-> 1, on |-> TRUE], Unbound)
  /\ marker = [c \in Cameras |-> {}]
  /\ queued = {} /\ job = Idle
  /\ choice \in [Cameras -> BOOLEAN] /\ \A c \in Cameras \ {First} : choice[c]
  /\ entry = OfFirst([version |-> 1, on |-> TRUE, record |-> choice[First]], Absent)
  /\ alias = OfFirst(1, 0) /\ workers = OfFirst(1, 0)
  /\ starting = [c \in Cameras |-> 0] /\ crossed = {} /\ mine = {First}
  /\ budget \in [faults : 0..MaxFaults, requests : 0..MaxRequests]

EstablishedSpec == EstablishedInit /\ [][Next]_vars /\ Fairness
=============================================================================
