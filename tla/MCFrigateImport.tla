--------------------------- MODULE MCFrigateImport ---------------------------
(***************************************************************************)
(* Bounded instance of FrigateImport for TLC. It starts when the operator  *)
(* of a CamAdmiral that has been running for a while has a preview, of     *)
(* one camera that is new and one that matches an adopted one.             *)
(***************************************************************************)
EXTENDS FrigateImport

First == CHOOSE k \in Keys : TRUE

PreviewedInit ==
  /\ saved = [k \in Keys |-> [form |-> "own", version |-> 1]]
  /\ running = [k \in Keys |-> "own"]
  /\ journal = [k \in Keys |-> NoJournal]
  /\ camera = [k \in Keys |-> IF k = First THEN "none" ELSE "on"]
  /\ selected = {} /\ elsewhere = {}
  /\ job = Idle /\ recovering = FALSE /\ insisted = {} /\ troubled = {}
  /\ row = [k \in Keys |-> [NoRow EXCEPT !.version = 1, !.usable = TRUE, !.camera = camera[k] = "on"]]
  /\ budget = [faults |-> MaxFaults, requests |-> MaxRequests]

PreviewedSpec == PreviewedInit /\ [][Next]_vars /\ Fairness
=============================================================================
