---------------------------- MODULE MCScanService ----------------------------
(***************************************************************************)
(* Bounded instances of ScanService for TLC: the operator asks for         *)
(* something, or processes end; streams of one camera fail, while any may  *)
(* be missed by a scan.                                                    *)
(***************************************************************************)
EXTENDS ScanService

MishapInit ==
  /\ Init
  /\ budget \in {[faults |-> MaxFaults, requests |-> 0],
                 [faults |-> 0, requests |-> MaxRequests]}

Troubled == CHOOSE c \in Cameras : TRUE

TroubledNext == Next /\ failing' \subseteq {Troubled}

MishapSpec == MishapInit /\ [][TroubledNext]_vars /\ Fairness
=============================================================================
