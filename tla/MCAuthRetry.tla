---------------------------- MODULE MCAuthRetry ----------------------------
(* Bounded instances of AuthRetry for TLC. *)
EXTENDS AuthRetry, TLC

\* All streams belong to one camera.
Siblings == [s \in Streams |-> CHOOSE c \in Cameras : TRUE]
=============================================================================
