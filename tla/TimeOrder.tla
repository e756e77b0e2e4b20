------------------------------ MODULE TimeOrder ------------------------------
(***************************************************************************)
(* When things were last done or fall due: the code keeps a time for each  *)
(* and compares them (RECOVERY_SCAN_ATTEMPTS, _frame_probe_attempts, the   *)
(* next_attempt column). What comparing shows is a set of pairs: <<a, b>>  *)
(* when the time of a is not after the time of b, <<a, a>> when a has one. *)
(***************************************************************************)

\* What has a time.
Timed(order) == {pair[1] : pair \in order}

\* The times of those kept.
Kept(order, kept) == order \cap (kept \X kept)

\* The members of set get the present time, which is later than all others.
Stamped(order, set) ==
  Kept(order, Timed(order) \ set) \cup ((Timed(order) \cup set) \X set)

\* What never had a time goes first.
NotAfter(order, a, b) == a \notin Timed(order) \/ <<a, b>> \in order

\* Any two times compare, and comparing is transitive.
IsTimeOrder(order) ==
  /\ order \subseteq Timed(order) \X Timed(order)
  /\ \A a, b \in Timed(order) : <<a, b>> \in order \/ <<b, a>> \in order
  /\ \A a, b, c \in Timed(order) :
       <<a, b>> \in order /\ <<b, c>> \in order => <<a, c>> \in order
=============================================================================
