------------------------------- MODULE Takeover -------------------------------
(***************************************************************************)
(* What the import of Frigate cameras (src/camadmiral/frigate_import.py)   *)
(* promises about the entries of Frigate's saved configuration, whatever   *)
(* fails on the way: CamAdmiral replaces an entry only while it keeps the  *)
(* original, and only after it has seen that the entry is the original or  *)
(* its own; it gives the original up only when the entry is the operator's.*)
(***************************************************************************)
EXTENDS Naturals

CONSTANT Keys   \* Frigate's camera keys

VARIABLES
  entry,  \* the saved entry: whose form it has, and its version
  kept,   \* the version of the original that is kept, 0 if none is
  seen    \* entries found unchanged, and not yet written

takeover == <<entry, kept, seen>>

\* The operator's own entry, one switched off, and one that reads CamAdmiral's relay.
Forms == {"own", "paused", "managed"}

TakeoverTypeOK ==
  /\ entry \in [Keys -> [form : Forms, version : Nat \ {0}]]
  /\ kept \in [Keys -> Nat] /\ seen \subseteq Keys

TakeoverInit ==
  /\ entry = [k \in Keys |-> [form |-> "own", version |-> 1]]
  /\ kept = [k \in Keys |-> 0] /\ seen = {}

\* The operator edits an entry, of whichever form, at any time.
Edit(k) ==
  /\ entry' = [entry EXCEPT ![k].version = @ + 1]
  /\ UNCHANGED <<kept, seen>>

\* The journal is saved, with the original that the preview read.
Keep(k) ==
  /\ kept[k] = 0 /\ entry[k].form = "own"
  /\ \E v \in 1..entry[k].version : kept' = [kept EXCEPT ![k] = v]
  /\ UNCHANGED <<entry, seen>>

\* The entry is found to be the one kept, in one of its forms.
See(k) ==
  /\ kept[k] # 0 /\ entry[k].version = kept[k]
  /\ seen' = seen \cup {k}
  /\ UNCHANGED <<entry, kept>>

Write(k) ==
  /\ k \in seen /\ kept[k] # 0
  /\ \E f \in Forms : entry' = [entry EXCEPT ![k] = [form |-> f, version |-> kept[k]]]
  /\ seen' = seen \ {k}
  /\ UNCHANGED kept

\* An error, or a crash, before the write.
Forget(k) == k \in seen /\ seen' = seen \ {k} /\ UNCHANGED <<entry, kept>>

GiveUp(k) ==
  /\ kept[k] # 0 /\ entry[k].form = "own"
  /\ kept' = [kept EXCEPT ![k] = 0] /\ seen' = seen \ {k}
  /\ UNCHANGED entry

TakeoverNext == \E k \in Keys : Edit(k) \/ Keep(k) \/ See(k) \/ Write(k) \/ Forget(k) \/ GiveUp(k)

TakeoverSpec == TakeoverInit /\ [][TakeoverNext]_takeover

\* While an entry is not the operator's, the original is kept: it can always be
\* put back.
OriginalsAreKept == \A k \in Keys : entry[k].form # "own" => kept[k] # 0
=============================================================================
