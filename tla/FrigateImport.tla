----------------------------- MODULE FrigateImport -----------------------------
(***************************************************************************)
(* Import of cameras that Frigate reads itself                             *)
(* (src/camadmiral/frigate_import.py): per camera the original entry is    *)
(* journaled, if need be switched off to free the camera's last connection *)
(* (a handoff), the camera is adopted, and the entry is rewritten to read  *)
(* CamAdmiral's relay. Whatever fails is restored from the journal: by the *)
(* import itself, by the next attempt, by the operator, or, for a handoff, *)
(* after a crash at startup. All of them hold FRIGATE_LOCK; operators edit *)
(* Frigate and CamAdmiral's cameras meanwhile.                             *)
(***************************************************************************)
EXTENDS Naturals

CONSTANTS
  Keys,         \* Frigate's camera keys, each with one physical camera
  MaxFaults,    \* bound: failed requests, lost answers, crashes of CamAdmiral
  MaxRequests   \* bound: operator actions, in CamAdmiral or in Frigate

ASSUME ImportAssumption == MaxFaults \in Nat /\ MaxRequests \in Nat

VARIABLES
  saved,      \* Frigate's saved entry: its form, and the operator's version (external)
  running,    \* the form of the entry that Frigate runs (external)
  journal,    \* frigate_import_links and frigate_import_handoffs
  row,        \* the camera's row of the latest preview's job
  camera,     \* the adopted camera: none, or disabled (off) or enabled (on)
  selected,   \* keys whose camera is selected and bound in this integration
  elsewhere,  \* keys whose camera is selected in another integration
  job,        \* the holder of FRIGATE_LOCK and where it is
  recovering, \* startup has not yet taken up the unfinished handoffs
  insisted,   \* ghost: cameras the operator enabled since a restoration disabled them
  troubled,   \* ghost: keys for which a request of recover_handoffs failed
  budget      \* what is left of the bounds

frigate == <<saved, running>>
database == <<journal, row, camera, selected, elsewhere>>
ghosts == <<insisted, troubled>>
vars == <<frigate, database, job, recovering, ghosts, budget>>

Forms == {"own", "paused", "managed"}
NoJournal == [state |-> "none", version |-> 0, handoff |-> FALSE, created |-> FALSE, linked |-> FALSE]
NoRow == [version |-> 0, usable |-> FALSE, camera |-> FALSE, created |-> FALSE,
          release |-> FALSE, applied |-> FALSE, config |-> "none"]
Idle == [op |-> "none", step |-> "none", at |-> {}, todo |-> {}, back |-> "none", handling |-> FALSE]

ImportSteps == {"prepare", "release", "releaseCheck", "releaseWrite", "releaseRestart", "releaseWait",
                "probe", "adopt", "link", "relay", "relayProbe", "apply", "applyCheck", "applyWrite",
                "applyRestart", "applyWait", "select", "activate"}
RestoreSteps == {"restore", "restoreDisable", "restoreWrite", "restoreMark", "restoreRestart", "restoreWait"}

\* Journals of the states after which a failed import is restored.
Pending(k) == journal[k].state \in {"releasing", "paused", "applying", "restored"}

\* Wrong on purpose: only journals of an entry that is known to be switched off.
UnfinishedPaused(k) == journal[k].handoff /\ journal[k].state \in {"paused", "applying"}

\* recover_handoffs: the journals it restores.
Unfinished(k) == journal[k].handoff /\ journal[k].state # "active"

Steps == {"none", "next"} \cup ImportSteps \cup RestoreSteps

Entries == [form : Forms, version : Nat \ {0}]
Journals == [state : {"none", "releasing", "paused", "applying", "active", "restored"},
             version : Nat, handoff : BOOLEAN, created : BOOLEAN, linked : BOOLEAN]
Rows == [version : Nat, usable : BOOLEAN, camera : BOOLEAN, created : BOOLEAN, release : BOOLEAN,
         applied : BOOLEAN, config : {"none", "unchanged", "restored", "required"}]
Jobs == [op : {"none", "import", "restore", "recover"}, step : Steps, at : SUBSET Keys, todo : SUBSET Keys,
         back : {"none", "probe", "relay", "relayProbe"}, handling : BOOLEAN]

\* Type invariant: a camera is selected only under a journal, an active journal
\* has its camera adopted and selected.
TypeOK ==
  /\ saved \in [Keys -> Entries] /\ running \in [Keys -> Forms]
  /\ journal \in [Keys -> Journals] /\ row \in [Keys -> Rows]
  /\ camera \in [Keys -> {"none", "off", "on"}]
  /\ selected \subseteq {k \in Keys : journal[k].state \in {"applying", "active"} /\ camera[k] # "none"}
  /\ \A k \in Keys : journal[k].state = "active" => k \in selected
  /\ elsewhere \subseteq {k \in Keys : camera[k] # "none"}
  /\ job \in Jobs
  /\ recovering \in BOOLEAN /\ insisted \subseteq Keys /\ troubled \subseteq Keys
  /\ budget \in [faults : 0..MaxFaults, requests : 0..MaxRequests]

Init ==
  /\ saved = [k \in Keys |-> [form |-> "own", version |-> 1]]
  /\ running = [k \in Keys |-> "own"]
  /\ journal = [k \in Keys |-> NoJournal] /\ row = [k \in Keys |-> NoRow]
  /\ camera \in [Keys -> {"none", "off", "on"}] /\ selected = {} /\ elsewhere = {}
  /\ job = Idle /\ recovering = TRUE /\ insisted = {} /\ troubled = {}
  /\ budget \in [faults : 0..MaxFaults, requests : 0..MaxRequests]

Spend(what) == budget[what] > 0 /\ budget' = [budget EXCEPT ![what] = @ - 1]

At(k, step) == job.at = {k} /\ job.step = step
Goto(step) == job' = [job EXCEPT !.step = step]
NextRow(k) == [job EXCEPT !.step = "next", !.at = {}, !.todo = @ \ {k}, !.handling = FALSE]

-----------------------------------------------------------------------------
(* Failures: an exception ends the row, the request or the attempt. *)

\* The except clause of execute, or of the restoration's caller. recover_handoffs
\* reports to the row of the job that wrote the journal, if it is the latest.
Raise(k) ==
  \/ /\ job.op = "import" /\ ~job.handling
     /\ job' = IF Pending(k) THEN [job EXCEPT !.step = "restore", !.handling = TRUE] ELSE NextRow(k)
     /\ UNCHANGED row
  \/ /\ job.op = "import" /\ job.handling
     /\ row' = [row EXCEPT ![k].config = "required"] /\ job' = NextRow(k)
  \/ job.op = "restore" /\ job' = Idle /\ UNCHANGED row
  \/ /\ job.op = "recover" /\ job' = NextRow(k)
     /\ row' = IF row[k].usable THEN [row EXCEPT ![k].config = "required"] ELSE row

Trouble(k) == troubled' = IF job.op = "recover" THEN troubled \cup {k} ELSE troubled

\* recover_handoffs tries again for a while when Frigate does not answer.
TryAgain == job.op = "recover" /\ Goto("restore") /\ UNCHANGED row

\* Any step of an import may find what it does not expect: an entry that has
\* changed, a source or a relay that does not deliver, a refused request.
ImportFails(k) ==
  /\ job.at = {k} /\ job.step \in ImportSteps /\ Raise(k)
  /\ UNCHANGED <<frigate, journal, camera, selected, elsewhere, recovering, ghosts, budget>>

\* A restoration fails on a request, or on a wait that ends without the capture.
RestoreFails(k) ==
  /\ job.at = {k} /\ job.step \in RestoreSteps \ {"restoreDisable", "restoreMark"}
  /\ \/ Spend("faults") /\ job.step \in {"restore", "restoreWrite"} /\ TryAgain /\ UNCHANGED troubled
     \/ Spend("faults") /\ Raise(k) /\ Trouble(k)
     \/ job.step = "restoreWait" /\ running[k] # "own" /\ Raise(k) /\ UNCHANGED <<troubled, budget>>
  /\ UNCHANGED <<frigate, journal, camera, selected, elsewhere, recovering, insisted>>

\* The process ends, and starts again; interrupt_jobs ends the job that ran.
Crash ==
  /\ Spend("faults") /\ job' = Idle /\ recovering' = TRUE
  /\ UNCHANGED <<frigate, database, ghosts>>

-----------------------------------------------------------------------------
(* Requests to Frigate. *)

\* _check_original: the entry is the one the preview read, or that entry paused.
Unchanged(k) ==
  saved[k] = [form |-> IF journal[k].handoff /\ journal[k].state \in {"paused", "applying"}
                       THEN "paused" ELSE "own",
              version |-> row[k].version]

Written(step) == CASE step = "releaseWrite" -> "paused" [] step = "applyWrite" -> "managed"
                   [] step = "restoreWrite" -> "own"
AfterWrite(step) == CASE step = "releaseWrite" -> "releaseRestart" [] step = "applyWrite" -> "applyRestart"
                      [] step = "restoreWrite" -> "restoreMark"

\* set_config, with the answer received or lost.
WriteEntry(k) ==
  /\ job.at = {k} /\ job.step \in {"releaseWrite", "applyWrite", "restoreWrite"}
  /\ saved' = [saved EXCEPT ![k] = [form |-> Written(job.step), version |-> journal[k].version]]
  /\ \/ Goto(AfterWrite(job.step)) /\ UNCHANGED <<row, troubled, budget>>
     \/ /\ Spend("faults")
        /\ (TryAgain /\ UNCHANGED troubled) \/ (Raise(k) /\ Trouble(k))
  /\ UNCHANGED <<running, journal, camera, selected, elsewhere, recovering, insisted>>

AfterRestart(step) == CASE step = "releaseRestart" -> "releaseWait" [] step = "applyRestart" -> "applyWait"
                        [] step = "restoreRestart" -> "restoreWait"

Restarted == running' = [k \in Keys |-> saved[k].form]

\* _restart: a lost answer leaves open whether Frigate restarts.
RestartFrigate(k) ==
  /\ job.at = {k} /\ job.step \in {"releaseRestart", "applyRestart", "restoreRestart"}
  /\ Goto(AfterRestart(job.step))
  /\ \/ Restarted /\ UNCHANGED <<troubled, budget>>
     \/ UNCHANGED running /\ Spend("faults") /\ Trouble(k)
  /\ UNCHANGED <<saved, database, recovering, insisted>>

-----------------------------------------------------------------------------
(* Import: execute. *)

\* A row begins; an unfinished attempt is restored before it is retried.
\* recover_handoffs takes its journals up in the same way.
BeginRow(k) ==
  /\ job.step = "next" /\ k \in job.todo
  /\ \/ /\ job.op = "import" /\ journal[k].state = "active"
        /\ row' = [row EXCEPT ![k].applied = TRUE] /\ job' = NextRow(k)
     \/ /\ job.op = "import" /\ journal[k].state = "none"
        /\ row' = [row EXCEPT ![k].config = "unchanged"]
        /\ job' = [job EXCEPT !.step = "prepare", !.at = {k}]
     \/ /\ Pending(k) /\ UNCHANGED row
        /\ job' = [job EXCEPT !.step = "restore", !.at = {k}]
  /\ UNCHANGED <<frigate, journal, camera, selected, elsewhere, recovering, ghosts, budget>>

EndJob ==
  /\ job.step = "next" /\ job.todo = {} /\ job' = Idle
  /\ UNCHANGED <<frigate, database, recovering, ghosts, budget>>

\* An adoption made by an earlier attempt for this key is used again.
Prepare(k) ==
  /\ At(k, "prepare") /\ Unchanged(k)
  /\ LET known == row[k].camera
         reused == ~known /\ camera[k] # "none"
         next == IF known \/ reused THEN "relay" ELSE "probe"
     IN /\ row' = [row EXCEPT ![k].camera = known \/ reused, ![k].created = @ \/ ~known]
        /\ job' = IF row[k].release THEN [job EXCEPT !.step = "release", !.back = next]
                  ELSE [job EXCEPT !.step = next]
  /\ UNCHANGED <<frigate, journal, camera, selected, elsewhere, recovering, ghosts, budget>>

\* Wrong on purpose: the job still says that the configuration is unchanged.
ReleaseUnreported(k) ==
  /\ At(k, "release") /\ running[k] = "own" /\ Unchanged(k)
  /\ journal' = [journal EXCEPT ![k] = [state |-> "releasing", version |-> row[k].version, handoff |-> TRUE,
                                        created |-> row[k].created, linked |-> row[k].camera]]
  /\ row' = [row EXCEPT ![k].release = TRUE] /\ Goto("releaseCheck")
  /\ UNCHANGED <<frigate, camera, selected, elsewhere, recovering, ghosts, budget>>

\* _release_reader: only a reader that delivers is asked to let go.
Release(k) ==
  /\ At(k, "release") /\ running[k] = "own" /\ Unchanged(k)
  /\ journal' = [journal EXCEPT ![k] = [state |-> "releasing", version |-> row[k].version, handoff |-> TRUE,
                                        created |-> row[k].created, linked |-> row[k].camera]]
  /\ row' = [row EXCEPT ![k].release = TRUE, ![k].config = "required"]
  /\ Goto("releaseCheck")
  /\ UNCHANGED <<frigate, camera, selected, elsewhere, recovering, ghosts, budget>>

\* Wrong on purpose: the check at the start of the attempt has to do for the import's write.
RecheckReleaseOnly(k) ==
  /\ job.at = {k} /\ job.step \in {"releaseCheck", "applyCheck"}
  /\ job.step = "releaseCheck" => Unchanged(k)
  /\ Goto(IF job.step = "releaseCheck" THEN "releaseWrite" ELSE "applyWrite")
  /\ UNCHANGED <<frigate, database, recovering, ghosts, budget>>

\* The check right before a write.
Recheck(k) ==
  /\ job.at = {k} /\ job.step \in {"releaseCheck", "applyCheck"} /\ Unchanged(k)
  /\ Goto(IF job.step = "releaseCheck" THEN "releaseWrite" ELSE "applyWrite")
  /\ UNCHANGED <<frigate, database, recovering, ghosts, budget>>

\* Frigate runs without the camera: the import goes on where it stopped, unless
\* the saved entry has changed meanwhile.
Released(k) ==
  /\ At(k, "releaseWait") /\ running[k] = "paused"
  /\ journal' = [journal EXCEPT ![k].state = "paused"]
  /\ job' = IF saved[k] = [form |-> "paused", version |-> row[k].version]
            THEN [job EXCEPT !.step = job.back, !.back = "none"]
            ELSE [job EXCEPT !.step = "restore", !.back = "none", !.handling = TRUE]
  /\ UNCHANGED <<frigate, row, camera, selected, elsewhere, recovering, ghosts, budget>>

\* The camera answers the probe, directly or through the relay, or, without a
\* handoff so far, refuses one more connection.
Probe(k) ==
  /\ job.at = {k} /\ job.step \in {"probe", "relayProbe"}
  /\ \/ Goto(IF job.step = "probe" THEN "adopt" ELSE "apply")
     \/ journal[k].state = "none" /\ job' = [job EXCEPT !.step = "release", !.back = job.step]
  /\ UNCHANGED <<frigate, database, recovering, ghosts, budget>>

Adopt(k) ==
  /\ At(k, "adopt") /\ camera[k] = "none"
  /\ camera' = [camera EXCEPT ![k] = "on"] /\ Goto("link")
  /\ UNCHANGED <<frigate, journal, row, selected, elsewhere, recovering, ghosts, budget>>

\* The journal of a handoff and the job learn of the adoption.
LinkAdopted(k) ==
  /\ At(k, "link") /\ Goto("relay")
  /\ journal' = IF journal[k].handoff THEN [journal EXCEPT ![k].linked = TRUE] ELSE journal
  /\ row' = [row EXCEPT ![k].camera = TRUE]
  /\ UNCHANGED <<frigate, camera, selected, elsewhere, recovering, ghosts, budget>>

\* A camera of the import's own is enabled; a matched one must not have changed.
PrepareRelay(k) ==
  /\ At(k, "relay") /\ camera[k] # "none" /\ (row[k].created \/ camera[k] = "on")
  /\ camera' = [camera EXCEPT ![k] = "on"] /\ Goto("relayProbe")
  /\ UNCHANGED <<frigate, journal, row, selected, elsewhere, recovering, ghosts, budget>>

\* build_managed, and the journal of what will be written.
Apply(k) ==
  /\ At(k, "apply") /\ camera[k] = "on"
  /\ journal' = [journal EXCEPT ![k] = [state |-> "applying", version |-> row[k].version,
                                        handoff |-> journal[k].handoff, created |-> row[k].created,
                                        linked |-> TRUE]]
  /\ row' = [row EXCEPT ![k].config = "required"]
  /\ Goto("applyCheck")
  /\ UNCHANGED <<frigate, camera, selected, elsewhere, recovering, ghosts, budget>>

\* Frigate runs the new inputs and receives video, and the saved entry is still ours.
AppliedRuns(k) ==
  /\ At(k, "applyWait") /\ running[k] = "managed"
  /\ saved[k] = [form |-> "managed", version |-> row[k].version]
  /\ Goto("select")
  /\ UNCHANGED <<frigate, database, recovering, ghosts, budget>>

Select(k) ==
  /\ At(k, "select") /\ camera[k] # "none"
  /\ selected' = selected \cup {k} /\ Goto("activate")
  /\ UNCHANGED <<frigate, journal, row, camera, elsewhere, recovering, ghosts, budget>>

Activate(k) ==
  /\ At(k, "activate")
  /\ journal' = [journal EXCEPT ![k].state = "active"]
  /\ row' = [row EXCEPT ![k].applied = TRUE, ![k].config = "none"]
  /\ job' = NextRow(k)
  /\ UNCHANGED <<frigate, camera, selected, elsewhere, recovering, ghosts, budget>>

-----------------------------------------------------------------------------
(* Restoration: restore. *)

\* What the caller does after a restoration that succeeded.
Resume(k) ==
  \/ /\ job.op = "import" /\ ~job.handling
     /\ row' = [row EXCEPT ![k].config = "restored"] /\ Goto("prepare")
  \/ /\ job.op = "import" /\ job.handling
     /\ row' = [row EXCEPT ![k].config = "restored"] /\ job' = NextRow(k)
  \/ job.op = "restore" /\ job' = Idle /\ UNCHANGED row
  \/ /\ job.op = "recover" /\ job' = NextRow(k)
     /\ row' = IF row[k].usable THEN [row EXCEPT ![k].config = "restored"] ELSE row

Recognised(k) == saved[k].version = journal[k].version

\* Without a handoff, an entry that is the original already needs no more.
Skippable(k) == ~journal[k].handoff /\ saved[k].form = "own"

\* An entry the operator has edited is left alone.
RestoreRefused(k) ==
  /\ At(k, "restore") /\ ~Recognised(k) /\ Raise(k)
  /\ UNCHANGED <<frigate, journal, camera, selected, elsewhere, recovering, ghosts, budget>>

RestoreSkipped(k) ==
  /\ At(k, "restore") /\ Recognised(k) /\ Skippable(k)
  /\ selected' = selected \ {k} /\ journal' = [journal EXCEPT ![k] = NoJournal] /\ Resume(k)
  /\ UNCHANGED <<frigate, camera, elsewhere, recovering, ghosts, budget>>

RestoreRead(k) ==
  /\ At(k, "restore") /\ Recognised(k) /\ ~Skippable(k)
  /\ Goto(IF journal[k].handoff /\ journal[k].created THEN "restoreDisable" ELSE "restoreWrite")
  /\ UNCHANGED <<frigate, database, recovering, ghosts, budget>>

\* Wrong on purpose: an adoption is known from the journal only.
HasRelayInJournal(k) == journal[k].linked

\* The import's own camera lets go of the source; the journal may not know of it yet.
HasRelay(k) == journal[k].linked \/ camera[k] # "none"

\* Wrong on purpose: the binding is released only when the journal is deleted.
RestoreMarkBound(k) ==
  /\ At(k, "restoreMark") /\ Goto("restoreRestart")
  /\ journal' = [journal EXCEPT ![k].state = "restored", ![k].linked = HasRelay(k)]
  /\ UNCHANGED <<frigate, row, camera, selected, elsewhere, recovering, ghosts, budget>>

RestoreDisable(k) ==
  /\ At(k, "restoreDisable")
  /\ \/ /\ HasRelay(k) /\ k \in elsewhere /\ Raise(k) /\ UNCHANGED <<journal, camera, insisted>>
     \/ /\ HasRelay(k) /\ k \notin elsewhere /\ Goto("restoreWrite") /\ UNCHANGED row
        /\ camera' = [camera EXCEPT ![k] = IF @ = "on" THEN "off" ELSE @]
        /\ insisted' = insisted \ {k} /\ UNCHANGED journal
     \/ ~HasRelay(k) /\ Goto("restoreWrite") /\ UNCHANGED <<journal, row, camera, insisted>>
  /\ UNCHANGED <<frigate, selected, elsewhere, recovering, troubled, budget>>

RestoreMark(k) ==
  /\ At(k, "restoreMark") /\ Goto("restoreRestart")
  /\ selected' = selected \ {k}
  /\ journal' = [journal EXCEPT ![k].state = "restored", ![k].linked = HasRelay(k)]
  /\ UNCHANGED <<frigate, row, camera, elsewhere, recovering, ghosts, budget>>

RestoredRuns(k) ==
  /\ At(k, "restoreWait") /\ running[k] = "own"
  /\ journal' = [journal EXCEPT ![k] = NoJournal] /\ Resume(k)
  /\ UNCHANGED <<frigate, camera, selected, elsewhere, recovering, ghosts, budget>>

\* recover_handoffs, in a thread of the startup.
Recover ==
  /\ job = Idle /\ recovering
  /\ recovering' = FALSE /\ troubled' = {}
  /\ job' = [Idle EXCEPT !.op = "recover", !.step = "next", !.todo = {k \in Keys : Unfinished(k)}]
  /\ UNCHANGED <<frigate, database, insisted, budget>>

-----------------------------------------------------------------------------
(* Requests of operators. *)

\* preview: a camera is usable if it is new, or matches one that is enabled.
Preview ==
  /\ Spend("requests") /\ job = Idle
  /\ row' = [k \in Keys |-> [NoRow EXCEPT !.version = saved[k].version,
                                          !.usable = journal[k] = NoJournal /\ camera[k] # "off",
                                          !.camera = camera[k] # "none"]]
  /\ UNCHANGED <<frigate, journal, camera, selected, elsewhere, job, recovering, ghosts>>

\* apply_frigate_import; start_job clears what an earlier attempt reported.
Import(K) ==
  /\ Spend("requests") /\ job = Idle /\ K # {}
  /\ \A k \in K : row[k].usable /\ ~row[k].applied
  /\ row' = [k \in Keys |-> IF k \in K THEN [row[k] EXCEPT !.config = "none"] ELSE row[k]]
  /\ job' = [Idle EXCEPT !.op = "import", !.step = "next", !.todo = K]
  /\ UNCHANGED <<frigate, journal, camera, selected, elsewhere, recovering, ghosts>>

\* rollback_frigate_import.
RestoreImport(k) ==
  /\ Spend("requests") /\ job = Idle /\ journal[k] # NoJournal
  /\ job' = [Idle EXCEPT !.op = "restore", !.step = "restore", !.at = {k}]
  /\ UNCHANGED <<frigate, database, recovering, ghosts>>

SetEnabled(k) ==
  /\ Spend("requests") /\ camera[k] # "none"
  /\ camera' = [camera EXCEPT ![k] = IF @ = "on" THEN "off" ELSE "on"]
  /\ insisted' = IF camera[k] = "off" THEN insisted \cup {k} ELSE insisted
  /\ UNCHANGED <<frigate, journal, row, selected, elsewhere, job, recovering, troubled>>

\* unadopt_camera is refused while the import has a journal.
Unadopt(k) ==
  /\ Spend("requests") /\ job = Idle /\ camera[k] # "none" /\ journal[k] = NoJournal
  /\ camera' = [camera EXCEPT ![k] = "none"] /\ elsewhere' = elsewhere \ {k}
  /\ insisted' = insisted \ {k}
  /\ UNCHANGED <<frigate, journal, row, selected, job, recovering, troubled>>

\* The camera is selected in another integration, or no longer.
SelectElsewhere(k) ==
  /\ Spend("requests") /\ job = Idle /\ camera[k] # "none"
  /\ elsewhere' = IF k \in elsewhere THEN elsewhere \ {k} ELSE elsewhere \cup {k}
  /\ UNCHANGED <<frigate, journal, row, camera, selected, job, recovering, ghosts>>

\* The operator edits the entry in Frigate, or restarts Frigate.
Edit(k) ==
  /\ Spend("requests") /\ saved' = [saved EXCEPT ![k].version = @ + 1]
  /\ UNCHANGED <<running, database, job, recovering, ghosts>>

FrigateRestarts ==
  /\ Spend("requests") /\ Restarted
  /\ UNCHANGED <<saved, database, job, recovering, ghosts>>

-----------------------------------------------------------------------------
ImportStep(k) ==
  \/ Prepare(k) \/ Release(k) \/ Recheck(k) \/ Released(k) \/ Probe(k) \/ Adopt(k) \/ LinkAdopted(k)
  \/ PrepareRelay(k) \/ Apply(k) \/ AppliedRuns(k) \/ Select(k) \/ Activate(k)

RestoreStep(k) ==
  \/ RestoreRefused(k) \/ RestoreSkipped(k) \/ RestoreRead(k) \/ RestoreDisable(k)
  \/ RestoreMark(k) \/ RestoredRuns(k)

Advance ==
  \/ EndJob
  \/ \E k \in Keys : BeginRow(k) \/ WriteEntry(k) \/ RestartFrigate(k) \/ ImportStep(k) \/ RestoreStep(k)
                     \/ ImportFails(k) \/ RestoreFails(k)

Operator ==
  \/ Preview \/ (\E K \in SUBSET Keys : Import(K)) \/ FrigateRestarts
  \/ \E k \in Keys : RestoreImport(k) \/ SetEnabled(k) \/ Unadopt(k) \/ SelectElsewhere(k) \/ Edit(k)

Next == Advance \/ Recover \/ Operator \/ Crash

\* Every request and wait of the holder of the lock ends, in success or in an
\* error, and a freed lock goes to the thread that waits for it.
Fairness == WF_vars(Advance) /\ WF_vars(Recover)

Spec == Init /\ [][Next]_vars /\ Fairness

-----------------------------------------------------------------------------
\* Refinement: the import keeps what Takeover promises. The entry has been seen
\* when the holder of the lock is about to write it.
Seen == {k \in Keys : job.at = {k} /\ job.step \in {"releaseWrite", "applyWrite", "restoreDisable", "restoreWrite"}}

Kept == [k \in Keys |-> journal[k].version]

Promise == INSTANCE Takeover WITH entry <- saved, kept <- Kept, seen <- Seen

Implements == Promise!TakeoverSpec

\* Reader comes back: when the original entry of a handoff has been put back, the
\* camera this import adopted does not hold the source's last connection, unless
\* the operator enabled it since (restore, docs/frigate-import.md).
ReaderComesBack ==
  \A k \in Keys : journal[k].state = "restored" /\ journal[k].handoff /\ journal[k].created /\ k \notin insisted
                  => camera[k] # "on"

\* Results are true: a finished job that says "unchanged" or "restored" of a
\* camera says so of an entry that is the operator's, even after crashes.
ResultsAreTrue ==
  \A k \in Keys : job = Idle /\ row[k].config \in {"unchanged", "restored"} => saved[k].form = "own"

Hindered(k) == saved[k].version # journal[k].version \/ k \in elsewhere \/ k \in troubled

\* Handoffs end: after a crash in a handoff, startup brings the original reader
\* back, unless the operator edited the entry, another integration uses the
\* relay, or Frigate fails again (recover_handoffs).
HandoffsEnd ==
  \A k \in Keys : recovering /\ job = Idle /\ Unfinished(k) ~> Hindered(k) \/ (journal[k].state = "none" /\ running[k] = "own")
=============================================================================
