-------------------------- MODULE FrigateImportProofs --------------------------
(***************************************************************************)
(* The import implements Takeover, for any number of cameras, failures and *)
(* requests. The inductive invariant says what journal there is at each    *)
(* step of the holder of FRIGATE_LOCK, and that no write meets an entry    *)
(* older than the one that a preview has read.                             *)
(***************************************************************************)
EXTENDS FrigateImport, TLAPS

Reading == {"probe", "adopt", "link", "relay", "relayProbe", "apply"}
Releasing == {"releaseCheck", "releaseWrite", "releaseRestart", "releaseWait"}
Applying == {"applyCheck", "applyWrite", "applyRestart", "applyWait", "select", "activate"}
Putting == {"restoreMark", "restoreRestart", "restoreWait"}
Backs == {"probe", "relay", "relayProbe"}

Typed ==
  /\ saved \in [Keys -> Entries] /\ journal \in [Keys -> Journals]
  /\ row \in [Keys -> Rows] /\ job \in Jobs

\* The journal that the step has.
StepJournal(k) ==
  job.at = {k} =>
    /\ job.step \in {"prepare", "release"} => journal[k].state = "none"
    /\ job.step \in Reading => journal[k].state \in {"none", "paused"}
    /\ job.step \in Releasing => journal[k].state = "releasing"
    /\ job.step \in Applying => journal[k].state = "applying"
    /\ job.step \in RestoreSteps => journal[k].state # "none"
    /\ job.step \in {"release"} \cup Releasing => job.back \in Backs

\* The versions that the step compares, and the entry after a restoring write.
StepVersions(k) ==
  job.at = {k} =>
    /\ job.step \in ImportSteps \ {"prepare"} => row[k].version # 0
    /\ job.step \in ImportSteps /\ journal[k].state # "none" => journal[k].version = row[k].version
    /\ job.step \in {"restoreDisable", "restoreWrite"} => row[k].version <= journal[k].version
    /\ job.step \in Putting => saved[k].form = "own"

KeyInv(k) ==
  /\ journal[k].state = "none" <=> journal[k] = NoJournal
  /\ journal[k].version = 0 <=> journal[k].state = "none"
  /\ saved[k].form # "own" => journal[k].state # "none"
  /\ row[k].version <= saved[k].version
  /\ StepJournal(k) /\ StepVersions(k)

ImportInv == Typed /\ \A k \in Keys : KeyInv(k)

-----------------------------------------------------------------------------
(* What a step does to the job. *)

LEMMA InitInv == Init => ImportInv
<1> SUFFICES ASSUME Init PROVE ImportInv
  OBVIOUS
<1>1. Idle \in Jobs /\ NoRow \in Rows /\ NoJournal \in Journals /\ [form |-> "own", version |-> 1] \in Entries
  BY DEF Idle, NoRow, NoJournal, Jobs, Rows, Journals, Entries, Steps, Forms
<1>2. Typed
  BY <1>1 DEF Init, Typed
<1>3. ASSUME NEW k \in Keys PROVE KeyInv(k)
  <2>1. job.at # {k} /\ journal[k] = NoJournal /\ saved[k] = [form |-> "own", version |-> 1]
    BY DEF Init, Idle
  <2>2. row[k].version = 0
    BY DEF Init, NoRow
  <2> QED
    BY <2>1, <2>2 DEF KeyInv, StepJournal, StepVersions, NoJournal
<1> QED
  BY <1>2, <1>3 DEF ImportInv

LEMMA GotoJob ==
  ASSUME job \in Jobs, NEW s \in Steps, Goto(s)
  PROVE  job' \in Jobs /\ job'.step = s /\ job'.at = job.at /\ job'.back = job.back
  BY DEF Goto, Jobs

LEMMA BackJob ==
  ASSUME job \in Jobs, NEW s \in Steps, NEW b \in {"none"} \cup Backs,
         job' = [job EXCEPT !.step = s, !.back = b]
  PROVE  job' \in Jobs /\ job'.step = s /\ job'.at = job.at /\ job'.back = b
  BY DEF Jobs, Backs

LEMMA IdleJob == Idle \in Jobs /\ Idle.at = {} /\ Idle.step = "none"
  BY DEF Idle, Jobs, Steps

LEMMA NextRowJob ==
  ASSUME job \in Jobs, NEW k \in Keys
  PROVE  NextRow(k) \in Jobs /\ NextRow(k).at = {} /\ NextRow(k).step = "next"
  BY DEF NextRow, Jobs, Steps

\* A report changes no version.
LEMMA ReportRow ==
  ASSUME row \in [Keys -> Rows], NEW k \in Keys, NEW c \in {"none", "unchanged", "restored", "required"},
         row' = [row EXCEPT ![k].config = c]
  PROVE  row' \in [Keys -> Rows] /\ \A j \in Keys : row'[j].version = row[j].version
  BY DEF Rows

LEMMA RaiseJob ==
  ASSUME Typed, NEW k \in Keys, job.at = {k}, Raise(k)
  PROVE  /\ job' \in Jobs /\ row' \in [Keys -> Rows]
         /\ \A j \in Keys : row'[j].version = row[j].version
         /\ job'.at = {} \/ (job'.at = {k} /\ job'.step = "restore" /\ Pending(k))
<1>1. job \in Jobs /\ row \in [Keys -> Rows]
  BY DEF Typed
<1>2. ASSUME Pending(k) PROVE LET j == [job EXCEPT !.step = "restore", !.handling = TRUE]
                              IN j \in Jobs /\ j.at = {k} /\ j.step = "restore"
  BY <1>1 DEF Jobs, Steps, RestoreSteps
<1>3. job' \in Jobs /\ (job'.at = {} \/ (job'.at = {k} /\ job'.step = "restore" /\ Pending(k)))
  BY <1>1, <1>2, NextRowJob, IdleJob DEF Raise
<1>4. row' = row \/ row' = [row EXCEPT ![k].config = "required"]
  BY DEF Raise
<1>5. row' \in [Keys -> Rows] /\ \A j \in Keys : row'[j].version = row[j].version
  BY <1>1, <1>4, ReportRow
<1> QED
  BY <1>3, <1>5

LEMMA ResumeJob ==
  ASSUME Typed, NEW k \in Keys, job.at = {k}, Resume(k)
  PROVE  /\ job' \in Jobs /\ row' \in [Keys -> Rows]
         /\ \A j \in Keys : row'[j].version = row[j].version
         /\ job'.at = {} \/ (job'.at = {k} /\ job'.step = "prepare")
<1>1. job \in Jobs /\ row \in [Keys -> Rows]
  BY DEF Typed
<1>2. "prepare" \in Steps
  BY DEF Steps, ImportSteps
<1>3. job' \in Jobs /\ (job'.at = {} \/ (job'.at = {k} /\ job'.step = "prepare"))
  BY <1>1, <1>2, NextRowJob, IdleJob, GotoJob DEF Resume
<1>4. row' = row \/ row' = [row EXCEPT ![k].config = "restored"]
  BY DEF Resume
<1>5. row' \in [Keys -> Rows] /\ \A j \in Keys : row'[j].version = row[j].version
  BY <1>1, <1>4, ReportRow
<1> QED
  BY <1>3, <1>5

\* A key that a step leaves alone, and is not at.
LEMMA KeyKept ==
  ASSUME NEW k \in Keys, KeyInv(k), saved'[k] = saved[k], journal'[k] = journal[k],
         row'[k].version = row[k].version, job'.at # {k}
  PROVE  KeyInv(k)'
  BY DEF KeyInv, StepJournal, StepVersions, NoJournal

\* A step at one key that leaves the others alone.
LEMMA OneKey ==
  ASSUME ImportInv, NEW k \in Keys, Typed', KeyInv(k)', job'.at \in {{}, {k}},
         \A j \in Keys \ {k} : /\ saved'[j] = saved[j] /\ journal'[j] = journal[j]
                               /\ row'[j].version = row[j].version
  PROVE  ImportInv'
<1>1. ASSUME NEW j \in Keys, j # k PROVE KeyInv(j)'
  <2>1. KeyInv(j) /\ job'.at # {j}
    BY <1>1 DEF ImportInv
  <2> QED
    BY <1>1, <2>1, KeyKept
<1> QED
  BY <1>1 DEF ImportInv

USE DEF Steps, ImportSteps, RestoreSteps, Reading, Releasing, Applying, Putting, Backs

-----------------------------------------------------------------------------
(* Every step keeps the invariant. *)

LEMMA PrepareInv == ASSUME ImportInv, NEW k \in Keys, Prepare(k) PROVE ImportInv'
<1>1. Typed /\ KeyInv(k) /\ saved[k] \in Entries /\ journal[k] \in Journals /\ row[k] \in Rows
  BY DEF ImportInv, Typed
<1>2. /\ job' \in Jobs /\ job'.at = {k}
      /\ job'.step \in {"probe", "relay"} \/ (job'.step = "release" /\ job'.back \in Backs)
  BY <1>1, GotoJob, BackJob DEF Prepare, At, Goto, Typed
<1>3. /\ row' \in [Keys -> Rows] /\ \A j \in Keys : row'[j].version = row[j].version
  BY <1>1 DEF Prepare, Typed, Rows
<1>4. saved' \in [Keys -> Entries] /\ journal' \in [Keys -> Journals] /\ row' \in [Keys -> Rows]
  BY <1>1, <1>2, <1>3 DEF Prepare, Typed, frigate, database
<1>5. KeyInv(k)'
  BY <1>1, <1>2, <1>3 DEF Prepare, At, Unchanged, KeyInv, StepJournal, StepVersions, frigate, database,
     Entries, Journals, Rows
<1>6. \A j \in Keys \ {k} : saved'[j] = saved[j] /\ journal'[j] = journal[j] /\ row'[j].version = row[j].version
  BY <1>1, <1>2, <1>3 DEF Prepare, Typed, frigate, database
<1> QED
  BY <1>1, <1>2, <1>4, <1>5, <1>6, OneKey DEF Typed

LEMMA ReleaseInv == ASSUME ImportInv, NEW k \in Keys, Release(k) PROVE ImportInv'
<1>1. Typed /\ KeyInv(k) /\ saved[k] \in Entries /\ journal[k] \in Journals /\ row[k] \in Rows
  BY DEF ImportInv, Typed
<1>2. job' \in Jobs /\ job'.at = {k} /\ job'.back = job.back /\ (job'.step = "releaseCheck")
  BY <1>1, GotoJob DEF Release, At, Typed
<1>3. /\ journal' \in [Keys -> Journals] /\ \A j \in Keys \ {k} : journal'[j] = journal[j]
      /\ journal'[k].state = "releasing" /\ journal'[k].version = row[k].version
  BY <1>1 DEF Release, Typed, Rows, Journals
<1>4. /\ row' \in [Keys -> Rows] /\ \A j \in Keys : row'[j].version = row[j].version
  BY <1>1 DEF Release, Typed, Rows
<1>5. saved' \in [Keys -> Entries] /\ journal' \in [Keys -> Journals] /\ row' \in [Keys -> Rows]
  BY <1>1, <1>2, <1>3, <1>4 DEF Release, Typed, frigate, database
<1>6. KeyInv(k)'
  BY <1>1, <1>2, <1>3, <1>4 DEF Release, At, NoJournal, KeyInv, StepJournal, StepVersions, frigate,
     database, Entries, Journals, Rows
<1>7. \A j \in Keys \ {k} : saved'[j] = saved[j] /\ journal'[j] = journal[j] /\ row'[j].version = row[j].version
  BY <1>1, <1>2, <1>3, <1>4 DEF Release, Typed, frigate, database
<1> QED
  BY <1>1, <1>2, <1>5, <1>6, <1>7, OneKey DEF Typed

LEMMA RecheckInv == ASSUME ImportInv, NEW k \in Keys, Recheck(k) PROVE ImportInv'
<1>1. Typed /\ KeyInv(k) /\ saved[k] \in Entries /\ journal[k] \in Journals /\ row[k] \in Rows
  BY DEF ImportInv, Typed
<1>2. job' \in Jobs /\ job'.at = {k} /\ job'.back = job.back
      /\ job'.step = IF job.step = "releaseCheck" THEN "releaseWrite" ELSE "applyWrite"
  BY <1>1, GotoJob DEF Recheck, Typed
<1>3. saved' \in [Keys -> Entries] /\ journal' \in [Keys -> Journals] /\ row' \in [Keys -> Rows]
  BY <1>1, <1>2 DEF Recheck, Typed, frigate, database
<1>4. KeyInv(k)'
  BY <1>1, <1>2 DEF Recheck, Goto, NoJournal, KeyInv, StepJournal, StepVersions, frigate, database,
     Entries, Journals, Rows
<1>5. \A j \in Keys \ {k} : saved'[j] = saved[j] /\ journal'[j] = journal[j] /\ row'[j].version = row[j].version
  BY <1>1, <1>2 DEF Recheck, Typed, frigate, database
<1> QED
  BY <1>1, <1>2, <1>3, <1>4, <1>5, OneKey DEF Typed

LEMMA ReleasedInv == ASSUME ImportInv, NEW k \in Keys, Released(k) PROVE ImportInv'
<1>1. Typed /\ KeyInv(k) /\ saved[k] \in Entries /\ journal[k] \in Journals /\ row[k] \in Rows
  BY DEF ImportInv, Typed
<1>2. /\ job' \in Jobs /\ job'.at = {k} /\ job'.step \in Backs \cup {"restore"}
  <2>1. job.at = {k} /\ job.step = "releaseWait" /\ job.back \in Backs /\ job \in Jobs
    BY <1>1 DEF Released, At, Typed, KeyInv, StepJournal
  <2>2. CASE job' = [job EXCEPT !.step = job.back, !.back = "none"]
    BY <2>1, <2>2, BackJob
  <2>3. CASE job' = [job EXCEPT !.step = "restore", !.back = "none", !.handling = TRUE]
    BY <2>1, <2>3 DEF Jobs
  <2> QED
    BY <2>2, <2>3 DEF Released
<1>3. /\ journal' \in [Keys -> Journals] /\ \A j \in Keys \ {k} : journal'[j] = journal[j]
      /\ journal'[k].state = "paused" /\ journal'[k].version = journal[k].version
  BY <1>1 DEF Released, Typed, Journals
<1>4. saved' \in [Keys -> Entries] /\ journal' \in [Keys -> Journals] /\ row' \in [Keys -> Rows]
  BY <1>1, <1>2, <1>3 DEF Released, Typed, frigate, database
<1>5. KeyInv(k)'
  BY <1>1, <1>2, <1>3 DEF Released, At, NoJournal, KeyInv, StepJournal, StepVersions, frigate,
     database, Entries, Journals, Rows
<1>6. \A j \in Keys \ {k} : saved'[j] = saved[j] /\ journal'[j] = journal[j] /\ row'[j].version = row[j].version
  BY <1>1, <1>2, <1>3 DEF Released, Typed, frigate, database
<1> QED
  BY <1>1, <1>2, <1>4, <1>5, <1>6, OneKey DEF Typed

LEMMA ProbeInv == ASSUME ImportInv, NEW k \in Keys, Probe(k) PROVE ImportInv'
<1>1. Typed /\ KeyInv(k) /\ saved[k] \in Entries /\ journal[k] \in Journals /\ row[k] \in Rows
  BY DEF ImportInv, Typed
<1>2. /\ job' \in Jobs /\ job'.at = {k}
      /\ job'.step \in {"adopt", "apply"} \/ (job'.step = "release" /\ job'.back \in Backs /\ journal[k].state = "none")
  BY <1>1, GotoJob, BackJob DEF Probe, Typed
<1>3. saved' \in [Keys -> Entries] /\ journal' \in [Keys -> Journals] /\ row' \in [Keys -> Rows]
  BY <1>1, <1>2 DEF Probe, Typed, frigate, database
<1>4. KeyInv(k)'
  BY <1>1, <1>2 DEF Probe, KeyInv, StepJournal, StepVersions, frigate, database, Entries, Journals, Rows
<1>5. \A j \in Keys \ {k} : saved'[j] = saved[j] /\ journal'[j] = journal[j] /\ row'[j].version = row[j].version
  BY <1>1, <1>2 DEF Probe, Typed, frigate, database
<1> QED
  BY <1>1, <1>2, <1>3, <1>4, <1>5, OneKey DEF Typed

LEMMA AdoptInv == ASSUME ImportInv, NEW k \in Keys, Adopt(k) PROVE ImportInv'
<1>1. Typed /\ KeyInv(k) /\ saved[k] \in Entries /\ journal[k] \in Journals /\ row[k] \in Rows
  BY DEF ImportInv, Typed
<1>2. job' \in Jobs /\ job'.at = {k} /\ job'.back = job.back /\ (job'.step = "link")
  BY <1>1, GotoJob DEF Adopt, At, Typed
<1>3. saved' \in [Keys -> Entries] /\ journal' \in [Keys -> Journals] /\ row' \in [Keys -> Rows]
  BY <1>1, <1>2 DEF Adopt, Typed, frigate, database
<1>4. KeyInv(k)'
  BY <1>1, <1>2 DEF Adopt, At, KeyInv, StepJournal, StepVersions, frigate, database, Entries, Journals,
     Rows
<1>5. \A j \in Keys \ {k} : saved'[j] = saved[j] /\ journal'[j] = journal[j] /\ row'[j].version = row[j].version
  BY <1>1, <1>2 DEF Adopt, Typed, frigate, database
<1> QED
  BY <1>1, <1>2, <1>3, <1>4, <1>5, OneKey DEF Typed

LEMMA LinkAdoptedInv == ASSUME ImportInv, NEW k \in Keys, LinkAdopted(k) PROVE ImportInv'
<1>1. Typed /\ KeyInv(k) /\ saved[k] \in Entries /\ journal[k] \in Journals /\ row[k] \in Rows
  BY DEF ImportInv, Typed
<1>2. job' \in Jobs /\ job'.at = {k} /\ job'.back = job.back /\ (job'.step = "relay")
  BY <1>1, GotoJob DEF LinkAdopted, At, Typed
<1>3. /\ journal' \in [Keys -> Journals] /\ \A j \in Keys \ {k} : journal'[j] = journal[j]
      /\ journal[k].state = "none" => journal'[k] = NoJournal
      /\ journal'[k].state = journal[k].state /\ journal'[k].version = journal[k].version
  <2>1. CASE journal[k].handoff
    <3>1. journal[k].state # "none"
      BY <1>1, <2>1 DEF KeyInv, NoJournal
    <3> QED
      BY <1>1, <2>1, <3>1 DEF LinkAdopted, Typed, Journals
  <2>2. CASE ~journal[k].handoff
    BY <1>1, <2>2 DEF LinkAdopted, Typed, KeyInv
  <2> QED
    BY <2>1, <2>2
<1>4. /\ row' \in [Keys -> Rows] /\ \A j \in Keys : row'[j].version = row[j].version
  BY <1>1 DEF LinkAdopted, Typed, Rows
<1>5. saved' \in [Keys -> Entries] /\ journal' \in [Keys -> Journals] /\ row' \in [Keys -> Rows]
  BY <1>1, <1>2, <1>3, <1>4 DEF LinkAdopted, Typed, frigate, database
<1>6. KeyInv(k)'
  BY <1>1, <1>2, <1>3, <1>4 DEF LinkAdopted, At, NoJournal, KeyInv, StepJournal, StepVersions, frigate,
     database, Entries, Journals, Rows
<1>7. \A j \in Keys \ {k} : saved'[j] = saved[j] /\ journal'[j] = journal[j] /\ row'[j].version = row[j].version
  BY <1>1, <1>2, <1>3, <1>4 DEF LinkAdopted, Typed, frigate, database
<1> QED
  BY <1>1, <1>2, <1>5, <1>6, <1>7, OneKey DEF Typed

LEMMA PrepareRelayInv == ASSUME ImportInv, NEW k \in Keys, PrepareRelay(k) PROVE ImportInv'
<1>1. Typed /\ KeyInv(k) /\ saved[k] \in Entries /\ journal[k] \in Journals /\ row[k] \in Rows
  BY DEF ImportInv, Typed
<1>2. job' \in Jobs /\ job'.at = {k} /\ job'.back = job.back /\ (job'.step = "relayProbe")
  BY <1>1, GotoJob DEF PrepareRelay, At, Typed
<1>3. saved' \in [Keys -> Entries] /\ journal' \in [Keys -> Journals] /\ row' \in [Keys -> Rows]
  BY <1>1, <1>2 DEF PrepareRelay, Typed, frigate, database
<1>4. KeyInv(k)'
  BY <1>1, <1>2 DEF PrepareRelay, At, KeyInv, StepJournal, StepVersions, frigate, database, Entries,
     Journals, Rows
<1>5. \A j \in Keys \ {k} : saved'[j] = saved[j] /\ journal'[j] = journal[j] /\ row'[j].version = row[j].version
  BY <1>1, <1>2 DEF PrepareRelay, Typed, frigate, database
<1> QED
  BY <1>1, <1>2, <1>3, <1>4, <1>5, OneKey DEF Typed

LEMMA ApplyInv == ASSUME ImportInv, NEW k \in Keys, Apply(k) PROVE ImportInv'
<1>1. Typed /\ KeyInv(k) /\ saved[k] \in Entries /\ journal[k] \in Journals /\ row[k] \in Rows
  BY DEF ImportInv, Typed
<1>2. job' \in Jobs /\ job'.at = {k} /\ job'.back = job.back /\ (job'.step = "applyCheck")
  BY <1>1, GotoJob DEF Apply, At, Typed
<1>3. /\ journal' \in [Keys -> Journals] /\ \A j \in Keys \ {k} : journal'[j] = journal[j]
      /\ journal'[k].state = "applying" /\ journal'[k].version = row[k].version
  BY <1>1 DEF Apply, Typed, Rows, Journals
<1>4. /\ row' \in [Keys -> Rows] /\ \A j \in Keys : row'[j].version = row[j].version
  BY <1>1 DEF Apply, Typed, Rows
<1>5. saved' \in [Keys -> Entries] /\ journal' \in [Keys -> Journals] /\ row' \in [Keys -> Rows]
  BY <1>1, <1>2, <1>3, <1>4 DEF Apply, Typed, frigate, database
<1>6. KeyInv(k)'
  BY <1>1, <1>2, <1>3, <1>4 DEF Apply, At, NoJournal, KeyInv, StepJournal, StepVersions, frigate,
     database, Entries, Journals, Rows
<1>7. \A j \in Keys \ {k} : saved'[j] = saved[j] /\ journal'[j] = journal[j] /\ row'[j].version = row[j].version
  BY <1>1, <1>2, <1>3, <1>4 DEF Apply, Typed, frigate, database
<1> QED
  BY <1>1, <1>2, <1>5, <1>6, <1>7, OneKey DEF Typed

LEMMA AppliedRunsInv == ASSUME ImportInv, NEW k \in Keys, AppliedRuns(k) PROVE ImportInv'
<1>1. Typed /\ KeyInv(k) /\ saved[k] \in Entries /\ journal[k] \in Journals /\ row[k] \in Rows
  BY DEF ImportInv, Typed
<1>2. job' \in Jobs /\ job'.at = {k} /\ job'.back = job.back /\ (job'.step = "select")
  BY <1>1, GotoJob DEF AppliedRuns, At, Typed
<1>3. saved' \in [Keys -> Entries] /\ journal' \in [Keys -> Journals] /\ row' \in [Keys -> Rows]
  BY <1>1, <1>2 DEF AppliedRuns, Typed, frigate, database
<1>4. KeyInv(k)'
  BY <1>1, <1>2 DEF AppliedRuns, At, KeyInv, StepJournal, StepVersions, frigate, database, Entries,
     Journals, Rows
<1>5. \A j \in Keys \ {k} : saved'[j] = saved[j] /\ journal'[j] = journal[j] /\ row'[j].version = row[j].version
  BY <1>1, <1>2 DEF AppliedRuns, Typed, frigate, database
<1> QED
  BY <1>1, <1>2, <1>3, <1>4, <1>5, OneKey DEF Typed

LEMMA SelectInv == ASSUME ImportInv, NEW k \in Keys, Select(k) PROVE ImportInv'
<1>1. Typed /\ KeyInv(k) /\ saved[k] \in Entries /\ journal[k] \in Journals /\ row[k] \in Rows
  BY DEF ImportInv, Typed
<1>2. job' \in Jobs /\ job'.at = {k} /\ job'.back = job.back /\ (job'.step = "activate")
  BY <1>1, GotoJob DEF Select, At, Typed
<1>3. saved' \in [Keys -> Entries] /\ journal' \in [Keys -> Journals] /\ row' \in [Keys -> Rows]
  BY <1>1, <1>2 DEF Select, Typed, frigate, database
<1>4. KeyInv(k)'
  BY <1>1, <1>2 DEF Select, At, KeyInv, StepJournal, StepVersions, frigate, database, Entries,
     Journals, Rows
<1>5. \A j \in Keys \ {k} : saved'[j] = saved[j] /\ journal'[j] = journal[j] /\ row'[j].version = row[j].version
  BY <1>1, <1>2 DEF Select, Typed, frigate, database
<1> QED
  BY <1>1, <1>2, <1>3, <1>4, <1>5, OneKey DEF Typed

LEMMA ActivateInv == ASSUME ImportInv, NEW k \in Keys, Activate(k) PROVE ImportInv'
<1>1. Typed /\ KeyInv(k) /\ saved[k] \in Entries /\ journal[k] \in Journals /\ row[k] \in Rows
  BY DEF ImportInv, Typed
<1>2. job' \in Jobs /\ job'.at = {}
  BY <1>1, NextRowJob DEF Activate, Typed
<1>3. /\ journal' \in [Keys -> Journals] /\ \A j \in Keys \ {k} : journal'[j] = journal[j]
      /\ journal'[k].state = "active" /\ journal'[k].version = journal[k].version
  BY <1>1 DEF Activate, Typed, Journals
<1>4. /\ row' \in [Keys -> Rows] /\ \A j \in Keys : row'[j].version = row[j].version
  BY <1>1 DEF Activate, Typed, Rows
<1>5. saved' \in [Keys -> Entries] /\ journal' \in [Keys -> Journals] /\ row' \in [Keys -> Rows]
  BY <1>1, <1>2, <1>3, <1>4 DEF Activate, Typed, frigate, database
<1>6. KeyInv(k)'
  BY <1>1, <1>2, <1>3, <1>4 DEF Activate, At, NoJournal, KeyInv, StepJournal, StepVersions, frigate,
     database, Entries, Journals, Rows
<1>7. \A j \in Keys \ {k} : saved'[j] = saved[j] /\ journal'[j] = journal[j] /\ row'[j].version = row[j].version
  BY <1>1, <1>2, <1>3, <1>4 DEF Activate, Typed, frigate, database
<1> QED
  BY <1>1, <1>2, <1>5, <1>6, <1>7, OneKey DEF Typed

LEMMA RestoreRefusedInv == ASSUME ImportInv, NEW k \in Keys, RestoreRefused(k) PROVE ImportInv'
<1>1. Typed /\ KeyInv(k) /\ saved[k] \in Entries /\ journal[k] \in Journals /\ row[k] \in Rows
  BY DEF ImportInv, Typed
<1>2. /\ job' \in Jobs /\ row' \in [Keys -> Rows]
      /\ \A j \in Keys : row'[j].version = row[j].version
      /\ job'.at = {} \/ (job'.at = {k} /\ job'.step = "restore" /\ Pending(k))
  BY <1>1, RaiseJob DEF RestoreRefused, At
<1>3. saved' \in [Keys -> Entries] /\ journal' \in [Keys -> Journals] /\ row' \in [Keys -> Rows]
  BY <1>1, <1>2 DEF RestoreRefused, Typed, frigate, database
<1>4. KeyInv(k)'
  BY <1>1, <1>2 DEF RestoreRefused, Pending, KeyInv, StepJournal, StepVersions, frigate, database,
     Entries, Journals, Rows
<1>5. \A j \in Keys \ {k} : saved'[j] = saved[j] /\ journal'[j] = journal[j] /\ row'[j].version = row[j].version
  BY <1>1, <1>2 DEF RestoreRefused, Typed, frigate, database
<1> QED
  BY <1>1, <1>2, <1>3, <1>4, <1>5, OneKey DEF Typed

LEMMA RestoreSkippedInv == ASSUME ImportInv, NEW k \in Keys, RestoreSkipped(k) PROVE ImportInv'
<1>1. Typed /\ KeyInv(k) /\ saved[k] \in Entries /\ journal[k] \in Journals /\ row[k] \in Rows
  BY DEF ImportInv, Typed
<1>2. /\ job' \in Jobs /\ row' \in [Keys -> Rows]
      /\ \A j \in Keys : row'[j].version = row[j].version
      /\ job'.at = {} \/ (job'.at = {k} /\ job'.step = "prepare")
  BY <1>1, ResumeJob DEF RestoreSkipped, At
<1>3. /\ journal' \in [Keys -> Journals] /\ \A j \in Keys \ {k} : journal'[j] = journal[j]
      /\ journal'[k] = NoJournal
  BY <1>1 DEF RestoreSkipped, Typed, Journals, NoJournal
<1>4. saved' \in [Keys -> Entries] /\ journal' \in [Keys -> Journals] /\ row' \in [Keys -> Rows]
  BY <1>1, <1>2, <1>3 DEF RestoreSkipped, Typed, frigate, database
<1>5. KeyInv(k)'
  BY <1>1, <1>2, <1>3 DEF RestoreSkipped, Skippable, NoJournal, KeyInv, StepJournal, StepVersions,
     frigate, database, Entries, Journals, Rows
<1>6. \A j \in Keys \ {k} : saved'[j] = saved[j] /\ journal'[j] = journal[j] /\ row'[j].version = row[j].version
  BY <1>1, <1>2, <1>3 DEF RestoreSkipped, Typed, frigate, database
<1> QED
  BY <1>1, <1>2, <1>4, <1>5, <1>6, OneKey DEF Typed

LEMMA RestoredRunsInv == ASSUME ImportInv, NEW k \in Keys, RestoredRuns(k) PROVE ImportInv'
<1>1. Typed /\ KeyInv(k) /\ saved[k] \in Entries /\ journal[k] \in Journals /\ row[k] \in Rows
  BY DEF ImportInv, Typed
<1>2. /\ job' \in Jobs /\ row' \in [Keys -> Rows]
      /\ \A j \in Keys : row'[j].version = row[j].version
      /\ job'.at = {} \/ (job'.at = {k} /\ job'.step = "prepare")
  BY <1>1, ResumeJob DEF RestoredRuns, At
<1>3. /\ journal' \in [Keys -> Journals] /\ \A j \in Keys \ {k} : journal'[j] = journal[j]
      /\ journal'[k] = NoJournal
  BY <1>1 DEF RestoredRuns, Typed, Journals, NoJournal
<1>4. saved' \in [Keys -> Entries] /\ journal' \in [Keys -> Journals] /\ row' \in [Keys -> Rows]
  BY <1>1, <1>2, <1>3 DEF RestoredRuns, Typed, frigate, database
<1>5. KeyInv(k)'
  BY <1>1, <1>2, <1>3 DEF RestoredRuns, At, NoJournal, KeyInv, StepJournal, StepVersions, frigate,
     database, Entries, Journals, Rows
<1>6. \A j \in Keys \ {k} : saved'[j] = saved[j] /\ journal'[j] = journal[j] /\ row'[j].version = row[j].version
  BY <1>1, <1>2, <1>3 DEF RestoredRuns, Typed, frigate, database
<1> QED
  BY <1>1, <1>2, <1>4, <1>5, <1>6, OneKey DEF Typed

LEMMA RestoreReadInv == ASSUME ImportInv, NEW k \in Keys, RestoreRead(k) PROVE ImportInv'
<1>1. Typed /\ KeyInv(k) /\ saved[k] \in Entries /\ journal[k] \in Journals /\ row[k] \in Rows
  BY DEF ImportInv, Typed
<1>2. job' \in Jobs /\ job'.at = {k} /\ job'.back = job.back /\ (job'.step = "restoreDisable" \/ job'.step = "restoreWrite")
  BY <1>1, GotoJob DEF RestoreRead, At, Typed
<1>3. saved' \in [Keys -> Entries] /\ journal' \in [Keys -> Journals] /\ row' \in [Keys -> Rows]
  BY <1>1, <1>2 DEF RestoreRead, Typed, frigate, database
<1>4. KeyInv(k)'
  BY <1>1, <1>2 DEF RestoreRead, At, Recognised, KeyInv, StepJournal, StepVersions, frigate, database,
     Entries, Journals, Rows
<1>5. \A j \in Keys \ {k} : saved'[j] = saved[j] /\ journal'[j] = journal[j] /\ row'[j].version = row[j].version
  BY <1>1, <1>2 DEF RestoreRead, Typed, frigate, database
<1> QED
  BY <1>1, <1>2, <1>3, <1>4, <1>5, OneKey DEF Typed

LEMMA RestoreDisableInv == ASSUME ImportInv, NEW k \in Keys, RestoreDisable(k) PROVE ImportInv'
<1>1. Typed /\ KeyInv(k) /\ saved[k] \in Entries /\ journal[k] \in Journals /\ row[k] \in Rows
  BY DEF ImportInv, Typed
<1>2. /\ job' \in Jobs /\ row' \in [Keys -> Rows]
      /\ \A j \in Keys : row'[j].version = row[j].version
      /\ job'.at = {} \/ (job'.at = {k} /\ job'.step = "restore" /\ Pending(k))
                     \/ (job'.at = {k} /\ job'.step = "restoreWrite")
  BY <1>1, RaiseJob, GotoJob DEF RestoreDisable, At, Typed
<1>3. journal' = journal
  BY DEF RestoreDisable
<1>4. saved' \in [Keys -> Entries] /\ journal' \in [Keys -> Journals] /\ row' \in [Keys -> Rows]
  BY <1>1, <1>2, <1>3 DEF RestoreDisable, Typed, frigate, database
<1>5. KeyInv(k)'
  BY <1>1, <1>2, <1>3 DEF RestoreDisable, At, Pending, KeyInv, StepJournal, StepVersions, frigate,
     database, Entries, Journals, Rows
<1>6. \A j \in Keys \ {k} : saved'[j] = saved[j] /\ journal'[j] = journal[j] /\ row'[j].version = row[j].version
  BY <1>1, <1>2, <1>3 DEF RestoreDisable, Typed, frigate, database
<1> QED
  BY <1>1, <1>2, <1>4, <1>5, <1>6, OneKey DEF Typed

LEMMA RestoreMarkInv == ASSUME ImportInv, NEW k \in Keys, RestoreMark(k) PROVE ImportInv'
<1>1. Typed /\ KeyInv(k) /\ saved[k] \in Entries /\ journal[k] \in Journals /\ row[k] \in Rows
  BY DEF ImportInv, Typed
<1>2. job' \in Jobs /\ job'.at = {k} /\ job'.back = job.back /\ (job'.step = "restoreRestart")
  BY <1>1, GotoJob DEF RestoreMark, At, Typed
<1>3. /\ journal' \in [Keys -> Journals] /\ \A j \in Keys \ {k} : journal'[j] = journal[j]
      /\ journal'[k].state = "restored" /\ journal'[k].version = journal[k].version
  <2>1. HasRelay(k) \in BOOLEAN
    BY <1>1 DEF HasRelay, Journals
  <2> QED
    BY <1>1, <2>1 DEF RestoreMark, Typed, Journals
<1>4. saved' \in [Keys -> Entries] /\ journal' \in [Keys -> Journals] /\ row' \in [Keys -> Rows]
  BY <1>1, <1>2, <1>3 DEF RestoreMark, Typed, frigate, database
<1>5. saved' = saved /\ row' = row /\ job.at = {k} /\ job.step = "restoreMark"
  BY <1>1 DEF RestoreMark, At, frigate, database
<1>6. KeyInv(k)'
  BY <1>1, <1>2, <1>3, <1>5 DEF NoJournal, KeyInv, StepJournal, StepVersions, Entries, Journals, Rows
<1>7. \A j \in Keys \ {k} : saved'[j] = saved[j] /\ journal'[j] = journal[j] /\ row'[j].version = row[j].version
  BY <1>1, <1>2, <1>3, <1>5 DEF RestoreMark, Typed, frigate, database
<1> QED
  BY <1>1, <1>2, <1>4, <1>6, <1>7, OneKey DEF Typed

LEMMA WriteEntryInv == ASSUME ImportInv, NEW k \in Keys, WriteEntry(k) PROVE ImportInv'
<1>1. Typed /\ KeyInv(k) /\ saved[k] \in Entries /\ journal[k] \in Journals /\ row[k] \in Rows
  BY DEF ImportInv, Typed
<1>2. /\ job' \in Jobs /\ row' \in [Keys -> Rows]
      /\ \A j \in Keys : row'[j].version = row[j].version
      /\ \/ job'.at = {}
         \/ job'.at = {k} /\ job'.step = "restore" /\ journal[k].state # "none"
         \/ job'.at = {k} /\ job'.step = AfterWrite(job.step) /\ job'.back = job.back
  BY <1>1, GotoJob, RaiseJob DEF WriteEntry, TryAgain, AfterWrite, Pending, Typed, KeyInv, StepJournal,
     StepVersions
<1>3. /\ saved' \in [Keys -> Entries] /\ \A j \in Keys \ {k} : saved'[j] = saved[j]
      /\ saved'[k].version = journal[k].version /\ (job.step = "restoreWrite" => saved'[k].form = "own")
  BY <1>1 DEF WriteEntry, Written, Typed, Entries, Forms, Journals, KeyInv, StepJournal, StepVersions
<1>4. saved' \in [Keys -> Entries] /\ journal' \in [Keys -> Journals] /\ row' \in [Keys -> Rows]
  BY <1>1, <1>2, <1>3 DEF WriteEntry, Typed, frigate, database
<1>5. journal' = journal /\ job.at = {k} /\ job.step \in {"releaseWrite", "applyWrite", "restoreWrite"}
  BY <1>1 DEF WriteEntry, At, frigate, database
<1>6. KeyInv(k)'
  <2>1. journal[k].state # "none" /\ journal[k].version # 0 /\ row[k].version <= journal[k].version
    BY <1>1, <1>5 DEF KeyInv, StepJournal, StepVersions, Journals, Rows
  <2>2. /\ journal'[k].state = "none" <=> journal'[k] = NoJournal
        /\ journal'[k].version = 0 <=> journal'[k].state = "none"
        /\ saved'[k].form # "own" => journal'[k].state # "none"
        /\ row'[k].version <= saved'[k].version
    BY <1>1, <1>2, <1>3, <1>5, <2>1 DEF KeyInv
  <2>3. CASE job'.at = {}
    BY <2>2, <2>3 DEF KeyInv, StepJournal, StepVersions
  <2>4. CASE job'.at = {k} /\ job'.step = "restore"
    BY <1>1, <1>5, <2>1, <2>2, <2>4 DEF KeyInv, StepJournal, StepVersions
  <2>5. CASE job'.at = {k} /\ job'.step = AfterWrite(job.step) /\ job'.back = job.back
    <3>1. CASE job.step = "releaseWrite"
      BY <1>1, <1>2, <1>5, <2>1, <2>2, <2>5, <3>1 DEF AfterWrite, KeyInv, StepJournal, StepVersions
    <3>2. CASE job.step = "applyWrite"
      BY <1>1, <1>2, <1>5, <2>1, <2>2, <2>5, <3>2 DEF AfterWrite, KeyInv, StepJournal, StepVersions
    <3>3. CASE job.step = "restoreWrite"
      BY <1>1, <1>2, <1>3, <1>5, <2>1, <2>2, <2>5, <3>3 DEF AfterWrite, KeyInv, StepJournal,
         StepVersions
    <3> QED
      BY <1>5, <3>1, <3>2, <3>3
  <2> QED
    BY <1>2, <2>3, <2>4, <2>5
<1>7. \A j \in Keys \ {k} : saved'[j] = saved[j] /\ journal'[j] = journal[j] /\ row'[j].version = row[j].version
  BY <1>1, <1>2, <1>3, <1>5 DEF WriteEntry, Typed, frigate, database
<1> QED
  BY <1>1, <1>2, <1>4, <1>6, <1>7, OneKey DEF Typed

LEMMA RestartFrigateInv == ASSUME ImportInv, NEW k \in Keys, RestartFrigate(k) PROVE ImportInv'
<1>1. Typed /\ KeyInv(k) /\ saved[k] \in Entries /\ journal[k] \in Journals /\ row[k] \in Rows
  BY DEF ImportInv, Typed
<1>2. job' \in Jobs /\ job'.at = {k} /\ job'.back = job.back /\ job'.step = AfterRestart(job.step)
  BY <1>1, GotoJob DEF RestartFrigate, AfterRestart, Typed
<1>3. saved' \in [Keys -> Entries] /\ journal' \in [Keys -> Journals] /\ row' \in [Keys -> Rows]
  BY <1>1, <1>2 DEF RestartFrigate, Typed, frigate, database
<1>4. KeyInv(k)'
  BY <1>1, <1>2 DEF RestartFrigate, AfterRestart, KeyInv, StepJournal, StepVersions, frigate, database,
     Entries, Journals, Rows
<1>5. \A j \in Keys \ {k} : saved'[j] = saved[j] /\ journal'[j] = journal[j] /\ row'[j].version = row[j].version
  BY <1>1, <1>2 DEF RestartFrigate, Typed, frigate, database
<1> QED
  BY <1>1, <1>2, <1>3, <1>4, <1>5, OneKey DEF Typed

LEMMA ImportFailsInv == ASSUME ImportInv, NEW k \in Keys, ImportFails(k) PROVE ImportInv'
<1>1. Typed /\ KeyInv(k) /\ saved[k] \in Entries /\ journal[k] \in Journals /\ row[k] \in Rows
  BY DEF ImportInv, Typed
<1>2. /\ job' \in Jobs /\ row' \in [Keys -> Rows]
      /\ \A j \in Keys : row'[j].version = row[j].version
      /\ job'.at = {} \/ (job'.at = {k} /\ job'.step = "restore" /\ Pending(k))
  BY <1>1, RaiseJob DEF ImportFails
<1>3. saved' \in [Keys -> Entries] /\ journal' \in [Keys -> Journals] /\ row' \in [Keys -> Rows]
  BY <1>1, <1>2 DEF ImportFails, Typed, frigate, database
<1>4. KeyInv(k)'
  BY <1>1, <1>2 DEF ImportFails, Pending, KeyInv, StepJournal, StepVersions, frigate, database,
     Entries, Journals, Rows
<1>5. \A j \in Keys \ {k} : saved'[j] = saved[j] /\ journal'[j] = journal[j] /\ row'[j].version = row[j].version
  BY <1>1, <1>2 DEF ImportFails, Typed, frigate, database
<1> QED
  BY <1>1, <1>2, <1>3, <1>4, <1>5, OneKey DEF Typed

LEMMA RestoreFailsInv == ASSUME ImportInv, NEW k \in Keys, RestoreFails(k) PROVE ImportInv'
<1>1. Typed /\ KeyInv(k) /\ saved[k] \in Entries /\ journal[k] \in Journals /\ row[k] \in Rows
  BY DEF ImportInv, Typed
<1>2. /\ job' \in Jobs /\ row' \in [Keys -> Rows]
      /\ \A j \in Keys : row'[j].version = row[j].version
      /\ job'.at = {} \/ (job'.at = {k} /\ job'.step = "restore" /\ journal[k].state # "none")
  BY <1>1, RaiseJob, GotoJob DEF RestoreFails, TryAgain, Pending, Typed, KeyInv, StepJournal,
     StepVersions
<1>3. saved' \in [Keys -> Entries] /\ journal' \in [Keys -> Journals] /\ row' \in [Keys -> Rows]
  BY <1>1, <1>2 DEF RestoreFails, Typed, frigate, database
<1>4. KeyInv(k)'
  BY <1>1, <1>2 DEF RestoreFails, KeyInv, StepJournal, StepVersions, frigate, database, Entries,
     Journals, Rows
<1>5. \A j \in Keys \ {k} : saved'[j] = saved[j] /\ journal'[j] = journal[j] /\ row'[j].version = row[j].version
  BY <1>1, <1>2 DEF RestoreFails, Typed, frigate, database
<1> QED
  BY <1>1, <1>2, <1>3, <1>4, <1>5, OneKey DEF Typed

LEMMA BeginRowInv == ASSUME ImportInv, NEW k \in Keys, BeginRow(k) PROVE ImportInv'
<1>1. Typed /\ KeyInv(k) /\ saved[k] \in Entries /\ journal[k] \in Journals /\ row[k] \in Rows
  BY DEF ImportInv, Typed
<1>2. /\ job' \in Jobs
      /\ \/ job'.at = {}
         \/ job'.at = {k} /\ job'.step = "prepare" /\ journal[k].state = "none"
         \/ job'.at = {k} /\ job'.step = "restore" /\ journal[k].state # "none"
  <2>1. ASSUME NEW s \in {"prepare", "restore"}, job' = [job EXCEPT !.step = s, !.at = {k}]
        PROVE  job' \in Jobs /\ job'.at = {k} /\ job'.step = s
    BY <1>1, <2>1 DEF Typed, Jobs
  <2>2. CASE job' = NextRow(k)
    BY <1>1, <2>2, NextRowJob DEF Typed
  <2>3. CASE job' = [job EXCEPT !.step = "prepare", !.at = {k}] /\ journal[k].state = "none"
    BY <2>1, <2>3
  <2>4. CASE job' = [job EXCEPT !.step = "restore", !.at = {k}] /\ Pending(k)
    BY <2>1, <2>4 DEF Pending
  <2> QED
    BY <2>2, <2>3, <2>4 DEF BeginRow
<1>3. /\ row' \in [Keys -> Rows] /\ \A j \in Keys : row'[j].version = row[j].version
  <2>1. row' \in {row, [row EXCEPT ![k].config = "unchanged"], [row EXCEPT ![k].applied = TRUE]}
    BY DEF BeginRow
  <2>2. CASE row' = [row EXCEPT ![k].applied = TRUE]
    BY <1>1, <2>2 DEF Typed, Rows
  <2> QED
    BY <1>1, <2>1, <2>2, ReportRow DEF Typed
<1>4. saved' \in [Keys -> Entries] /\ journal' \in [Keys -> Journals] /\ row' \in [Keys -> Rows]
  BY <1>1, <1>2, <1>3 DEF BeginRow, Typed, frigate, database
<1>5. journal' = journal /\ saved' = saved
  BY <1>1 DEF BeginRow, At, frigate, database
<1>6. KeyInv(k)'
  BY <1>1, <1>2, <1>3, <1>5 DEF KeyInv, StepJournal, StepVersions, Entries, Journals, Rows
<1>7. \A j \in Keys \ {k} : saved'[j] = saved[j] /\ journal'[j] = journal[j] /\ row'[j].version = row[j].version
  BY <1>1, <1>2, <1>3, <1>5 DEF BeginRow, Typed, frigate, database
<1> QED
  BY <1>1, <1>2, <1>4, <1>6, <1>7, OneKey DEF Typed

LEMMA RestoreImportInv == ASSUME ImportInv, NEW k \in Keys, RestoreImport(k) PROVE ImportInv'
<1>1. Typed /\ KeyInv(k) /\ saved[k] \in Entries /\ journal[k] \in Journals /\ row[k] \in Rows
  BY DEF ImportInv, Typed
<1>2. /\ job' \in Jobs /\ job'.at = {k} /\ job'.step = "restore"
  BY <1>1, IdleJob DEF RestoreImport, Idle, Jobs
<1>3. saved' \in [Keys -> Entries] /\ journal' \in [Keys -> Journals] /\ row' \in [Keys -> Rows]
  BY <1>1, <1>2 DEF RestoreImport, Typed, frigate, database
<1>4. KeyInv(k)'
  BY <1>1, <1>2 DEF RestoreImport, KeyInv, StepJournal, StepVersions, frigate, database, Entries,
     Journals, Rows
<1>5. \A j \in Keys \ {k} : saved'[j] = saved[j] /\ journal'[j] = journal[j] /\ row'[j].version = row[j].version
  BY <1>1, <1>2 DEF RestoreImport, Typed, frigate, database
<1> QED
  BY <1>1, <1>2, <1>3, <1>4, <1>5, OneKey DEF Typed

-----------------------------------------------------------------------------
(* The steps of no row, and those of operators. *)

\* The lock is taken or released between rows: nothing is said of any key.
LEMMA NowhereInv ==
  ASSUME ImportInv, saved' = saved, journal' = journal, job' \in Jobs, job'.at = {},
         row' \in [Keys -> Rows], \A k \in Keys : row'[k].version <= saved[k].version
  PROVE  ImportInv'
<1>1. Typed'
  BY DEF ImportInv, Typed
<1>2. ASSUME NEW k \in Keys PROVE KeyInv(k)'
  BY DEF ImportInv, KeyInv, StepJournal, StepVersions, NoJournal
<1> QED
  BY <1>1, <1>2 DEF ImportInv

LEMMA EndJobInv == ASSUME ImportInv, EndJob PROVE ImportInv'
<1>1. \A k \in Keys : row[k].version <= saved[k].version
  BY DEF ImportInv, KeyInv
<1> QED
  BY <1>1, IdleJob, NowhereInv DEF EndJob, frigate, database, ImportInv, Typed

LEMMA CrashInv == ASSUME ImportInv, Crash PROVE ImportInv'
<1>1. \A k \in Keys : row[k].version <= saved[k].version
  BY DEF ImportInv, KeyInv
<1> QED
  BY <1>1, IdleJob, NowhereInv DEF Crash, frigate, database, ImportInv, Typed

LEMMA RecoverInv == ASSUME ImportInv, Recover PROVE ImportInv'
<1>1. \A k \in Keys : row[k].version <= saved[k].version
  BY DEF ImportInv, KeyInv
<1>2. job' \in Jobs /\ job'.at = {}
  BY DEF Recover, Idle, Jobs
<1> QED
  BY <1>1, <1>2, NowhereInv DEF Recover, frigate, database, ImportInv, Typed

LEMMA PreviewInv == ASSUME ImportInv, Preview PROVE ImportInv'
<1>1. \A k \in Keys : saved[k] \in Entries
  BY DEF ImportInv, Typed
<1>2. ASSUME NEW k \in Keys PROVE row'[k] \in Rows /\ row'[k].version = saved[k].version
  <2>1. /\ row'[k].version = saved[k].version
        /\ row'[k] = [version |-> saved[k].version, usable |-> journal[k] = NoJournal /\ camera[k] # "off",
                      camera |-> camera[k] # "none", created |-> FALSE, release |-> FALSE,
                      applied |-> FALSE, config |-> "none"]
    BY DEF Preview, NoRow
  <2>2. (journal[k] = NoJournal /\ camera[k] # "off") \in BOOLEAN /\ (camera[k] # "none") \in BOOLEAN
    OBVIOUS
  <2> QED
    BY <1>1, <2>1, <2>2 DEF Rows, Entries
<1>3. row' \in [Keys -> Rows] /\ \A k \in Keys : row'[k].version <= saved[k].version
  <2>1. row' = [k \in Keys |-> row'[k]]
    BY DEF Preview
  <2> QED
    BY <1>1, <1>2, <2>1 DEF Entries
<1> QED
  BY <1>3, IdleJob, NowhereInv DEF Preview, frigate, ImportInv, Typed

LEMMA ImportActionInv == ASSUME ImportInv, NEW K \in SUBSET Keys, Import(K) PROVE ImportInv'
<1>1. \A k \in Keys : row[k] \in Rows /\ row[k].version <= saved[k].version
  BY DEF ImportInv, Typed, KeyInv
<1>2. ASSUME NEW k \in Keys PROVE row'[k] \in Rows /\ row'[k].version = row[k].version
  BY <1>1 DEF Import, Rows
<1>3. row' \in [Keys -> Rows] /\ \A k \in Keys : row'[k].version <= saved[k].version
  <2>1. row' = [k \in Keys |-> row'[k]]
    BY DEF Import
  <2> QED
    BY <1>1, <1>2, <2>1
<1>4. job' \in Jobs /\ job'.at = {}
  BY DEF Import, Idle, Jobs
<1> QED
  BY <1>3, <1>4, NowhereInv DEF Import, frigate

\* An edit makes an entry newer, and leaves its form.
LEMMA EditInv == ASSUME ImportInv, NEW k \in Keys, Edit(k) PROVE ImportInv'
<1>1. Typed /\ saved[k] \in Entries
  BY DEF ImportInv, Typed
<1>2. /\ saved' \in [Keys -> Entries]
      /\ \A j \in Keys : saved'[j].form = saved[j].form /\ saved'[j].version >= saved[j].version
  BY <1>1 DEF Edit, Typed, Entries
<1>3. journal' = journal /\ row' = row /\ job' = job
  BY DEF Edit, database
<1>4. ASSUME NEW j \in Keys PROVE KeyInv(j)'
  <2>1. KeyInv(j) /\ saved[j] \in Entries /\ saved'[j] \in Entries /\ row[j] \in Rows
    BY <1>1, <1>2 DEF ImportInv, Typed
  <2> QED
    BY <1>2, <1>3, <2>1 DEF KeyInv, StepJournal, StepVersions, NoJournal, Entries, Rows
<1> QED
  BY <1>1, <1>2, <1>3, <1>4 DEF ImportInv, Typed

\* Steps of operators, and of Frigate, that change nothing the invariant speaks of.
LEMMA QuietInv ==
  ASSUME ImportInv, saved' = saved, journal' = journal, row' = row, job' = job
  PROVE  ImportInv'
  BY DEF ImportInv, Typed, KeyInv, StepJournal, StepVersions, NoJournal

LEMMA StepInv == ImportInv /\ [Next]_vars => ImportInv'
<1> SUFFICES ASSUME ImportInv, [Next]_vars PROVE ImportInv'
  OBVIOUS
<1>1. CASE Advance
  <2>1. CASE EndJob
    BY <2>1, EndJobInv
  <2>2. ASSUME NEW k \in Keys, BeginRow(k) \/ WriteEntry(k) \/ RestartFrigate(k) PROVE ImportInv'
    BY <2>2, BeginRowInv, WriteEntryInv, RestartFrigateInv
  <2>3. ASSUME NEW k \in Keys, ImportStep(k) PROVE ImportInv'
    BY <2>3, PrepareInv, ReleaseInv, RecheckInv, ReleasedInv, ProbeInv, AdoptInv, LinkAdoptedInv,
       PrepareRelayInv, ApplyInv, AppliedRunsInv, SelectInv, ActivateInv DEF ImportStep
  <2>4. ASSUME NEW k \in Keys, RestoreStep(k) PROVE ImportInv'
    BY <2>4, RestoreRefusedInv, RestoreSkippedInv, RestoreReadInv, RestoreDisableInv,
       RestoreMarkInv, RestoredRunsInv DEF RestoreStep
  <2>5. ASSUME NEW k \in Keys, ImportFails(k) \/ RestoreFails(k) PROVE ImportInv'
    BY <2>5, ImportFailsInv, RestoreFailsInv
  <2> QED
    BY <1>1, <2>1, <2>2, <2>3, <2>4, <2>5 DEF Advance
<1>2. CASE Recover \/ Crash
  BY <1>2, RecoverInv, CrashInv
<1>3. CASE Operator
  <2>1. CASE Preview
    BY <2>1, PreviewInv
  <2>2. CASE \E K \in SUBSET Keys : Import(K)
    BY <2>2, ImportActionInv
  <2>3. CASE FrigateRestarts
    BY <2>3, QuietInv DEF FrigateRestarts, database
  <2>4. ASSUME NEW k \in Keys, RestoreImport(k) \/ Edit(k) PROVE ImportInv'
    BY <2>4, RestoreImportInv, EditInv
  <2>5. ASSUME NEW k \in Keys, SetEnabled(k) \/ Unadopt(k) \/ SelectElsewhere(k) PROVE ImportInv'
    BY <2>5, QuietInv DEF SetEnabled, Unadopt, SelectElsewhere, frigate
  <2> QED
    BY <1>3, <2>1, <2>2, <2>3, <2>4, <2>5 DEF Operator
<1>4. CASE UNCHANGED vars
  BY <1>4, QuietInv DEF vars, frigate, database
<1> QED
  BY <1>1, <1>2, <1>3, <1>4 DEF Next

-----------------------------------------------------------------------------
(* Cameras, selections and reports follow the journal. *)

Free ==
  /\ running \in [Keys -> Forms] /\ camera \in [Keys -> {"none", "off", "on"}]
  /\ selected \subseteq Keys /\ elsewhere \subseteq {k \in Keys : camera[k] # "none"}
  /\ recovering \in BOOLEAN /\ insisted \subseteq Keys /\ troubled \subseteq Keys
  /\ budget \in [faults : 0..MaxFaults, requests : 0..MaxRequests]

\* A restoration has disabled the camera: it is about to put the entry back, or has.
PastDisabling(k) == journal[k].state = "restored" \/ (job.at = {k} /\ job.step \in {"restoreWrite"} \cup Putting)

Marked == {"restoreRestart", "restoreWait"}

USE DEF Marked

Held(k) ==
  /\ k \in selected => journal[k].state \in {"applying", "active"} /\ camera[k] # "none"
  /\ journal[k].state = "active" \/ At(k, "activate") => k \in selected
  /\ PastDisabling(k) /\ journal[k].handoff /\ journal[k].created /\ k \notin insisted => camera[k] # "on"
  /\ row[k].config \in {"unchanged", "restored"} => journal[k].state = "none"
  /\ job.at = {k} /\ job.step \in Marked => journal[k].state = "restored"

HeldInv == ImportInv /\ Free /\ \A k \in Keys : Held(k)

\* A step leaves a key's journal, camera and selection alone.
Alone(k) ==
  /\ journal'[k] = journal[k] /\ camera'[k] = camera[k]
  /\ k \in selected' <=> k \in selected
  /\ k \in insisted' <=> k \in insisted

LEMMA HeldAlone ==
  ASSUME NEW k \in Keys, Held(k), Alone(k),
         row'[k].config \in {row[k].config, "none", "required"} \/ journal[k].state = "none",
         job'.at = {k} => /\ job'.step # "activate"
                          /\ \/ job'.step \notin {"restoreWrite"} \cup Putting
                             \/ PastDisabling(k) \/ ~journal[k].handoff \/ ~journal[k].created
                          /\ job'.step \in Marked => journal[k].state = "restored"
  PROVE  Held(k)'
  BY DEF Held, Alone, PastDisabling, At

LEMMA OneHeld ==
  ASSUME HeldInv, NEW k \in Keys, job'.at \in {{}, {k}}, Held(k)',
         \A j \in Keys \ {k} : Alone(j) /\ row'[j].config = row[j].config
  PROVE  \A j \in Keys : Held(j)'
<1>1. ASSUME NEW j \in Keys, j # k PROVE Held(j)'
  <2>1. Held(j) /\ job'.at # {j}
    BY <1>1 DEF HeldInv
  <2> QED
    BY <1>1, <2>1, HeldAlone
<1> QED
  BY <1>1

LEMMA RaiseReport ==
  ASSUME Typed, NEW k \in Keys, Raise(k)
  PROVE  row'[k].config \in {row[k].config, "required"} /\ \A j \in Keys \ {k} : row'[j].config = row[j].config
<1>1. row' = row \/ row' = [row EXCEPT ![k].config = "required"]
  BY DEF Raise
<1> QED
  BY <1>1 DEF Typed, Rows

LEMMA ResumeReport ==
  ASSUME Typed, NEW k \in Keys, Resume(k)
  PROVE  \A j \in Keys \ {k} : row'[j].config = row[j].config
<1>1. row' = row \/ row' = [row EXCEPT ![k].config = "restored"]
  BY DEF Resume
<1> QED
  BY <1>1 DEF Typed, Rows

\* Steps of a row that change no journal, camera or selection.
LEMMA QuietRowHeld ==
  ASSUME HeldInv, NEW k \in Keys,
         Prepare(k) \/ Recheck(k) \/ Probe(k) \/ AppliedRuns(k) \/ BeginRow(k) \/ WriteEntry(k)
         \/ RestartFrigate(k) \/ ImportFails(k) \/ RestoreFails(k) \/ RestoreRefused(k) \/ RestoreRead(k)
  PROVE  \A j \in Keys : Held(j)'
<1>1. Typed /\ KeyInv(k) /\ Held(k) /\ job \in Jobs /\ row \in [Keys -> Rows]
  BY DEF HeldInv, ImportInv, Typed
<1>2. journal' = journal /\ camera' = camera /\ selected' = selected /\ insisted' = insisted
  BY DEF Prepare, Recheck, Probe, AppliedRuns, BeginRow, WriteEntry, RestartFrigate, ImportFails,
     RestoreFails, RestoreRefused, RestoreRead, database, ghosts
<1>3. ASSUME Raise(k) \/ TryAgain, job.at = {k}
      PROVE  /\ row'[k].config \in {row[k].config, "required"}
             /\ \A j \in Keys \ {k} : row'[j].config = row[j].config
             /\ job'.at = {} \/ (job'.at = {k} /\ job'.step = "restore")
  BY <1>1, <1>3, RaiseReport, RaiseJob, GotoJob DEF TryAgain
<1>4. /\ row'[k].config \in {row[k].config, "required"} \/ journal[k].state = "none"
      /\ \A j \in Keys \ {k} : row'[j].config = row[j].config
      /\ \/ job'.at = {}
         \/ /\ job'.at = {k} /\ job'.step # "activate"
            /\ \/ job'.step \notin {"restoreWrite"} \cup Putting
               \/ PastDisabling(k) \/ ~journal[k].handoff \/ ~journal[k].created
            /\ job'.step \in Marked => journal[k].state = "restored"
  <2>1. CASE ImportFails(k) \/ RestoreFails(k) \/ RestoreRefused(k)
    BY <1>3, <2>1 DEF ImportFails, RestoreFails, RestoreRefused, At
  <2>2. CASE WriteEntry(k)
    <3>1. CASE Goto(AfterWrite(job.step)) /\ UNCHANGED row
      BY <1>1, <2>2, <3>1, GotoJob DEF WriteEntry, AfterWrite, PastDisabling
    <3>2. CASE Raise(k) \/ TryAgain
      BY <1>3, <2>2, <3>2 DEF WriteEntry
    <3> QED
      BY <2>2, <3>1, <3>2 DEF WriteEntry
  <2>3. CASE RestartFrigate(k)
    <3>1. AfterRestart(job.step) \in Steps /\ AfterRestart(job.step) \notin {"activate", "restoreWrite", "restoreMark"}
      BY <2>3 DEF RestartFrigate, AfterRestart
    <3> QED
      BY <1>1, <2>3, <3>1, GotoJob DEF RestartFrigate, AfterRestart, PastDisabling, Held, database
  <2>4. CASE BeginRow(k)
    <3>1. \/ job' = NextRow(k) \/ job' = [job EXCEPT !.step = "prepare", !.at = {k}]
          \/ job' = [job EXCEPT !.step = "restore", !.at = {k}]
      BY <2>4 DEF BeginRow
    <3>2. job'.at = {} \/ (job'.at = {k} /\ job'.step \in {"prepare", "restore"})
      BY <1>1, <3>1, NextRowJob DEF Jobs
    <3>3. /\ row'[k].config = row[k].config \/ journal[k].state = "none"
          /\ \A j \in Keys \ {k} : row'[j].config = row[j].config
      BY <1>1, <2>4 DEF BeginRow, Rows
    <3> QED
      BY <3>2, <3>3
  <2>5. CASE Prepare(k)
    <3>1. \A j \in Keys : row'[j].config = row[j].config
      BY <1>1, <2>5 DEF Prepare, Rows
    <3>2. job'.at = {k} /\ job'.step \in {"relay", "probe", "release"}
      BY <1>1, <2>5 DEF Prepare, At, Jobs
    <3> QED
      BY <3>1, <3>2
  <2>6. CASE Recheck(k) \/ Probe(k) \/ AppliedRuns(k)
    <3>1. row' = row
      BY <2>6 DEF Recheck, Probe, AppliedRuns, database
    <3>2. job'.at = {k} /\ job'.step \in {"releaseWrite", "applyWrite", "adopt", "apply", "release", "select"}
      BY <1>1, <2>6 DEF Recheck, Probe, AppliedRuns, Goto, At, Jobs
    <3> QED
      BY <3>1, <3>2
  <2>7. CASE RestoreRead(k)
    BY <1>1, <2>7, GotoJob DEF RestoreRead, At, database
  <2> QED
    BY <2>1, <2>2, <2>3, <2>4, <2>5, <2>6, <2>7
<1>5. Held(k)'
  BY <1>1, <1>2, <1>4, HeldAlone DEF Alone
<1> QED
  BY <1>2, <1>4, <1>5, OneHeld DEF Alone

\* Steps of an import that change the journal, the camera or the selection.
LEMMA ImportStepHeld ==
  ASSUME HeldInv, NEW k \in Keys,
         Release(k) \/ Released(k) \/ Adopt(k) \/ LinkAdopted(k) \/ PrepareRelay(k) \/ Apply(k)
         \/ Select(k) \/ Activate(k)
  PROVE  \A j \in Keys : Held(j)'
<1>1. /\ Typed /\ KeyInv(k) /\ Held(k) /\ job \in Jobs /\ row \in [Keys -> Rows]
      /\ journal \in [Keys -> Journals] /\ camera \in [Keys -> {"none", "off", "on"}] /\ selected \subseteq Keys
  BY DEF HeldInv, ImportInv, Typed, Free
<1>2. job.at = {k} /\ job.step \notin {"restoreWrite"} \cup Putting /\ insisted' = insisted
  BY DEF Release, Released, Adopt, LinkAdopted, PrepareRelay, Apply, Select, Activate, At, ghosts
<1>3. job'.at = {} \/ (job'.at = {k} /\ job'.step \notin {"restoreWrite"} \cup Putting
                       /\ (job'.step = "activate" => Select(k)))
  <2>1. CASE Released(k)
    <3>1. job.back \in Backs
      BY <1>1, <2>1 DEF Released, At, KeyInv, StepJournal
    <3>2. job' \in {[job EXCEPT !.step = job.back, !.back = "none"],
                    [job EXCEPT !.step = "restore", !.back = "none", !.handling = TRUE]}
      BY <2>1 DEF Released
    <3> QED
      BY <1>1, <1>2, <3>1, <3>2 DEF Jobs
  <2>2. CASE Activate(k)
    BY <1>1, <2>2, NextRowJob DEF Activate
  <2>3. CASE Select(k)
    BY <1>1, <1>2, <2>3, GotoJob DEF Select
  <2>4. CASE Release(k) \/ Adopt(k) \/ LinkAdopted(k) \/ PrepareRelay(k) \/ Apply(k)
    <3>1. \E s \in {"releaseCheck", "link", "relay", "relayProbe", "applyCheck"} : Goto(s)
      BY <2>4 DEF Release, Adopt, LinkAdopted, PrepareRelay, Apply
    <3> QED
      BY <1>1, <1>2, <3>1, GotoJob
  <2> QED
    BY <2>1, <2>2, <2>3, <2>4
<1>4. \A j \in Keys \ {k} : Alone(j) /\ row'[j].config = row[j].config
  BY <1>1, <1>2 DEF Release, Released, Adopt, LinkAdopted, PrepareRelay, Apply, Select, Activate,
     Alone, Rows
<1>5. Held(k)'
  <2>1. CASE Release(k) \/ Apply(k)
    <3>1. journal'[k].state \in {"releasing", "applying"} /\ row'[k].config = "required"
      BY <1>1, <2>1 DEF Release, Apply, Rows
    <3>2. selected' = selected /\ camera' = camera /\ journal[k].state \in {"none", "paused"}
      BY <1>1, <2>1 DEF Release, Apply, At, KeyInv, StepJournal
    <3> QED
      BY <1>1, <1>2, <1>3, <2>1, <3>1, <3>2 DEF Held, PastDisabling, At, Release, Apply, Select
  <2>2. CASE Released(k)
    <3>1. journal'[k].state = "paused" /\ row' = row /\ camera' = camera /\ selected' = selected
      BY <1>1, <2>2 DEF Released, Journals
    <3>2. journal[k].state = "releasing"
      BY <1>1, <2>2 DEF Released, At, KeyInv, StepJournal
    <3> QED
      BY <1>1, <1>3, <2>2, <3>1, <3>2 DEF Held, PastDisabling, At, Released, Select
  <2>3. CASE Adopt(k) \/ PrepareRelay(k)
    <3>1. journal' = journal /\ row' = row /\ camera'[k] = "on" /\ selected' = selected
      BY <1>1, <2>3 DEF Adopt, PrepareRelay
    <3>2. journal[k].state \in {"none", "paused"}
      BY <1>1, <2>3 DEF Adopt, PrepareRelay, At, KeyInv, StepJournal
    <3> QED
      BY <1>1, <1>3, <2>3, <3>1, <3>2 DEF Held, PastDisabling, At, Adopt, PrepareRelay, Select
  <2>4. CASE LinkAdopted(k)
    <3>1. /\ journal'[k].state = journal[k].state /\ row'[k].config = row[k].config
          /\ camera' = camera /\ selected' = selected
      BY <1>1, <2>4 DEF LinkAdopted, Journals, Rows
    <3>2. journal[k].state \in {"none", "paused"}
      BY <1>1, <2>4 DEF LinkAdopted, At, KeyInv, StepJournal
    <3> QED
      BY <1>1, <1>3, <2>4, <3>1, <3>2 DEF Held, PastDisabling, At, LinkAdopted, Select
  <2>5. CASE Select(k)
    <3>1. /\ journal' = journal /\ row' = row /\ camera' = camera /\ k \in selected'
          /\ journal[k].state = "applying" /\ camera[k] # "none"
      BY <1>1, <2>5 DEF Select, At, KeyInv, StepJournal
    <3> QED
      BY <1>1, <1>2, <1>3, <3>1 DEF Held, PastDisabling, At
  <2>6. CASE Activate(k)
    <3>1. /\ journal'[k].state = "active" /\ row'[k].config = "none"
          /\ camera' = camera /\ selected' = selected /\ k \in selected
      BY <1>1, <2>6 DEF Activate, Held, Journals, Rows
    <3>2. job'.at = {}
      BY <1>1, <2>6, NextRowJob DEF Activate
    <3> QED
      BY <1>1, <1>2, <3>1, <3>2 DEF Held, PastDisabling, At
  <2> QED
    BY <2>1, <2>2, <2>3, <2>4, <2>5, <2>6
<1> QED
  BY <1>3, <1>4, <1>5, OneHeld

\* A restoration disables the camera, releases the selection and ends the journal.
LEMMA RestoreStepHeld ==
  ASSUME HeldInv, NEW k \in Keys,
         RestoreSkipped(k) \/ RestoreDisable(k) \/ RestoreMark(k) \/ RestoredRuns(k)
  PROVE  \A j \in Keys : Held(j)'
<1>1. /\ Typed /\ KeyInv(k) /\ Held(k) /\ job \in Jobs /\ row \in [Keys -> Rows]
      /\ journal \in [Keys -> Journals] /\ camera \in [Keys -> {"none", "off", "on"}] /\ selected \subseteq Keys
  BY DEF HeldInv, ImportInv, Typed, Free
<1>2. job.at = {k}
  BY DEF RestoreSkipped, RestoreDisable, RestoreMark, RestoredRuns, At
<1>3. CASE RestoreSkipped(k) \/ RestoredRuns(k)
  <2>1. Resume(k) /\ journal' = [journal EXCEPT ![k] = NoJournal] /\ camera' = camera /\ insisted' = insisted
    BY <1>3 DEF RestoreSkipped, RestoredRuns, ghosts
  <2>2. job'.at = {} \/ (job'.at = {k} /\ job'.step = "prepare")
    BY <1>1, <1>2, <2>1, ResumeJob
  <2>3. k \notin selected' /\ \A j \in Keys \ {k} : j \in selected' <=> j \in selected
    <3>1. CASE RestoreSkipped(k)
      BY <3>1 DEF RestoreSkipped
    <3>2. CASE RestoredRuns(k)
      BY <1>1, <3>2 DEF RestoredRuns, Held, At, KeyInv, StepJournal
    <3> QED
      BY <1>3, <3>1, <3>2
  <2>4. journal'[k].state = "none"
    BY <1>1, <2>1 DEF NoJournal
  <2>5. Held(k)'
    BY <2>2, <2>3, <2>4, <2>1 DEF Held, PastDisabling, At, NoJournal
  <2>6. \A j \in Keys \ {k} : Alone(j) /\ row'[j].config = row[j].config
    BY <1>1, <2>1, <2>3, ResumeReport DEF Alone
  <2> QED
    BY <2>2, <2>5, <2>6, OneHeld
<1>4. CASE RestoreMark(k)
  <2>1. job'.at = {k} /\ job'.step = "restoreRestart"
    BY <1>1, <1>2, <1>4, GotoJob DEF RestoreMark
  <2>2. /\ journal'[k].state = "restored" /\ journal'[k].handoff = journal[k].handoff
        /\ journal'[k].created = journal[k].created
    BY <1>1, <1>4 DEF RestoreMark, Journals
  <2>3. k \notin selected' /\ camera' = camera /\ insisted' = insisted /\ row' = row /\ journal[k].state # "none"
    BY <1>1, <1>4 DEF RestoreMark, ghosts, At, KeyInv, StepJournal
  <2>4. PastDisabling(k)
    BY <1>4 DEF RestoreMark, At, PastDisabling
  <2>5. Held(k)'
    BY <1>1, <2>1, <2>2, <2>3, <2>4 DEF Held, PastDisabling, At
  <2>6. \A j \in Keys \ {k} : Alone(j) /\ row'[j].config = row[j].config
    BY <1>1, <1>4 DEF RestoreMark, ghosts, Alone
  <2> QED
    BY <2>1, <2>5, <2>6, OneHeld
<1>5. CASE RestoreDisable(k)
  <2>1. journal' = journal /\ selected' = selected
    BY <1>5 DEF RestoreDisable
  <2>2. \A j \in Keys \ {k} : Alone(j) /\ row'[j].config = row[j].config
    <3>1. \A j \in Keys \ {k} : row'[j].config = row[j].config
      BY <1>1, <1>5, RaiseReport DEF RestoreDisable
    <3> QED
      BY <1>1, <1>5, <2>1, <3>1 DEF RestoreDisable, Alone
  <2>3. CASE Raise(k) /\ UNCHANGED <<camera, insisted>>
    <3>1. job'.at = {} \/ (job'.at = {k} /\ job'.step = "restore")
      BY <1>1, <1>2, <2>3, RaiseJob
    <3>2. Held(k)'
      BY <1>1, <2>1, <2>3, <3>1, RaiseReport, HeldAlone DEF Alone
    <3> QED
      BY <2>2, <3>1, <3>2, OneHeld
  <2>4. CASE /\ Goto("restoreWrite") /\ UNCHANGED row
             /\ \/ camera' = [camera EXCEPT ![k] = IF @ = "on" THEN "off" ELSE @]
                \/ ~HasRelay(k) /\ camera' = camera
    <3>1. job'.at = {k} /\ job'.step = "restoreWrite"
      BY <1>1, <1>2, <2>4, GotoJob
    <3>2. camera'[k] # "on" /\ (camera'[k] = "none" <=> camera[k] = "none")
      BY <1>1, <1>5, <2>4 DEF RestoreDisable, HasRelay
    <3>3. Held(k)'
      BY <1>1, <1>2, <2>1, <2>4, <3>1, <3>2 DEF Held, PastDisabling, At
    <3> QED
      BY <2>2, <3>1, <3>3, OneHeld
  <2> QED
    BY <1>5, <2>3, <2>4 DEF RestoreDisable
<1> QED
  BY <1>3, <1>4, <1>5

\* Steps between rows, and requests that touch no camera.
LEMMA BetweenHeld ==
  ASSUME HeldInv, EndJob \/ Crash \/ Recover \/ Preview \/ (\E K \in SUBSET Keys : Import(K))
         \/ FrigateRestarts \/ UNCHANGED vars
         \/ (\E k \in Keys : RestoreImport(k) \/ SelectElsewhere(k) \/ Edit(k))
  PROVE  \A j \in Keys : Held(j)'
<1>1. journal' = journal /\ camera' = camera /\ selected' = selected /\ insisted' = insisted
  BY DEF EndJob, Crash, Recover, Preview, Import, FrigateRestarts, RestoreImport, SelectElsewhere, Edit,
     vars, database, ghosts
<1>2. \A j \in Keys : row'[j].config \in {row[j].config, "none"}
  <2>1. CASE Preview
    BY <2>1 DEF Preview, NoRow
  <2>2. ASSUME NEW K \in SUBSET Keys, Import(K) PROVE \A j \in Keys : row'[j].config \in {row[j].config, "none"}
    BY <2>2 DEF Import, HeldInv, ImportInv, Typed, Rows
  <2>3. row' = row \/ Preview \/ (\E K \in SUBSET Keys : Import(K))
    BY DEF EndJob, Crash, Recover, FrigateRestarts, RestoreImport, SelectElsewhere, Edit, vars, database
  <2> QED
    BY <2>1, <2>2, <2>3
<1>3. job' = job \/ job'.at = {} \/ job'.step = "restore"
  BY IdleJob DEF EndJob, Crash, Recover, Preview, Import, FrigateRestarts, RestoreImport, SelectElsewhere,
     Edit, vars, Idle
<1>4. ASSUME NEW j \in Keys PROVE Held(j)'
  <2>1. Held(j)
    BY DEF HeldInv
  <2> QED
    BY <1>1, <1>2, <1>3, <2>1 DEF Held, PastDisabling, At
<1> QED
  BY <1>4

\* The operator's own switch is remembered, and a camera in use is not dropped.
LEMMA CameraHeld ==
  ASSUME HeldInv, NEW k \in Keys, SetEnabled(k) \/ Unadopt(k)
  PROVE  \A j \in Keys : Held(j)'
<1>1. journal' = journal /\ row' = row /\ job' = job /\ selected' = selected
  BY DEF SetEnabled, Unadopt
<1>2. camera \in [Keys -> {"none", "off", "on"}] /\ ImportInv
  BY DEF HeldInv, Free
<1>3. ASSUME NEW j \in Keys PROVE Held(j)'
  <2>1. Held(j) /\ camera[j] \in {"none", "off", "on"}
    BY <1>2 DEF HeldInv
  <2>2. CASE j # k
    <3>1. camera'[j] = camera[j] /\ (j \in insisted' <=> j \in insisted)
      BY <1>2, <2>2 DEF SetEnabled, Unadopt
    <3> QED
      BY <1>1, <2>1, <3>1 DEF Held, PastDisabling, At
  <2>3. CASE j = k /\ SetEnabled(k)
    <3>1. camera'[k] # "none" /\ camera[k] # "none" /\ (camera'[k] = "on" => camera[k] = "off" /\ k \in insisted')
          /\ (k \in insisted => k \in insisted')
      BY <1>2, <2>1, <2>3 DEF SetEnabled
    <3> QED
      BY <1>1, <2>1, <2>3, <3>1 DEF Held, PastDisabling, At
  <2>4. CASE j = k /\ Unadopt(k)
    <3>1. camera'[k] = "none" /\ journal[k].state = "none" /\ ~journal[k].handoff
      BY <1>2, <2>4 DEF Unadopt, NoJournal
    <3> QED
      BY <1>1, <2>1, <2>4, <3>1 DEF Held, PastDisabling, At
  <2> QED
    BY <2>2, <2>3, <2>4
<1> QED
  BY <1>3

LEMMA SpendBudget ==
  ASSUME budget \in [faults : 0..MaxFaults, requests : 0..MaxRequests],
         Spend("faults") \/ Spend("requests") \/ UNCHANGED budget
  PROVE  budget' \in [faults : 0..MaxFaults, requests : 0..MaxRequests]
<1>1. MaxFaults \in Nat /\ MaxRequests \in Nat
  BY ImportAssumption
<1> QED
  BY <1>1 DEF Spend

LEMMA StepFree == ImportInv /\ Free /\ [Next]_vars => Free'
<1> SUFFICES ASSUME ImportInv, Free, [Next]_vars PROVE Free'
  OBVIOUS
<1> USE DEF Free
<1>1. Spend("faults") \/ Spend("requests") \/ UNCHANGED budget
  <2>1. CASE Advance
    <3>1. ASSUME NEW k \in Keys, BeginRow(k) \/ WriteEntry(k) \/ RestartFrigate(k) \/ ImportFails(k) \/ RestoreFails(k)
          PROVE  Spend("faults") \/ UNCHANGED budget
      BY <3>1 DEF BeginRow, WriteEntry, RestartFrigate, ImportFails, RestoreFails
    <3>2. ASSUME NEW k \in Keys, ImportStep(k) PROVE UNCHANGED budget
      BY <3>2 DEF ImportStep, Prepare, Release, Recheck, Released, Probe, Adopt, LinkAdopted, PrepareRelay,
         Apply, AppliedRuns, Select, Activate
    <3>3. ASSUME NEW k \in Keys, RestoreStep(k) PROVE UNCHANGED budget
      BY <3>3 DEF RestoreStep, RestoreRefused, RestoreSkipped, RestoreRead, RestoreDisable, RestoreMark, RestoredRuns
    <3> QED
      BY <2>1, <3>1, <3>2, <3>3 DEF Advance, EndJob
  <2>2. CASE Recover \/ Crash \/ UNCHANGED vars
    BY <2>2 DEF Recover, Crash, vars
  <2>3. CASE Operator
    BY <2>3 DEF Operator, Preview, Import, FrigateRestarts, RestoreImport, SetEnabled, Unadopt,
       SelectElsewhere, Edit
  <2> QED
    BY <2>1, <2>2, <2>3 DEF Next
<1>2. budget' \in [faults : 0..MaxFaults, requests : 0..MaxRequests]
  BY <1>1, SpendBudget
<1>3. running' \in [Keys -> Forms]
  <2>1. running' = running \/ Restarted
    <3>1. ASSUME NEW k \in Keys, BeginRow(k) \/ WriteEntry(k) \/ RestartFrigate(k) \/ ImportFails(k) \/ RestoreFails(k)
          PROVE  running' = running \/ Restarted
      BY <3>1 DEF BeginRow, WriteEntry, RestartFrigate, ImportFails, RestoreFails, frigate
    <3>2. ASSUME NEW k \in Keys, ImportStep(k) \/ RestoreStep(k) PROVE running' = running
      BY <3>2 DEF ImportStep, Prepare, Release, Recheck, Released, Probe, Adopt, LinkAdopted, PrepareRelay,
         Apply, AppliedRuns, Select, Activate, RestoreStep, RestoreRefused, RestoreSkipped, RestoreRead,
         RestoreDisable, RestoreMark, RestoredRuns, frigate
    <3>3. CASE EndJob \/ Recover \/ Crash \/ Operator \/ UNCHANGED vars
      BY <3>3 DEF EndJob, Recover, Crash, vars, Operator, Preview, Import, FrigateRestarts, RestoreImport,
         SetEnabled, Unadopt, SelectElsewhere, Edit, frigate
    <3> QED
      BY <3>1, <3>2, <3>3 DEF Next, Advance
  <2>2. \A k \in Keys : saved[k].form \in Forms
    BY DEF ImportInv, Typed, Entries
  <2> QED
    BY <2>1, <2>2 DEF Restarted
<1>4. camera' \in [Keys -> {"none", "off", "on"}] /\ elsewhere' \subseteq {k \in Keys : camera'[k] # "none"}
  <2>1. ASSUME NEW k \in Keys, NEW s \in {"none", "off", "on"}, camera' = [camera EXCEPT ![k] = s],
               elsewhere' \subseteq elsewhere \cup {k}, k \in elsewhere' => s # "none"
        PROVE  camera' \in [Keys -> {"none", "off", "on"}] /\ elsewhere' \subseteq {j \in Keys : camera'[j] # "none"}
    BY <2>1
  <2>2. ASSUME NEW k \in Keys, Adopt(k) \/ PrepareRelay(k) \/ SetEnabled(k) \/ Unadopt(k) \/ SelectElsewhere(k)
        PROVE  camera' \in [Keys -> {"none", "off", "on"}] /\ elsewhere' \subseteq {j \in Keys : camera'[j] # "none"}
    <3>1. CASE Adopt(k) \/ PrepareRelay(k)
      BY <2>1, <3>1 DEF Adopt, PrepareRelay
    <3>2. CASE SetEnabled(k)
      BY <2>1, <3>2 DEF SetEnabled
    <3>3. CASE Unadopt(k)
      BY <2>1, <3>3 DEF Unadopt
    <3>4. CASE SelectElsewhere(k)
      BY <3>4 DEF SelectElsewhere
    <3> QED
      BY <2>2, <3>1, <3>2, <3>3, <3>4
  <2>3. ASSUME NEW k \in Keys, RestoreDisable(k), ~UNCHANGED camera
        PROVE  camera' \in [Keys -> {"none", "off", "on"}] /\ elsewhere' \subseteq {j \in Keys : camera'[j] # "none"}
    BY <2>1, <2>3 DEF RestoreDisable
  <2>4. \/ UNCHANGED <<camera, elsewhere>>
        \/ \E k \in Keys : \/ Adopt(k) \/ PrepareRelay(k) \/ SetEnabled(k) \/ Unadopt(k) \/ SelectElsewhere(k)
                           \/ (RestoreDisable(k) /\ ~UNCHANGED camera)
    <3>1. ASSUME NEW k \in Keys, BeginRow(k) \/ WriteEntry(k) \/ RestartFrigate(k) \/ ImportFails(k) \/ RestoreFails(k)
          PROVE  UNCHANGED <<camera, elsewhere>>
      BY <3>1 DEF BeginRow, WriteEntry, RestartFrigate, ImportFails, RestoreFails, database
    <3>2. ASSUME NEW k \in Keys, ImportStep(k)
          PROVE  UNCHANGED <<camera, elsewhere>> \/ Adopt(k) \/ PrepareRelay(k)
      BY <3>2 DEF ImportStep, Prepare, Release, Recheck, Released, Probe, LinkAdopted,
         Apply, AppliedRuns, Select, Activate, database
    <3>3. ASSUME NEW k \in Keys, RestoreStep(k)
          PROVE  UNCHANGED <<camera, elsewhere>> \/ (RestoreDisable(k) /\ ~UNCHANGED camera)
      BY <3>3 DEF RestoreStep, RestoreRefused, RestoreSkipped, RestoreRead, RestoreDisable, RestoreMark,
         RestoredRuns, database
    <3>4. CASE EndJob \/ Recover \/ Crash \/ UNCHANGED vars
      BY <3>4 DEF EndJob, Recover, Crash, vars, database
    <3>5. CASE Operator
      BY <3>5 DEF Operator, Preview, Import, FrigateRestarts, RestoreImport, Edit, database
    <3> QED
      BY <3>1, <3>2, <3>3, <3>4, <3>5 DEF Next, Advance
  <2> QED
    BY <2>2, <2>3, <2>4
<1>5. selected' \subseteq Keys /\ insisted' \subseteq Keys /\ troubled' \subseteq Keys /\ recovering' \in BOOLEAN
  <2>1. ASSUME NEW k \in Keys, BeginRow(k) \/ WriteEntry(k) \/ RestartFrigate(k) \/ ImportFails(k) \/ RestoreFails(k)
        PROVE  selected' \subseteq Keys /\ insisted' \subseteq Keys /\ troubled' \subseteq Keys /\ recovering' \in BOOLEAN
    BY <2>1 DEF BeginRow, WriteEntry, RestartFrigate, ImportFails, RestoreFails, Trouble, database, ghosts
  <2>2. ASSUME NEW k \in Keys, ImportStep(k) \/ RestoreStep(k)
        PROVE  selected' \subseteq Keys /\ insisted' \subseteq Keys /\ troubled' \subseteq Keys /\ recovering' \in BOOLEAN
    BY <2>2 DEF ImportStep, Prepare, Release, Recheck, Released, Probe, Adopt, LinkAdopted, PrepareRelay,
       Apply, AppliedRuns, Select, Activate, RestoreStep, RestoreRefused, RestoreSkipped, RestoreRead,
       RestoreDisable, RestoreMark, RestoredRuns, database, ghosts
  <2>3. CASE EndJob \/ Recover \/ Crash \/ UNCHANGED vars
    BY <2>3 DEF EndJob, Recover, Crash, vars, database, ghosts
  <2>4. CASE Operator
    BY <2>4 DEF Operator, Preview, Import, FrigateRestarts, RestoreImport, SetEnabled, Unadopt,
       SelectElsewhere, Edit, database, ghosts
  <2> QED
    BY <2>1, <2>2, <2>3, <2>4 DEF Next, Advance
<1> QED
  BY <1>2, <1>3, <1>4, <1>5

LEMMA StepHeld == HeldInv /\ [Next]_vars => HeldInv'
<1> SUFFICES ASSUME HeldInv, [Next]_vars PROVE HeldInv'
  OBVIOUS
<1>1. ImportInv' /\ Free'
  BY StepInv, StepFree DEF HeldInv
<1>2. \A k \in Keys : Held(k)'
  <2>1. ASSUME NEW k \in Keys, ImportStep(k) PROVE \A j \in Keys : Held(j)'
    BY <2>1, QuietRowHeld, ImportStepHeld DEF ImportStep
  <2>2. ASSUME NEW k \in Keys, RestoreStep(k) PROVE \A j \in Keys : Held(j)'
    BY <2>2, QuietRowHeld, RestoreStepHeld DEF RestoreStep
  <2>3. ASSUME NEW k \in Keys, BeginRow(k) \/ WriteEntry(k) \/ RestartFrigate(k) \/ ImportFails(k) \/ RestoreFails(k)
        PROVE  \A j \in Keys : Held(j)'
    BY <2>3, QuietRowHeld
  <2>4. ASSUME NEW k \in Keys, SetEnabled(k) \/ Unadopt(k) PROVE \A j \in Keys : Held(j)'
    BY <2>4, CameraHeld
  <2> QED
    BY <2>1, <2>2, <2>3, <2>4, BetweenHeld DEF Next, Advance, Operator
<1> QED
  BY <1>1, <1>2 DEF HeldInv

LEMMA InitHeld == Init => HeldInv
<1> SUFFICES ASSUME Init PROVE HeldInv
  OBVIOUS
<1>1. Free
  BY DEF Init, Free, Forms
<1>2. ASSUME NEW k \in Keys PROVE Held(k)
  BY DEF Init, Held, PastDisabling, At, NoJournal, NoRow, Idle
<1> QED
  BY <1>1, <1>2, InitInv DEF HeldInv

-----------------------------------------------------------------------------
(* Every step is one of Takeover's, or none. *)

Writing == {"releaseWrite", "applyWrite", "restoreDisable", "restoreWrite"}

LEMMA SeenIs ==
  /\ \A k \in Keys : job.at = {k} => Seen = IF job.step \in Writing THEN {k} ELSE {}
  /\ job.at = {} => Seen = {}
  BY DEF Seen, Writing

LEMMA SeenWillBe ==
  /\ \A k \in Keys : job'.at = {k} => Seen' = IF job'.step \in Writing THEN {k} ELSE {}
  /\ job'.at = {} => Seen' = {}
  BY DEF Seen, Writing

LEMMA KeptSame ==
  ASSUME \A k \in Keys : journal'[k].version = journal[k].version
  PROVE  Kept' = Kept
  BY DEF Kept

\* A step that leaves entries and versions alone, and sees no more than before.
LEMMA Forgetting ==
  ASSUME NEW k \in Keys, saved' = saved, Kept' = Kept,
         Seen' = Seen \/ (Seen = {k} /\ Seen' = {})
  PROVE  [Promise!TakeoverNext]_(Promise!takeover)
<1>1. CASE Seen' = Seen
  BY <1>1 DEF Promise!takeover
<1>2. CASE Seen = {k} /\ Seen' = {}
  BY <1>2 DEF Promise!TakeoverNext, Promise!Forget
<1> QED
  BY <1>1, <1>2

\* A step of a row that only goes from one step of no write to another.
LEMMA Stutter ==
  ASSUME NEW k \in Keys, saved' = saved, \A j \in Keys : journal'[j].version = journal[j].version,
         job.at = {k}, job.step \notin Writing, job'.at = {} \/ (job'.at = {k} /\ job'.step \notin Writing)
  PROVE  [Promise!TakeoverNext]_(Promise!takeover)
<1>1. Seen = {} /\ Seen' = {}
  BY SeenIs, SeenWillBe
<1> QED
  BY <1>1, KeptSame, Forgetting

\* A step of a row that fails, before or instead of its write.
LEMMA Abandon ==
  ASSUME Typed, NEW k \in Keys, job.at = {k}, saved' = saved,
         \A j \in Keys : journal'[j].version = journal[j].version,
         Raise(k) \/ (Goto("restore") /\ "restore" \in Steps)
  PROVE  [Promise!TakeoverNext]_(Promise!takeover)
<1>1. job'.at = {} \/ (job'.at = {k} /\ job'.step \notin Writing)
  BY RaiseJob, GotoJob DEF Typed, Writing
<1>2. Seen' = {} /\ Seen \in {{}, {k}}
  BY <1>1, SeenIs, SeenWillBe
<1> QED
  BY <1>2, KeptSame, Forgetting

LEMMA ImportStepMoves ==
  ASSUME ImportInv, NEW k \in Keys,
         Prepare(k) \/ Released(k) \/ Probe(k) \/ Adopt(k) \/ LinkAdopted(k) \/ PrepareRelay(k)
         \/ AppliedRuns(k) \/ Select(k) \/ Activate(k)
  PROVE  [Promise!TakeoverNext]_(Promise!takeover)
<1>1. Typed /\ KeyInv(k) /\ job \in Jobs /\ journal \in [Keys -> Journals]
  BY DEF ImportInv, Typed
<1>2. saved' = saved /\ job.at = {k} /\ job.step \notin Writing
  BY DEF Prepare, Released, Probe, Adopt, LinkAdopted, PrepareRelay, AppliedRuns, Select, Activate,
         At, frigate, Writing
<1>3. \A j \in Keys : journal'[j].version = journal[j].version
  <2>1. \/ journal' = journal \/ journal' = [journal EXCEPT ![k].linked = TRUE]
        \/ \E s \in {"paused", "active"} : journal' = [journal EXCEPT ![k].state = s]
    BY DEF Prepare, Released, Probe, Adopt, LinkAdopted, PrepareRelay, AppliedRuns, Select, Activate,
       database
  <2> QED
    BY <1>1, <2>1 DEF Journals
<1>4. job'.at = {} \/ (job'.at = {k} /\ job'.step \notin Writing)
  <2>1. CASE Released(k)
    <3>1. job.back \in Backs
      BY <1>1, <2>1 DEF Released, At, KeyInv, StepJournal
    <3>2. job' \in {[job EXCEPT !.step = job.back, !.back = "none"],
                    [job EXCEPT !.step = "restore", !.back = "none", !.handling = TRUE]}
      BY <2>1 DEF Released
    <3> QED
      BY <1>1, <1>2, <3>1, <3>2 DEF Jobs, Writing
  <2>2. CASE Activate(k)
    BY <1>1, <2>2, NextRowJob DEF Activate
  <2>3. CASE Prepare(k) \/ Probe(k)
    <3>1. \E s \in {"relay", "probe", "release", "adopt", "apply"}, b \in {"none"} \cup Backs :
             job' = [job EXCEPT !.step = s] \/ job' = [job EXCEPT !.step = s, !.back = b]
      BY <2>3 DEF Prepare, Probe, Goto
    <3> QED
      BY <1>1, <1>2, <3>1 DEF Jobs, Writing
  <2>4. CASE Adopt(k) \/ LinkAdopted(k) \/ PrepareRelay(k) \/ AppliedRuns(k) \/ Select(k)
    <3>1. \E s \in {"link", "relay", "relayProbe", "select", "activate"} : Goto(s)
      BY <2>4 DEF Adopt, LinkAdopted, PrepareRelay, AppliedRuns, Select
    <3> QED
      BY <1>1, <1>2, <3>1, GotoJob DEF Writing
  <2> QED
    BY <2>1, <2>2, <2>3, <2>4
<1> QED
  BY <1>2, <1>3, <1>4, Stutter

\* The checks before a write find the entry of the version that is kept.
LEMMA CheckMoves ==
  ASSUME ImportInv, NEW k \in Keys, Recheck(k) \/ RestoreRead(k)
  PROVE  [Promise!TakeoverNext]_(Promise!takeover)
<1>1. Typed /\ KeyInv(k) /\ job \in Jobs /\ journal[k] \in Journals
  BY DEF ImportInv, Typed
<1>2. saved' = saved /\ journal' = journal /\ job.at = {k} /\ job.step \notin Writing
  BY DEF Recheck, RestoreRead, At, frigate, database, Writing
<1>3. \E s \in Writing : Goto(s) /\ s \in Steps
  BY DEF Recheck, RestoreRead, Writing
<1>4. job'.at = {k} /\ job'.step \in Writing
  BY <1>1, <1>2, <1>3, GotoJob
<1>5. Seen = {} /\ Seen' = {k} /\ Kept' = Kept
  BY <1>2, <1>4, SeenIs, SeenWillBe, KeptSame
<1>6. Kept[k] = journal[k].version /\ journal[k].version # 0 /\ saved[k].version = journal[k].version
  BY <1>1, <1>2 DEF Recheck, RestoreRead, Unchanged, Recognised, At, Kept, KeyInv, StepJournal,
     StepVersions
<1>7. Promise!See(k)
  BY <1>2, <1>5, <1>6 DEF Promise!See
<1> QED
  BY <1>7 DEF Promise!TakeoverNext

\* The journal is first saved over the operator's own entry.
LEMMA KeepMoves ==
  ASSUME ImportInv, NEW k \in Keys, Release(k) \/ Apply(k)
  PROVE  [Promise!TakeoverNext]_(Promise!takeover)
<1>1. /\ Typed /\ KeyInv(k) /\ job \in Jobs /\ journal \in [Keys -> Journals]
      /\ row[k] \in Rows /\ saved[k] \in Entries
  BY DEF ImportInv, Typed
<1>2. saved' = saved /\ job.at = {k} /\ job.step \notin Writing
  BY DEF Release, Apply, At, frigate, Writing
<1>3. job'.at = {k} /\ job'.step \notin Writing
  <2>1. \E s \in {"releaseCheck", "applyCheck"} : Goto(s)
    BY DEF Release, Apply
  <2> QED
    BY <1>1, <1>2, <2>1, GotoJob DEF Writing
<1>4. Seen = {} /\ Seen' = {}
  BY <1>2, <1>3, SeenIs, SeenWillBe
<1>5. journal'[k].version = row[k].version /\ \A j \in Keys \ {k} : journal'[j].version = journal[j].version
  BY <1>1 DEF Release, Apply
<1>6. row[k].version # 0 /\ row[k].version <= saved[k].version
  BY <1>1, <1>2 DEF KeyInv, StepVersions, Release, Apply, At
<1>7. CASE journal[k].state = "none"
  <2>1. Kept[k] = 0 /\ saved[k].form = "own" /\ Kept' = [Kept EXCEPT ![k] = row[k].version]
    BY <1>1, <1>5, <1>7 DEF Kept, KeyInv
  <2>2. row[k].version \in 1..saved[k].version
    BY <1>1, <1>6 DEF Rows, Entries
  <2>3. Promise!Keep(k)
    BY <1>2, <1>4, <2>1, <2>2 DEF Promise!Keep
  <2> QED
    BY <2>3 DEF Promise!TakeoverNext
<1>8. CASE journal[k].state # "none"
  <2>1. journal[k].version = row[k].version
    BY <1>1, <1>2, <1>8 DEF KeyInv, StepVersions, Release, Apply, At
  <2>2. Kept' = Kept
    BY <1>5, <2>1, KeptSame
  <2> QED
    BY <1>2, <1>4, <2>2, Forgetting
<1> QED
  BY <1>7, <1>8

LEMMA WriteMoves ==
  ASSUME ImportInv, NEW k \in Keys, WriteEntry(k)
  PROVE  [Promise!TakeoverNext]_(Promise!takeover)
<1>1. Typed /\ KeyInv(k) /\ job \in Jobs /\ journal \in [Keys -> Journals]
  BY DEF ImportInv, Typed
<1>2. /\ journal' = journal /\ job.at = {k} /\ job.step \in {"releaseWrite", "applyWrite", "restoreWrite"}
      /\ saved' = [saved EXCEPT ![k] = [form |-> Written(job.step), version |-> journal[k].version]]
      /\ Goto(AfterWrite(job.step)) \/ Goto("restore") \/ Raise(k)
  BY DEF WriteEntry, TryAgain
<1>3. job'.at = {} \/ (job'.at = {k} /\ job'.step \notin Writing)
  <2>1. AfterWrite(job.step) \in Steps \ Writing
    BY <1>2 DEF AfterWrite, Writing
  <2> QED
    BY <1>1, <1>2, <2>1, GotoJob, RaiseJob DEF Writing
<1>4. Seen = {k} /\ Seen' = {} /\ Kept' = Kept
  BY <1>2, <1>3, SeenIs, SeenWillBe, KeptSame DEF Writing
<1>5. Kept[k] = journal[k].version /\ Kept[k] # 0
  BY <1>1, <1>2 DEF Kept, KeyInv, StepJournal, Writing
<1>6. Written(job.step) \in Promise!Forms
  BY <1>2 DEF Written, Promise!Forms
<1>7. Promise!Write(k)
  BY <1>2, <1>4, <1>5, <1>6 DEF Promise!Write
<1> QED
  BY <1>7 DEF Promise!TakeoverNext

\* The original is given up when the entry is the operator's.
LEMMA GiveUpMoves ==
  ASSUME ImportInv, NEW k \in Keys, RestoreSkipped(k) \/ RestoredRuns(k)
  PROVE  [Promise!TakeoverNext]_(Promise!takeover)
<1>1. Typed /\ KeyInv(k) /\ journal \in [Keys -> Journals]
  BY DEF ImportInv, Typed
<1>2. /\ saved' = saved /\ job.at = {k} /\ job.step \in {"restore", "restoreWait"} /\ Resume(k)
      /\ journal' = [journal EXCEPT ![k] = NoJournal]
  BY DEF RestoreSkipped, RestoredRuns, At, frigate
<1>3. saved[k].form = "own"
  BY <1>1 DEF RestoreSkipped, RestoredRuns, At, Skippable, KeyInv, StepVersions
<1>4. Seen = {} /\ Seen' = {}
  BY <1>1, <1>2, ResumeJob, SeenIs, SeenWillBe DEF Writing
<1>5. Kept[k] # 0 /\ Kept' = [Kept EXCEPT ![k] = 0]
  BY <1>1, <1>2 DEF Kept, NoJournal, KeyInv, StepJournal
<1>6. Promise!GiveUp(k)
  BY <1>2, <1>3, <1>4, <1>5 DEF Promise!GiveUp
<1> QED
  BY <1>6 DEF Promise!TakeoverNext

LEMMA RestoreStepMoves ==
  ASSUME ImportInv, NEW k \in Keys, RestoreRefused(k) \/ RestoreDisable(k) \/ RestoreMark(k)
  PROVE  [Promise!TakeoverNext]_(Promise!takeover)
<1>1. Typed /\ job \in Jobs /\ journal \in [Keys -> Journals]
  BY DEF ImportInv, Typed
<1>2. saved' = saved /\ job.at = {k}
  BY DEF RestoreRefused, RestoreDisable, RestoreMark, At, frigate
<1>3. CASE RestoreRefused(k)
  BY <1>1, <1>2, <1>3, Abandon DEF RestoreRefused
<1>4. CASE RestoreDisable(k) /\ Raise(k)
  BY <1>1, <1>2, <1>4, Abandon DEF RestoreDisable
<1>5. CASE RestoreDisable(k) /\ Goto("restoreWrite")
  <2>1. job'.at = {k} /\ job'.step = "restoreWrite" /\ job.step = "restoreDisable"
    BY <1>1, <1>2, <1>5, GotoJob DEF RestoreDisable, At
  <2>2. Seen = {k} /\ Seen' = {k}
    BY <1>2, <2>1, SeenIs, SeenWillBe DEF Writing
  <2>3. Kept' = Kept
    BY <1>5, KeptSame DEF RestoreDisable
  <2> QED
    BY <1>2, <2>2, <2>3, Forgetting
<1>6. CASE RestoreMark(k)
  <2>1. job'.at = {k} /\ job'.step \notin Writing /\ job.step \notin Writing
    BY <1>1, <1>2, <1>6, GotoJob DEF RestoreMark, At, Writing
  <2>2. \A j \in Keys : journal'[j].version = journal[j].version
    BY <1>1, <1>6 DEF RestoreMark, Journals
  <2> QED
    BY <1>2, <2>1, <2>2, Stutter
<1> QED
  BY <1>3, <1>4, <1>5, <1>6 DEF RestoreDisable

LEMMA OtherMoves ==
  ASSUME ImportInv, NEW k \in Keys, ImportFails(k) \/ RestoreFails(k) \/ RestartFrigate(k) \/ BeginRow(k)
  PROVE  [Promise!TakeoverNext]_(Promise!takeover)
<1>1. Typed /\ job \in Jobs
  BY DEF ImportInv, Typed
<1>2. saved' = saved /\ journal' = journal
  BY DEF ImportFails, RestoreFails, RestartFrigate, BeginRow, frigate, database
<1>3. CASE ImportFails(k) \/ RestoreFails(k)
  BY <1>1, <1>2, <1>3, Abandon DEF ImportFails, RestoreFails, TryAgain
<1>4. CASE RestartFrigate(k)
  <2>1. /\ job.at = {k} /\ job.step \notin Writing
        /\ AfterRestart(job.step) \in Steps \ Writing /\ Goto(AfterRestart(job.step))
    BY <1>4 DEF RestartFrigate, AfterRestart, Writing
  <2> QED
    BY <1>1, <1>2, <2>1, GotoJob, Stutter
<1>5. CASE BeginRow(k)
  <2>1. Seen = {}
    BY <1>5 DEF BeginRow, Seen
  <2>2. \/ job' = NextRow(k) \/ job' = [job EXCEPT !.step = "prepare", !.at = {k}]
        \/ job' = [job EXCEPT !.step = "restore", !.at = {k}]
    BY <1>5 DEF BeginRow
  <2>3. job'.at = {} \/ (job'.at = {k} /\ job'.step \notin Writing)
    BY <1>1, <2>2, NextRowJob DEF Jobs, Writing
  <2>4. Seen' = {}
    BY <2>3, SeenWillBe
  <2> QED
    BY <1>2, <2>1, <2>4, KeptSame, Forgetting
<1> QED
  BY <1>3, <1>4, <1>5

\* Steps between rows: a job begins, ends, or is ended by a crash.
LEMMA JobMoves ==
  ASSUME ImportInv, saved' = saved, journal' = journal,
         job'.at = {} \/ job' = job \/ job'.step = "restore"
  PROVE  [Promise!TakeoverNext]_(Promise!takeover)
<1>1. Kept' = Kept
  BY KeptSame
<1>2. CASE job' = job
  <2>1. Seen' = Seen
    BY <1>2 DEF Seen
  <2> QED
    BY <1>1, <2>1 DEF Promise!takeover
<1>3. CASE job'.at = {} \/ job'.step = "restore"
  <2>1. Seen' = {}
    BY <1>3 DEF Seen
  <2>2. CASE Seen = {}
    BY <1>1, <2>1, <2>2 DEF Promise!takeover
  <2>3. ASSUME NEW k \in Keys, job.at = {k}, job.step \in Writing PROVE Seen = {k}
    BY <2>3, SeenIs
  <2> QED
    BY <1>1, <2>1, <2>2, <2>3, Forgetting DEF Seen, Writing
<1> QED
  BY <1>2, <1>3

LEMMA EditMoves ==
  ASSUME ImportInv, NEW k \in Keys, Edit(k)
  PROVE  [Promise!TakeoverNext]_(Promise!takeover)
<1>1. Kept' = Kept /\ Seen' = Seen
  BY DEF Edit, database, Kept, Seen
<1>2. Promise!Edit(k)
  BY <1>1 DEF Edit, Promise!Edit
<1> QED
  BY <1>2 DEF Promise!TakeoverNext

LEMMA StepRefines == ImportInv /\ [Next]_vars => [Promise!TakeoverNext]_(Promise!takeover)
<1> SUFFICES ASSUME ImportInv, [Next]_vars PROVE [Promise!TakeoverNext]_(Promise!takeover)
  OBVIOUS
<1>1. ASSUME EndJob \/ Recover \/ Crash \/ Preview \/ FrigateRestarts \/ UNCHANGED vars
             \/ (\E K \in SUBSET Keys : Import(K))
             \/ (\E k \in Keys : RestoreImport(k) \/ SetEnabled(k) \/ Unadopt(k) \/ SelectElsewhere(k))
      PROVE  [Promise!TakeoverNext]_(Promise!takeover)
  <2>1. saved' = saved /\ journal' = journal
    BY <1>1 DEF EndJob, Recover, Crash, Preview, FrigateRestarts, vars, Import, RestoreImport,
       SetEnabled,
                Unadopt, SelectElsewhere, frigate, database
  <2>2. job'.at = {} \/ job' = job \/ job'.step = "restore"
    <3>1. CASE EndJob \/ Crash
      BY <3>1, IdleJob DEF EndJob, Crash
    <3>6. CASE Recover
      BY <3>6 DEF Recover, Idle
    <3>2. CASE Preview \/ FrigateRestarts \/ UNCHANGED vars
      BY <3>2 DEF Preview, FrigateRestarts, vars
    <3>3. ASSUME NEW K \in SUBSET Keys, Import(K) PROVE job'.at = {}
      BY <3>3 DEF Import, Idle
    <3>4. ASSUME NEW k \in Keys, RestoreImport(k) PROVE job'.step = "restore"
      BY <3>4 DEF RestoreImport, Idle
    <3>5. ASSUME NEW k \in Keys, SetEnabled(k) \/ Unadopt(k) \/ SelectElsewhere(k) PROVE job' = job
      BY <3>5 DEF SetEnabled, Unadopt, SelectElsewhere
    <3> QED
      BY <1>1, <3>1, <3>2, <3>3, <3>4, <3>5, <3>6
  <2> QED
    BY <2>1, <2>2, JobMoves
<1>2. ASSUME NEW k \in Keys, ImportStep(k) \/ RestoreStep(k) \/ WriteEntry(k)
                             \/ RestartFrigate(k) \/ BeginRow(k) \/ ImportFails(k) \/ RestoreFails(k) \/ Edit(k)
      PROVE  [Promise!TakeoverNext]_(Promise!takeover)
  BY <1>2, ImportStepMoves, CheckMoves, KeepMoves, WriteMoves, GiveUpMoves, RestoreStepMoves,
     OtherMoves,
     EditMoves DEF ImportStep, RestoreStep
<1> QED
  BY <1>1, <1>2 DEF Next, Advance, Operator

-----------------------------------------------------------------------------
LEMMA InvHolds == Spec => []ImportInv
<1> QED
  BY InitInv, StepInv, PTL DEF Spec

LEMMA HeldHolds == Spec => []HeldInv
<1> QED
  BY InitHeld, StepHeld, PTL DEF Spec

\* Every variable keeps its type: a camera is selected for an import only under
\* a journal, and an active journal has its camera adopted and selected
\* (frigate_import_links, execute, restore).
THEOREM TypeCorrect == Spec => []TypeOK
<1>1. HeldInv => TypeOK
  BY DEF HeldInv, ImportInv, Typed, Free, Held, TypeOK
<1> QED
  BY <1>1, HeldHolds, PTL

\* When the original entry of a handoff is back in Frigate, the camera that this
\* import adopted does not hold the source's last connection, whatever failed or
\* crashed on the way, unless the operator enabled it since (restore).
THEOREM ReaderReturns == Spec => []ReaderComesBack
<1>1. HeldInv => ReaderComesBack
  BY DEF HeldInv, Held, PastDisabling, ReaderComesBack
<1> QED
  BY <1>1, HeldHolds, PTL

\* A finished job that reports "unchanged" or "restored" of a camera says so of
\* an entry in the operator's form, even after crashes (execute, recover_handoffs).
THEOREM ReportsAreTrue == Spec => []ResultsAreTrue
<1>1. HeldInv => ResultsAreTrue
  BY DEF HeldInv, Held, ImportInv, KeyInv, ResultsAreTrue
<1> QED
  BY <1>1, HeldHolds, PTL

\* The import keeps what Takeover promises: it rewrites an entry of Frigate only
\* while it keeps the original and after it has seen that the entry has not
\* changed, and gives the original up only when the entry is the operator's
\* (execute, restore, recover_handoffs).
THEOREM ImportImplementsTakeover == Spec => Implements
<1>1. Init => Promise!TakeoverInit
  BY DEF Init, Promise!TakeoverInit, Kept, Seen, NoJournal, Idle
<1> QED
  BY <1>1, InvHolds, StepRefines, PTL DEF Spec, Implements, Promise!TakeoverSpec

\* While an entry of Frigate is switched off or reads CamAdmiral's relay, the
\* operator's original is in the journal (frigate_import_links, _handoffs).
THEOREM OriginalsKept == Spec => []Promise!OriginalsAreKept
<1>1. ImportInv => Promise!OriginalsAreKept
  BY DEF ImportInv, KeyInv, Promise!OriginalsAreKept, Kept
<1> QED
  BY <1>1, InvHolds, PTL
=============================================================================
