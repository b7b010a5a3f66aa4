------------------------- MODULE AdministrationProofs -------------------------
(***************************************************************************)
(* Theorems about the parts that MCAdministration puts together beside     *)
(* AutoApprove: SyncGuard, CsvImport and ConnectionHealth, for every set   *)
(* of people, runs, presses, targets and jobs, and about the composition.  *)
(***************************************************************************)
EXTENDS MCAdministration, AutoApproveProofs, Sequences, FiniteSetTheorems

-----------------------------------------------------------------------------
(* ConnectionHealth: what the run that holds the lock has read of a target  *)
(* it still has to check is what the table says.                            *)

\* The lock is held by one run.
OneJob == \A r, s \in Jobs : job[r].held /\ job[s].held => r = s

\* Only the holder has something to do, and nobody changed what it has read of it.
JobInv ==
  \A r \in Jobs :
    /\ ~job[r].held => job[r].todo = {}
    /\ \A t \in job[r].todo : job[r].read[t] = row[t]

\* A row that was deleted takes its failures along.
TroubleInv == \A t \in Targets : ~row[t].known => trouble[t] = Health!Never

\* The inductive invariant of ConnectionHealth.
HealthInv ==
  Health!TypeOK /\ OneJob /\ JobInv /\ TroubleInv /\ Health!FailingSinceTrue

\* Never is no moment.
LEMMA NeverLater == Health!Never \notin Health!Time
  BY HealthAssumption DEF Health!ConnectionHealthAssumption, Health!Never, Health!Time

\* What is absent is a row that never failed.
LEMMA AbsentTyped ==
  /\ Health!Absent \in Health!Row /\ ~Health!Absent.known
  /\ Health!Absent.since = Health!Never
  BY HealthAssumption DEF Health!ConnectionHealthAssumption, Health!Absent, Health!Row,
     Health!Time, Health!Never

\* At first no connection has a row.
LEMMA HealthInit == Health!Init => HealthInv
  <1>1. Health!Off \in [held : BOOLEAN, read : [Targets -> Health!Row], todo : SUBSET Targets]
    BY AbsentTyped DEF Health!Off
  <1>2. 0 \in Health!Time
    BY HealthAssumption DEF Health!ConnectionHealthAssumption, Health!Time
  <1>3. ~Health!Off.held /\ Health!Off.todo = {}
    BY DEF Health!Off
  <1>4. QED
    BY <1>1, <1>2, <1>3, AbsentTyped DEF Health!Init, HealthInv, Health!TypeOK, OneJob, JobInv, TroubleInv,
       Health!FailingSinceTrue

\* A run that starts is alone and finds what the table says.
LEMMA StartKeepsHealth ==
  ASSUME HealthInv, NEW r \in Jobs, Health!Start(r)
  PROVE  HealthInv'
  <1>1. /\ job \in [Jobs -> [held : BOOLEAN, read : [Targets -> Health!Row], todo : SUBSET Targets]]
        /\ row \in [Targets -> Health!Row] /\ trouble \in [Targets -> Health!Time \cup {Health!Never}]
    BY DEF HealthInv, Health!TypeOK
  <1>2. /\ \A s \in Jobs : ~job[s].held /\ job[s].todo = {}
        /\ job' = [job EXCEPT ![r] = [held |-> TRUE, read |-> row,
                                      todo |-> {t \in inUse : Health!Due(t)}]]
        /\ row' = [t \in Targets |-> IF t \in Health!Gone THEN Health!Absent ELSE row[t]]
        /\ trouble' = [t \in Targets |-> IF t \in Health!Gone THEN Health!Never ELSE trouble[t]]
        /\ UNCHANGED <<clock, inUse>>
    BY DEF Health!Start, Health!LockFree, HealthInv, JobInv
  <1>3. job'[r] = [held |-> TRUE, read |-> row, todo |-> {t \in inUse : Health!Due(t)}]
    BY <1>1, <1>2
  <1>4. \A s \in Jobs \ {r} : job'[s] = job[s]
    BY <1>1, <1>2
  <1>5. inUse \subseteq Targets
    BY DEF HealthInv, Health!TypeOK
  <1>6. Health!TypeOK'
    <2>1. job' \in [Jobs -> [held : BOOLEAN, read : [Targets -> Health!Row], todo : SUBSET Targets]]
      BY <1>1, <1>2, <1>5
    <2>2. row' \in [Targets -> Health!Row] /\ trouble' \in [Targets -> Health!Time \cup {Health!Never}]
      BY <1>1, <1>2, AbsentTyped
    <2>3. \A t \in Targets : row'[t].known => (row'[t].ok <=> row'[t].since = Health!Never)
      BY <1>2, AbsentTyped DEF HealthInv, Health!TypeOK
    <2>4. QED
      BY <1>2, <2>1, <2>2, <2>3 DEF HealthInv, Health!TypeOK
  <1>7. OneJob'
    BY <1>2, <1>3, <1>4 DEF OneJob
  <1>8. JobInv'
    <2>1. ASSUME NEW t \in job'[r].todo PROVE job'[r].read[t] = row'[t]
      <3>1. t \in inUse /\ t \in Targets
        BY <1>3, <1>5, <2>1
      <3>2. t \notin Health!Gone
        BY <3>1 DEF Health!Gone
      <3>3. QED
        BY <1>2, <1>3, <3>1, <3>2
    <2>2. job'[r].held
      BY <1>3
    <2>3. QED
      BY <1>2, <1>4, <2>1, <2>2 DEF JobInv
  <1>9. TroubleInv' /\ Health!FailingSinceTrue'
    BY <1>2, AbsentTyped DEF HealthInv, TroubleInv, Health!FailingSinceTrue
  <1>10. QED
    BY <1>6, <1>7, <1>8, <1>9 DEF HealthInv

\* The result is stored beside what was read, which is what the table said.
LEMMA SaveKeepsHealth ==
  ASSUME HealthInv, NEW r \in Jobs, NEW t \in Targets, NEW ok \in BOOLEAN, Health!Save(r, t, ok)
  PROVE  HealthInv'
  <1>1. /\ job \in [Jobs -> [held : BOOLEAN, read : [Targets -> Health!Row], todo : SUBSET Targets]]
        /\ row \in [Targets -> Health!Row] /\ trouble \in [Targets -> Health!Time \cup {Health!Never}]
        /\ clock \in Health!Time /\ inUse \subseteq Targets
    BY DEF HealthInv, Health!TypeOK
  <1> DEFINE since == Health!NextFailingSince(job[r].read[t], ok)
             new   == [known |-> TRUE, ok |-> ok, checked |-> clock, since |-> since]
             bad   == IF ok THEN Health!Never ELSE IF trouble[t] = Health!Never THEN clock ELSE trouble[t]
  <1>2. /\ t \in job[r].todo /\ job[r].held
        /\ row' = [row EXCEPT ![t] = new]
        /\ trouble' = [trouble EXCEPT ![t] = bad]
        /\ job' = [job EXCEPT ![r].todo = @ \ {t}]
        /\ UNCHANGED <<clock, inUse>>
    BY <1>1 DEF Health!Save, HealthInv, JobInv
  <1>3. since = bad /\ since \in Health!Time \cup {Health!Never} /\ (ok <=> since = Health!Never)
    <2>1. job[r].read[t] = row[t]
      BY <1>2 DEF HealthInv, JobInv
    <2>2. row[t].known => (row[t].ok <=> row[t].since = Health!Never) /\ row[t].since = trouble[t]
      BY DEF HealthInv, Health!TypeOK, Health!FailingSinceTrue
    <2>3. ~row[t].known => trouble[t] = Health!Never
      BY DEF HealthInv, TroubleInv
    <2>4. CASE ok
      BY <2>4 DEF Health!NextFailingSince
    <2>5. CASE ~ok /\ row[t].known /\ ~row[t].ok
      <3>1. since = row[t].since
        BY <2>1, <2>2, <2>5 DEF Health!NextFailingSince
      <3>2. QED
        BY <1>1, <2>2, <2>5, <3>1
    <2>6. CASE ~ok /\ (~row[t].known \/ row[t].ok)
      <3>1. since = clock
        BY <2>1, <2>2, <2>6 DEF Health!NextFailingSince
      <3>2. trouble[t] = Health!Never
        BY <2>2, <2>3, <2>6
      <3>3. QED
        BY <1>1, <2>6, <3>1, <3>2, NeverLater
    <2>7. QED
      BY <1>1, <2>4, <2>5, <2>6 DEF Health!Row
  <1>4. new \in Health!Row
    BY <1>1, <1>3 DEF Health!Row
  <1> HIDE DEF since
  <1>5. row'[t] = new /\ trouble'[t] = bad /\ \A u \in Targets \ {t} : row'[u] = row[u] /\ trouble'[u] = trouble[u]
    BY <1>1, <1>2
  <1>6. /\ job'[r].held = job[r].held /\ job'[r].read = job[r].read /\ job'[r].todo = job[r].todo \ {t}
        /\ \A s \in Jobs \ {r} : job'[s] = job[s]
    BY <1>1, <1>2
  <1>7. Health!TypeOK'
    <2>1. job' \in [Jobs -> [held : BOOLEAN, read : [Targets -> Health!Row], todo : SUBSET Targets]]
      BY <1>1, <1>2
    <2>2. row' \in [Targets -> Health!Row]
      BY <1>1, <1>2, <1>4
    <2>3. trouble' \in [Targets -> Health!Time \cup {Health!Never}]
      BY <1>1, <1>2, <1>3
    <2>4. \A u \in Targets : row'[u].known => (row'[u].ok <=> row'[u].since = Health!Never)
      BY <1>3, <1>5 DEF HealthInv, Health!TypeOK
    <2>5. QED
      BY <1>1, <1>2, <2>1, <2>2, <2>3, <2>4 DEF Health!TypeOK
  <1>8. OneJob'
    BY <1>6 DEF HealthInv, OneJob
  <1>9. JobInv'
    <2>1. ASSUME NEW s \in Jobs, s # r PROVE job[s].todo = {}
      BY <1>2, <2>1 DEF HealthInv, OneJob, JobInv
    <2>2. \A u \in job'[r].todo : job'[r].read[u] = row'[u]
      BY <1>1, <1>5, <1>6 DEF HealthInv, JobInv
    <2>3. QED
      BY <1>2, <1>6, <2>1, <2>2 DEF HealthInv, JobInv
  <1>10. TroubleInv' /\ Health!FailingSinceTrue'
    BY <1>3, <1>5 DEF HealthInv, TroubleInv, Health!FailingSinceTrue
  <1>11. QED
    BY <1>7, <1>8, <1>9, <1>10 DEF HealthInv

\* A run that loses a result, ends or dies takes nothing along but its own.
LEMMA LeaveKeepsHealth ==
  ASSUME HealthInv, NEW r \in Jobs, Health!End(r) \/ \E t \in Targets : Health!Lose(r, t)
  PROVE  HealthInv'
  <1> DEFINE Run == [held : BOOLEAN, read : [Targets -> Health!Row], todo : SUBSET Targets]
  <1>1. job \in [Jobs -> Run]
    BY DEF HealthInv, Health!TypeOK
  <1>2. UNCHANGED <<clock, inUse, row, trouble>>
    BY DEF Health!End, Health!Lose
  <1>3. /\ job' \in [Jobs -> Run]
        /\ job'[r].held => job[r].held
        /\ job'[r].todo \subseteq job[r].todo
        /\ job'[r].todo # {} => job'[r].read = job[r].read /\ job'[r].held = job[r].held
        /\ ~job'[r].held => job'[r].todo = {}
        /\ \A s \in Jobs \ {r} : job'[s] = job[s]
    <2>1. CASE Health!End(r)
      BY <1>1, <2>1, AbsentTyped DEF Health!End, Health!Off
    <2>2. CASE \E t \in Targets : Health!Lose(r, t)
      BY <1>1, <2>2 DEF Health!Lose, HealthInv, JobInv
    <2>3. QED
      BY <2>1, <2>2
  <1>4. Health!TypeOK'
    BY <1>2, <1>3 DEF HealthInv, Health!TypeOK
  <1>5. OneJob'
    BY <1>3 DEF HealthInv, OneJob
  <1>6. JobInv'
    BY <1>2, <1>3 DEF HealthInv, JobInv
  <1>7. QED
    BY <1>2, <1>4, <1>5, <1>6 DEF HealthInv, TroubleInv, Health!FailingSinceTrue

\* Nor do the switch of a connection and time.
LEMMA RestKeepsHealth ==
  ASSUME HealthInv, Health!Tick \/ \E t \in Targets : Health!Toggle(t)
  PROVE  HealthInv'
  <1>1. UNCHANGED <<row, job, trouble>>
    BY DEF Health!Tick, Health!Toggle
  <1>2. clock' \in Health!Time /\ inUse' \subseteq Targets
    BY HealthAssumption DEF Health!ConnectionHealthAssumption, Health!Tick, Health!Toggle, Health!Time,
       HealthInv, Health!TypeOK
  <1>3. QED
    BY <1>1, <1>2 DEF HealthInv, Health!TypeOK, OneJob, JobInv, TroubleInv, Health!FailingSinceTrue

\* HealthInv is inductive.
LEMMA HealthStep == HealthInv /\ [Health!Next]_(Health!vars) => HealthInv'
  <1> SUFFICES ASSUME HealthInv, [Health!Next]_(Health!vars) PROVE HealthInv'
    OBVIOUS
  <1>1. CASE UNCHANGED Health!vars
    BY <1>1 DEF Health!vars, HealthInv, Health!TypeOK, OneJob, JobInv, TroubleInv, Health!FailingSinceTrue
  <1>2. CASE Health!Next
    BY <1>2, StartKeepsHealth, SaveKeepsHealth, LeaveKeepsHealth, RestKeepsHealth DEF Health!Next
  <1>3. QED
    BY <1>1, <1>2

\* HealthInv holds in every reachable state of ConnectionHealth.
THEOREM HealthInvariance == Health!Spec => []HealthInv
  BY HealthInit, HealthStep, PTL DEF Health!Spec

\* The list shows when a connection really began to fail, whatever runs died or
\* overlapped, for any connections and jobs (connection_health.next_failing_since).
THEOREM FailuresAreDatedTruly == Health!Spec => []HealthFailingSinceTrue
  BY HealthInvariance, PTL DEF HealthInv, HealthFailingSinceTrue

-----------------------------------------------------------------------------
(* The finite sets of the instances are those of the library.               *)

LEMMA FiniteSame ==
  /\ \A S : Csv!IsFiniteSet(S) <=> IsFiniteSet(S)
  /\ \A S : Sync!IsFiniteSet(S) <=> IsFiniteSet(S)
  BY DEF IsFiniteSet, Csv!IsFiniteSet, Sync!IsFiniteSet

LEMMA CardinalitySame ==
  /\ \A S : Csv!Cardinality(S) = Cardinality(S)
  /\ \A S : Sync!Cardinality(S) = Cardinality(S)
  BY DEF Cardinality, Csv!Cardinality, Sync!Cardinality

-----------------------------------------------------------------------------
(* CsvImport: an import is approved only by the verdict that was last, and  *)
(* each press copies the rows at most once.                                 *)

\* The row says approved only after an approval that nothing followed.
VerdictInv == status = "approved" => decision = "approved"

\* A press hands its import to the pool once.
PressInv == \A p \in Presses : press[p] # "done" => task[p] = "none"

\* The presses whose task is past the copy.
Finished == {p \in Presses : task[p] \in {"loaded", "ended"}}

\* Whoever copied the rows is past the copy.
LoadInv == loads <= Cardinality(Finished)

\* The inductive invariant of CsvImport.
CsvInv == Csv!TypeOK /\ VerdictInv /\ PressInv /\ LoadInv

\* The presses are finitely many, and so are those that finished.
LEMMA FinishedFinite ==
  /\ IsFiniteSet(Presses) /\ Cardinality(Presses) \in Nat
  /\ IsFiniteSet(Finished) /\ Cardinality(Finished) \in Nat
  /\ Cardinality(Finished) <= Cardinality(Presses)
  <1>1. IsFiniteSet(Presses)
    BY CsvAssumption, FiniteSame DEF Csv!CsvImportAssumption
  <1>2. QED
    BY <1>1, FS_Subset, FS_CardinalityType DEF Finished

\* What is past the copy stays past it.
LEMMA FinishedGrows ==
  ASSUME Finished \subseteq Finished'
  PROVE  Cardinality(Finished) <= Cardinality(Finished')
  <1>1. IsFiniteSet(Presses)
    BY CsvAssumption, FiniteSame DEF Csv!CsvImportAssumption
  <1>2. IsFiniteSet(Finished')
    BY <1>1, FS_Subset DEF Finished
  <1>3. QED
    BY <1>2, FS_Subset

\* At first there is no import.
LEMMA CsvInit == Csv!Init => CsvInv
  <1>1. 0 \in 0..Csv!Cardinality(Presses) /\ 0 <= Cardinality(Finished)
    BY FinishedFinite, CardinalitySame
  <1>2. Csv!Init => Csv!TypeOK
    BY <1>1 DEF Csv!Init, Csv!TypeOK
  <1>3. Csv!Init => VerdictInv /\ PressInv /\ LoadInv
    BY <1>1 DEF Csv!Init, VerdictInv, PressInv, LoadInv
  <1>4. QED
    BY <1>2, <1>3 DEF CsvInv

\* A step that copies nothing, and undoes no task, keeps the count below its bound.
LEMMA LoadKept ==
  ASSUME CsvInv, loads' = loads, Finished \subseteq Finished'
  PROVE  LoadInv' /\ loads' \in 0..Cardinality(Presses)
  <1>1. loads \in Nat /\ loads <= Cardinality(Finished) /\ loads <= Cardinality(Presses)
    BY FinishedFinite, CardinalitySame DEF CsvInv, Csv!TypeOK, LoadInv
  <1>2. Cardinality(Finished) <= Cardinality(Finished') /\ Cardinality(Finished') \in Nat
    <2>1. IsFiniteSet(Finished')
      BY FinishedFinite, FS_Subset DEF Finished
    <2>2. QED
      BY <2>1, FinishedGrows, FS_CardinalityType
  <1>3. QED
    BY <1>1, <1>2, FinishedFinite DEF LoadInv

\* The upload, the cleanup and the right to import.
LEMMA UploadKeepsCsv ==
  ASSUME CsvInv, \/ Csv!Insert \/ Csv!WriteFile \/ Csv!NotifyAdmins \/ Csv!CleanupFile
                 \/ Csv!Revoke \/ Csv!Grant
  PROVE  CsvInv' /\ UNCHANGED task
  <1>1. UNCHANGED <<press, task, loads, decision>>
    BY DEF Csv!Insert, Csv!WriteFile, Csv!NotifyAdmins, Csv!CleanupFile, Csv!Revoke, Csv!Grant
  <1>2. LoadInv' /\ loads' \in 0..Cardinality(Presses)
    BY <1>1, LoadKept DEF Finished
  <1>3. VerdictInv' /\ PressInv'
    BY <1>1 DEF CsvInv, VerdictInv, PressInv, Csv!Insert, Csv!WriteFile, Csv!NotifyAdmins, Csv!CleanupFile,
       Csv!Revoke, Csv!Grant
  <1>4. Csv!TypeOK'
    BY <1>1, <1>2, CardinalitySame DEF CsvInv, Csv!TypeOK, Csv!Insert, Csv!WriteFile, Csv!NotifyAdmins, Csv!CleanupFile,
       Csv!Revoke, Csv!Grant
  <1>5. QED
    BY <1>1, <1>2, <1>3, <1>4 DEF CsvInv

\* The two transactions of a press, and what follows them.
LEMMA PressKeepsCsv ==
  ASSUME CsvInv, NEW p \in Presses,
         \/ \E verdict \in Csv!Verdict : Csv!ReadPending(p, verdict)
         \/ Csv!Decide(p) \/ Csv!SubmitImport(p) \/ Csv!DropFile(p)
  PROVE  CsvInv' /\ \A q \in Presses : ~Csv!Begins(q)
  <1>1. /\ press \in [Presses -> {"idle", "done", "hand", "drop"} \cup Csv!Verdict]
        /\ task \in [Presses -> {"none", "queued", "checked", "claimed", "loaded", "ended"}]
    BY DEF CsvInv, Csv!TypeOK
  <1>2. loads' = loads
    BY DEF Csv!ReadPending, Csv!Decide, Csv!SubmitImport, Csv!DropFile
  <1>3. press[p] # "done" /\ task[p] = "none"
    BY <1>1 DEF CsvInv, PressInv, Csv!ReadPending, Csv!Decide, Csv!SubmitImport, Csv!DropFile, Csv!Verdict
  <1>4. \/ task' = task
        \/ task' = [task EXCEPT ![p] = "queued"] /\ press' = [press EXCEPT ![p] = "done"]
    BY DEF Csv!ReadPending, Csv!Decide, Csv!SubmitImport, Csv!DropFile
  <1>5. Finished \subseteq Finished'
    BY <1>1, <1>3, <1>4 DEF Finished
  <1>6. LoadInv' /\ loads' \in 0..Cardinality(Presses)
    BY <1>2, <1>5, LoadKept
  <1>7. PressInv'
    <2>1. \A q \in Presses \ {p} : press'[q] = press[q] /\ task'[q] = task[q]
      BY <1>1, <1>4 DEF Csv!ReadPending, Csv!Decide, Csv!SubmitImport, Csv!DropFile
    <2>2. press'[p] # "done" => task'[p] = "none"
      BY <1>1, <1>3, <1>4
    <2>3. QED
      BY <2>1, <2>2 DEF CsvInv, PressInv
  <1>8. VerdictInv'
    BY <1>1 DEF CsvInv, VerdictInv, Csv!ReadPending, Csv!Decide, Csv!SubmitImport, Csv!DropFile
  <1>9. Csv!TypeOK'
    <2>1. press' \in [Presses -> {"idle", "done", "hand", "drop"} \cup Csv!Verdict]
      BY <1>1 DEF Csv!ReadPending, Csv!Decide, Csv!SubmitImport, Csv!DropFile
    <2>2. task' \in [Presses -> {"none", "queued", "checked", "claimed", "loaded", "ended"}]
      BY <1>1, <1>4
    <2>3. QED
      BY <1>6, <2>1, <2>2, CardinalitySame DEF CsvInv, Csv!TypeOK, Csv!Verdict, Csv!ReadPending, Csv!Decide,
         Csv!SubmitImport, Csv!DropFile
  <1>10. \A q \in Presses : ~Csv!Begins(q)
    BY <1>1, <1>4 DEF Csv!Begins
  <1>11. QED
    BY <1>6, <1>7, <1>8, <1>9, <1>10 DEF CsvInv

\* The steps of a task: only the claim begins, and only the copy counts.
LEMMA TaskKeepsCsv ==
  ASSUME CsvInv, NEW p \in Presses,
         Csv!Authorize(p) \/ Csv!Claim(p) \/ Csv!Copy(p) \/ Csv!Complete(p)
  PROVE  CsvInv' /\ \A q \in Presses : Csv!Begins(q) => decision = "approved"
  <1> DEFINE Steps == {"none", "queued", "checked", "claimed", "loaded", "ended"}
  <1>1. task \in [Presses -> Steps] /\ loads \in Nat
    BY FinishedFinite, CardinalitySame DEF CsvInv, Csv!TypeOK
  <1>2. PICK step \in {"checked", "claimed", "loaded", "ended"} :
          /\ task' = [task EXCEPT ![p] = step]
          /\ step = "claimed" => status = "approved"
          /\ step = "loaded" => task[p] = "claimed"
          /\ loads' = IF step = "loaded" THEN loads + 1 ELSE loads
    <2>1. CASE Csv!Authorize(p)
      BY <2>1 DEF Csv!Authorize, Csv!Fail, Csv!Move
    <2>2. CASE Csv!Claim(p)
      BY <2>2 DEF Csv!Claim, Csv!Fail, Csv!Move, Csv!Claimable
    <2>3. CASE Csv!Copy(p)
      BY <2>3 DEF Csv!Copy, Csv!Fail, Csv!Move
    <2>4. CASE Csv!Complete(p)
      BY <2>4 DEF Csv!Complete, Csv!Fail, Csv!Move
    <2>5. QED
      BY <2>1, <2>2, <2>3, <2>4
  <1>3. /\ UNCHANGED <<isNew, file, upload, press, allowed, decision>>
        /\ status' \in {status, "failed", "executing", "completed"}
        /\ task[p] # "none" /\ task[p] # "ended"
        /\ task[p] = "loaded" => task'[p] = "ended"
    BY <1>1 DEF Csv!Authorize, Csv!Claim, Csv!Copy, Csv!Complete, Csv!Fail, Csv!Move
  <1>4. task'[p] = step /\ \A q \in Presses \ {p} : task'[q] = task[q]
    BY <1>1, <1>2
  <1>5. Finished \subseteq Finished'
    BY <1>3, <1>4 DEF Finished
  <1>6. LoadInv' /\ loads' \in 0..Cardinality(Presses)
    <2>1. CASE step # "loaded"
      BY <1>2, <1>5, <2>1, LoadKept
    <2>2. CASE step = "loaded"
      <3>1. p \notin Finished /\ Finished' = Finished \cup {p}
        BY <1>2, <1>4, <2>2 DEF Finished
      <3>2. Cardinality(Finished') = Cardinality(Finished) + 1
        BY <3>1, FinishedFinite, FS_AddElement
      <3>3. Cardinality(Finished') <= Cardinality(Presses)
        BY FinishedFinite, FS_Subset DEF Finished
      <3>4. QED
        BY <1>1, <1>2, <2>2, <3>2, <3>3, FinishedFinite DEF CsvInv, LoadInv
    <2>3. QED
      BY <2>1, <2>2
  <1>7. PressInv'
    BY <1>3, <1>4 DEF CsvInv, PressInv
  <1>8. VerdictInv'
    BY <1>3 DEF CsvInv, VerdictInv
  <1>9. Csv!TypeOK'
    BY <1>1, <1>2, <1>3, <1>6, CardinalitySame DEF CsvInv, Csv!TypeOK
  <1>10. \A q \in Presses : Csv!Begins(q) => decision = "approved"
    BY <1>2, <1>4 DEF Csv!Begins, CsvInv, VerdictInv
  <1>11. QED
    BY <1>6, <1>7, <1>8, <1>9, <1>10 DEF CsvInv

\* Nothing begins by itself after a crash.
LEMMA CrashKeepsCsv ==
  ASSUME CsvInv, Csv!Crash
  PROVE  CsvInv' /\ \A q \in Presses : ~Csv!Begins(q)
  <1>1. /\ task' = [p \in Presses |-> IF task[p] = "none" THEN "none" ELSE "ended"]
        /\ press' = [p \in Presses |-> IF press[p] = "idle" THEN "idle" ELSE "done"]
        /\ upload' = IF upload \in {"inserted", "filed"} THEN "dead" ELSE upload
        /\ UNCHANGED <<status, isNew, file, loads, allowed, decision>>
    BY DEF Csv!Crash
  <1>2. Finished \subseteq Finished'
    BY <1>1 DEF Finished
  <1>3. LoadInv' /\ loads' \in 0..Cardinality(Presses)
    BY <1>1, <1>2, LoadKept
  <1>4. PressInv' /\ VerdictInv'
    BY <1>1 DEF CsvInv, PressInv, VerdictInv
  <1>5. Csv!TypeOK'
    BY <1>1, <1>3, CardinalitySame DEF CsvInv, Csv!TypeOK
  <1>6. QED
    BY <1>1, <1>3, <1>4, <1>5 DEF CsvInv, Csv!Begins

\* What a step of CsvImport keeps and does.
LEMMA CsvStep ==
  CsvInv /\ [Csv!Next]_(Csv!vars) =>
    CsvInv' /\ \A p \in Presses : Csv!Begins(p) => decision = "approved"
  <1> SUFFICES ASSUME CsvInv, [Csv!Next]_(Csv!vars)
               PROVE  CsvInv' /\ \A p \in Presses : Csv!Begins(p) => decision = "approved"
    OBVIOUS
  <1>1. CASE UNCHANGED Csv!vars
    BY <1>1 DEF Csv!vars, CsvInv, Csv!TypeOK, VerdictInv, PressInv, LoadInv, Finished, Csv!Begins
  <1>2. CASE Csv!Insert \/ Csv!WriteFile \/ Csv!NotifyAdmins \/ Csv!CleanupFile \/ Csv!Revoke \/ Csv!Grant
    BY <1>2, UploadKeepsCsv DEF Csv!Begins
  <1>3. CASE Csv!Crash
    BY <1>3, CrashKeepsCsv
  <1>4. CASE \E p \in Presses : \/ \E verdict \in Csv!Verdict : Csv!ReadPending(p, verdict)
                                \/ Csv!Decide(p) \/ Csv!SubmitImport(p) \/ Csv!DropFile(p)
    BY <1>4, PressKeepsCsv
  <1>5. CASE \E p \in Presses : Csv!Authorize(p) \/ Csv!Claim(p) \/ Csv!Copy(p) \/ Csv!Complete(p)
    BY <1>5, TaskKeepsCsv
  <1>6. QED
    BY <1>1, <1>2, <1>3, <1>4, <1>5 DEF Csv!Next

\* CsvInv holds in every reachable state of CsvImport.
THEOREM CsvInvariance == Csv!Spec => []CsvInv
  BY CsvInit, CsvStep, PTL DEF Csv!Spec

\* An import that was rejected last does not begin, whatever was approved before
\* and still waits for a worker, for any number of presses (executor._import_run).
THEOREM RejectedNeverBegins == Csv!Spec => CsvRejectionStops
  <1>1. CsvInv /\ [Csv!Next]_(Csv!vars) =>
          [\A p \in Presses : Csv!Begins(p) => decision = "approved"]_(Csv!vars)
    BY CsvStep
  <1>2. QED
    BY <1>1, CsvInvariance, PTL DEF Csv!Spec, CsvRejectionStops, Csv!RejectionStops

-----------------------------------------------------------------------------
(* SyncGuard: the yes that a run carries to its transaction is its own, is  *)
(* spent, and named everybody the run is about to remove.                   *)

\* What a yes that somebody carries looks like, and where he is.
HoldInv ==
  \A r \in Runs : run[r].hold # 0 =>
    /\ run[r].step = "apply"
    /\ run[r].hold \in DOMAIN holds
    /\ holds[run[r].hold].status = "approved"
    /\ holds[run[r].hold].uses = 1
    /\ run[r].off \subseteq holds[run[r].hold].list

\* Nobody carries the yes of another.
OwnInv == \A r, s \in Runs : run[r].hold # 0 /\ run[r].hold = run[s].hold => r = s

\* Nobody comes to a large removal without one.
LargeInv == \A r \in Runs : run[r].step = "apply" /\ Sync!Large(r) => run[r].hold # 0

\* The inductive invariant of SyncGuard.
SyncInv == Sync!TypeOK /\ HoldInv /\ OwnInv /\ LargeInv

\* What a run may be.
RunType == [step : {"idle", "gate", "ask", "open", "insert", "apply"},
            on : SUBSET People, off : SUBSET People, hold : 0..MaxHolds]

\* The bounds are numbers.
LEMMA SyncNumbers ==
  /\ Limit \in Nat /\ MaxHolds \in Nat /\ SyncTime \in Nat
  /\ IsFiniteSet(People) /\ Sync!Time \subseteq Nat /\ 0 \in Sync!Time
  /\ Sync!Idle \in RunType
  BY SyncAssumption, FiniteSame DEF Sync!SyncGuardAssumption, Sync!Time, Sync!Idle, RunType

\* The parts of the type invariant, by names of this module.
LEMMA SyncTyped ==
  Sync!TypeOK <=> /\ now \in Sync!Time
                  /\ enabled \subseteq People /\ keepers \subseteq People
                  /\ holds \in Seq(Sync!Hold) /\ Len(holds) <= MaxHolds
                  /\ run \in [Runs -> RunType]
  BY DEF Sync!TypeOK, RunType

\* At first nobody runs, and nothing is held.
LEMMA SyncInit == Sync!Init => SyncInv
  <1> SUFFICES ASSUME Sync!Init PROVE SyncInv
    OBVIOUS
  <1>1. Sync!TypeOK
    BY SyncNumbers, SyncTyped DEF Sync!Init
  <1>2. \A r \in Runs : run[r].hold = 0 /\ run[r].step = "idle"
    BY DEF Sync!Init, Sync!Idle
  <1>3. QED
    BY <1>1, <1>2 DEF SyncInv, HoldInv, OwnInv, LargeInv

\* A run that moves without a yes: what is held may change, but no yes that is spent.
LEMMA MoveKeepsSync ==
  ASSUME SyncInv, NEW r \in Runs, NEW x \in RunType,
         run' = [run EXCEPT ![r] = x], x.hold = 0,
         x.step = "apply" => Sync!Cardinality(x.off) <= Limit,
         \A h \in DOMAIN holds :
           holds[h].status = "approved" => h \in DOMAIN holds' /\ holds'[h] = holds[h]
  PROVE  HoldInv' /\ OwnInv' /\ LargeInv' /\ run' \in [Runs -> RunType]
  <1>1. run \in [Runs -> RunType]
    BY SyncTyped DEF SyncInv
  <1>2. run' \in [Runs -> RunType] /\ run'[r] = x /\ \A s \in Runs \ {r} : run'[s] = run[s]
    BY <1>1
  <1>3. HoldInv'
    <2> SUFFICES ASSUME NEW s \in Runs, run'[s].hold # 0
                 PROVE  /\ run'[s].step = "apply"
                        /\ run'[s].hold \in DOMAIN holds'
                        /\ holds'[run'[s].hold].status = "approved"
                        /\ holds'[run'[s].hold].uses = 1
                        /\ run'[s].off \subseteq holds'[run'[s].hold].list
      BY DEF HoldInv
    <2>1. run'[s] = run[s]
      BY <1>2
    <2>2. QED
      BY <2>1 DEF SyncInv, HoldInv
  <1>4. OwnInv'
    BY <1>2 DEF SyncInv, OwnInv
  <1>5. LargeInv'
    <2>1. ~(Sync!Cardinality(x.off) <= Limit /\ Sync!Cardinality(x.off) > Limit)
      <3>1. Sync!Cardinality(x.off) \in Nat
        BY SyncNumbers, CardinalitySame, FS_Subset, FS_CardinalityType DEF RunType
      <3>2. QED
        BY <3>1, SyncNumbers
    <2>2. QED
      BY <1>2, <2>1 DEF SyncInv, LargeInv, Sync!Large
  <1>6. QED
    BY <1>2, <1>3, <1>4, <1>5

\* The steps of a run but the two that pass the gate with a yes or ask for one.
LEMMA RunTyped ==
  ASSUME SyncInv, NEW r \in Runs
  PROVE  /\ run[r] \in RunType
         /\ \A step \in {"gate", "ask", "open", "insert", "apply"} :
              [run[r] EXCEPT !.step = step] \in RunType
  BY SyncTyped DEF SyncInv, RunType

\* A run plans.
LEMMA PlanKeepsSync ==
  ASSUME SyncInv, NEW r \in Runs, NEW want \in SUBSET People, Sync!Plan(r, want)
  PROVE  SyncInv'
  <1> DEFINE x == [step |-> "gate", on |-> want \ enabled, off |-> enabled \ (want \cup keepers), hold |-> 0]
  <1>1. x \in RunType
    BY SyncNumbers, SyncTyped DEF SyncInv, RunType
  <1>2. run' = [run EXCEPT ![r] = x] /\ UNCHANGED <<now, enabled, keepers, holds>>
    BY DEF Sync!Plan
  <1>3. HoldInv' /\ OwnInv' /\ LargeInv' /\ run' \in [Runs -> RunType]
    BY <1>1, <1>2, MoveKeepsSync
  <1>4. Sync!TypeOK'
    BY <1>2, <1>3 DEF SyncInv, Sync!TypeOK, RunType
  <1>5. QED
    BY <1>3, <1>4 DEF SyncInv

\* A small removal passes.
LEMMA PassKeepsSync ==
  ASSUME SyncInv, NEW r \in Runs, Sync!Pass(r)
  PROVE  SyncInv'
  <1> DEFINE x == [run[r] EXCEPT !.step = "apply"]
  <1>1. x \in RunType /\ run[r] \in RunType
    BY RunTyped
  <1>2. run' = [run EXCEPT ![r] = x] /\ UNCHANGED <<now, enabled, keepers, holds>>
    BY DEF Sync!Pass, Sync!Go
  <1>3. x.hold = 0 /\ x.off = run[r].off
    <2>1. run[r].step = "gate"
      BY DEF Sync!Pass
    <2>2. QED
      BY <1>1, <2>1 DEF SyncInv, HoldInv, RunType
  <1>4. Sync!Cardinality(x.off) <= Limit
    <2>1. Sync!Cardinality(run[r].off) \in Nat
      BY <1>1, SyncNumbers, CardinalitySame, FS_Subset, FS_CardinalityType DEF RunType
    <2>2. QED
      BY <1>3, <2>1, SyncNumbers DEF Sync!Pass, Sync!Large
  <1>5. HoldInv' /\ OwnInv' /\ LargeInv' /\ run' \in [Runs -> RunType]
    BY <1>1, <1>2, <1>3, <1>4, MoveKeepsSync
  <1>6. Sync!TypeOK'
    BY <1>2, <1>5 DEF SyncInv, Sync!TypeOK, RunType
  <1>7. QED
    BY <1>5, <1>6 DEF SyncInv

\* A large removal takes the latest yes for itself, or asks.
LEMMA ClaimKeepsSync ==
  ASSUME SyncInv, NEW r \in Runs, Sync!ClaimApproval(r)
  PROVE  SyncInv'
  <1>1. /\ run \in [Runs -> RunType] /\ holds \in Seq(Sync!Hold) /\ Len(holds) <= MaxHolds
        /\ run[r].step = "gate" /\ run[r] \in RunType
        /\ UNCHANGED <<now, enabled, keepers>>
    BY SyncTyped DEF SyncInv, Sync!ClaimApproval
  <1>2. run[r].hold = 0
    BY <1>1 DEF SyncInv, HoldInv
  <1>3. ASSUME Sync!Usable(r) = {}, Sync!Go(r, "ask"), UNCHANGED holds PROVE SyncInv'
    <2> DEFINE x == [run[r] EXCEPT !.step = "ask"]
    <2>1. x \in RunType /\ x.hold = 0 /\ x.step # "apply" /\ run' = [run EXCEPT ![r] = x]
      BY <1>1, <1>2, <1>3, RunTyped DEF Sync!Go, RunType
    <2>2. HoldInv' /\ OwnInv' /\ LargeInv' /\ run' \in [Runs -> RunType]
      BY <1>3, <2>1, MoveKeepsSync
    <2>3. Sync!TypeOK'
      BY <1>1, <1>3, <2>2 DEF SyncInv, Sync!TypeOK, RunType
    <2>4. QED
      BY <2>2, <2>3 DEF SyncInv
  <1>4. ASSUME NEW h \in Sync!Usable(r),
               holds' = [holds EXCEPT ![h].uses = @ + 1],
               run' = [run EXCEPT ![r].step = "apply", ![r].hold = h]
        PROVE  SyncInv'
    <2>1. /\ h \in DOMAIN holds /\ h \in 1..MaxHolds /\ holds[h] \in Sync!Hold
          /\ holds[h].status = "approved" /\ holds[h].uses = 0
          /\ run[r].off \subseteq holds[h].list
      BY <1>1, SyncNumbers DEF Sync!Usable
    <2>2. /\ holds' \in Seq(Sync!Hold) /\ Len(holds') = Len(holds) /\ DOMAIN holds' = DOMAIN holds
          /\ holds'[h].status = "approved" /\ holds'[h].uses = 1 /\ holds'[h].list = holds[h].list
          /\ \A k \in DOMAIN holds \ {h} : holds'[k] = holds[k]
      <3>1. [holds[h] EXCEPT !.uses = @ + 1] \in Sync!Hold
        BY <2>1 DEF Sync!Hold
      <3>2. holds' = [holds EXCEPT ![h] = [holds[h] EXCEPT !.uses = @ + 1]]
        BY <1>1, <1>4, <2>1
      <3>3. holds'[h] = [holds[h] EXCEPT !.uses = @ + 1]
        BY <1>1, <2>1, <3>2
      <3>4. /\ holds'[h].status = "approved" /\ holds'[h].uses = 1 /\ holds'[h].list = holds[h].list
        BY <2>1, <3>3 DEF Sync!Hold
      <3>5. QED
        BY <1>1, <2>1, <3>1, <3>2, <3>4
    <2>3. /\ run' \in [Runs -> RunType]
          /\ run'[r].step = "apply" /\ run'[r].hold = h /\ run'[r].off = run[r].off
          /\ \A s \in Runs \ {r} : run'[s] = run[s]
      <3> DEFINE x == [run[r] EXCEPT !.step = "apply", !.hold = h]
      <3>1. x \in RunType /\ x.step = "apply" /\ x.hold = h /\ x.off = run[r].off
        <4>1. h \in 0..MaxHolds
          BY <2>1, SyncNumbers
        <4>2. QED
          BY <1>1, <4>1 DEF RunType
      <3>2. run' = [run EXCEPT ![r] = x]
        BY <1>1, <1>4
      <3> HIDE DEF x
      <3>3. QED
        BY <1>1, <3>1, <3>2
    <2>4. \A s \in Runs : run[s].hold # h
      BY <2>1, SyncNumbers DEF SyncInv, HoldInv
    <2>5. HoldInv'
      <3> SUFFICES ASSUME NEW s \in Runs, run'[s].hold # 0
                   PROVE  /\ run'[s].step = "apply"
                          /\ run'[s].hold \in DOMAIN holds'
                          /\ holds'[run'[s].hold].status = "approved"
                          /\ holds'[run'[s].hold].uses = 1
                          /\ run'[s].off \subseteq holds'[run'[s].hold].list
        BY DEF HoldInv
      <3>1. CASE s = r
        BY <2>1, <2>2, <2>3, <3>1
      <3>2. CASE s # r
        BY <2>2, <2>3, <2>4, <3>2 DEF SyncInv, HoldInv
      <3>3. QED
        BY <3>1, <3>2
    <2>6. OwnInv'
      BY <2>3, <2>4 DEF SyncInv, OwnInv
    <2>7. LargeInv'
      <3>1. h # 0
        BY <2>1, SyncNumbers
      <3>2. QED
        BY <2>3, <3>1 DEF SyncInv, LargeInv, Sync!Large
    <2>8. Sync!TypeOK'
      BY <1>1, <2>2, <2>3 DEF SyncInv, Sync!TypeOK, RunType
    <2>9. QED
      BY <2>5, <2>6, <2>7, <2>8 DEF SyncInv
  <1>5. QED
    BY <1>3, <1>4 DEF Sync!ClaimApproval

\* A question that was asked today, and a new one.
LEMMA AskKeepsSync ==
  ASSUME SyncInv, NEW r \in Runs, Sync!Ask(r) \/ Sync!Supersede(r) \/ Sync!Insert(r)
  PROVE  SyncInv'
  <1>1. /\ run \in [Runs -> RunType] /\ holds \in Seq(Sync!Hold) /\ Len(holds) <= MaxHolds
        /\ now \in Sync!Time /\ Sync!Time \subseteq Nat
        /\ run[r].step \in {"ask", "open", "insert"} /\ run[r] \in RunType
        /\ UNCHANGED <<now, enabled, keepers>>
    BY SyncNumbers, SyncTyped DEF SyncInv, Sync!Ask, Sync!Supersede, Sync!Insert
  <1>2. run[r].hold = 0
    BY <1>1 DEF SyncInv, HoldInv
  <1>3. PICK x \in RunType : run' = [run EXCEPT ![r] = x] /\ x.hold = 0 /\ x.step # "apply"
    <2>1. Sync!Idle \in RunType /\ Sync!Idle.hold = 0 /\ Sync!Idle.step # "apply"
      BY SyncNumbers DEF Sync!Idle
    <2>2. \A step \in {"open", "insert"} :
            LET x == [run[r] EXCEPT !.step = step] IN x \in RunType /\ x.hold = 0 /\ x.step # "apply"
      BY <1>1, <1>2 DEF RunType
    <2>3. \/ run' = [run EXCEPT ![r] = Sync!Idle]
          \/ \E step \in {"open", "insert"} : run' = [run EXCEPT ![r] = [run[r] EXCEPT !.step = step]]
      BY <1>1 DEF Sync!Ask, Sync!Supersede, Sync!Insert, Sync!Go, Sync!End
    <2>4. QED
      BY <2>1, <2>2, <2>3
  <1>4. /\ holds' \in Seq(Sync!Hold) /\ Len(holds') <= MaxHolds
        /\ \A h \in DOMAIN holds :
             holds[h].status = "approved" => h \in DOMAIN holds' /\ holds'[h] = holds[h]
    <2>1. CASE Sync!Ask(r)
      <3>1. CASE UNCHANGED holds
        BY <1>1, <3>1
      <3>2. ASSUME NEW h \in Sync!Same(r), holds' = [holds EXCEPT ![h].held = now]
            PROVE  /\ holds' \in Seq(Sync!Hold) /\ Len(holds') = Len(holds)
                   /\ \A k \in DOMAIN holds :
                        holds[k].status = "approved" => k \in DOMAIN holds' /\ holds'[k] = holds[k]
        <4>1. h \in DOMAIN holds /\ holds[h].status # "approved" /\ holds[h] \in Sync!Hold
          BY <1>1 DEF Sync!Same
        <4>2. [holds[h] EXCEPT !.held = now] \in Sync!Hold
          BY <1>1, <4>1 DEF Sync!Hold
        <4>3. QED
          BY <1>1, <3>2, <4>1, <4>2
      <3>3. QED
        BY <1>1, <2>1, <3>1, <3>2 DEF Sync!Ask
    <2>2. CASE Sync!Supersede(r)
      <3>1. \A h \in DOMAIN holds : holds[h] \in Sync!Hold /\ Sync!Retired(holds[h]) \in Sync!Hold
        <4>1. \A h \in DOMAIN holds : holds[h] \in Sync!Hold
          BY <1>1
        <4>2. \A h \in Sync!Hold : Sync!Retired(h) \in Sync!Hold
          BY DEF Sync!Hold, Sync!Retired
        <4>3. QED
          BY <4>1, <4>2
      <3>2. holds' = [h \in 1..Len(holds) |->
                        IF Sync!Superseded(holds[h]) THEN Sync!Retired(holds[h]) ELSE holds[h]]
        BY <1>1, <2>2 DEF Sync!Supersede
      <3>3. holds' \in Seq(Sync!Hold) /\ Len(holds') = Len(holds)
        BY <1>1, <3>1, <3>2
      <3>4. QED
        BY <1>1, <3>2, <3>3 DEF Sync!Superseded
    <2>3. CASE Sync!Insert(r)
      <3> DEFINE new == [list |-> run[r].off, status |-> "pending", held |-> now, decided |-> 0, uses |-> 0]
      <3>1. new \in Sync!Hold
        BY <1>1, SyncNumbers DEF Sync!Hold, RunType
      <3>2. holds' = Append(holds, new) /\ Len(holds) < MaxHolds
        BY <2>3 DEF Sync!Insert
      <3> HIDE DEF new
      <3>3. QED
        BY <1>1, <3>1, <3>2, SyncNumbers
    <2>4. QED
      BY <2>1, <2>2, <2>3
  <1>5. HoldInv' /\ OwnInv' /\ LargeInv' /\ run' \in [Runs -> RunType]
    BY <1>3, <1>4, MoveKeepsSync
  <1>6. Sync!TypeOK'
    BY <1>1, <1>4, <1>5 DEF SyncInv, Sync!TypeOK, RunType
  <1>7. QED
    BY <1>5, <1>6 DEF SyncInv

\* The transaction applies the plan and gives the yes up: who lost access was on
\* the list of the run's own yes, if they were too many.
LEMMA ApplyKeepsSync ==
  ASSUME SyncInv, NEW r \in Runs, Sync!Apply(r)
  PROVE  SyncInv' /\ Sync!Lost \subseteq run[r].off /\ run[r].step = "apply"
  <1>1. run' = [run EXCEPT ![r] = Sync!Idle] /\ UNCHANGED <<now, keepers, holds>>
    BY DEF Sync!Apply, Sync!End
  <1>2. Sync!Idle \in RunType /\ Sync!Idle.hold = 0 /\ Sync!Idle.step # "apply"
    BY SyncNumbers DEF Sync!Idle
  <1>3. HoldInv' /\ OwnInv' /\ LargeInv' /\ run' \in [Runs -> RunType]
    BY <1>1, <1>2, MoveKeepsSync
  <1>4. enabled' \subseteq People
    BY RunTyped DEF Sync!Apply, SyncInv, Sync!TypeOK, RunType
  <1>5. Sync!TypeOK'
    BY <1>1, <1>3, <1>4 DEF SyncInv, Sync!TypeOK, RunType
  <1>6. QED
    BY <1>3, <1>5 DEF SyncInv, Sync!Apply, Sync!Lost

\* A decision is about a list that waits, which is nobody's yes.
LEMMA DecideKeepsSync ==
  ASSUME SyncInv, NEW h \in DOMAIN holds, NEW status1 \in {"approved", "rejected"},
         Sync!Decide(h, status1)
  PROVE  SyncInv'
  <1>1. /\ holds \in Seq(Sync!Hold) /\ Len(holds) <= MaxHolds /\ now \in Sync!Time
        /\ holds[h].status = "pending" /\ holds[h] \in Sync!Hold
        /\ holds' = [holds EXCEPT ![h].status = status1, ![h].decided = now]
        /\ UNCHANGED <<now, enabled, keepers, run>>
    BY SyncTyped DEF SyncInv, Sync!Decide, Sync!Decidable
  <1>2. /\ holds' \in Seq(Sync!Hold) /\ Len(holds') = Len(holds) /\ DOMAIN holds' = DOMAIN holds
        /\ \A k \in DOMAIN holds \ {h} : holds'[k] = holds[k]
    <2> DEFINE x == [holds[h] EXCEPT !.status = status1, !.decided = now]
    <2>1. x \in Sync!Hold
      BY <1>1 DEF Sync!Hold
    <2>2. holds' = [holds EXCEPT ![h] = x]
      BY <1>1
    <2> HIDE DEF x
    <2>3. h \in 1..Len(holds) /\ DOMAIN holds = 1..Len(holds) /\ holds \in Seq(Sync!Hold)
      BY <1>1
    <2>4. DOMAIN holds' = DOMAIN holds /\ \A k \in DOMAIN holds \ {h} : holds'[k] = holds[k]
      BY <2>2, <2>3
    <2>5. holds' \in Seq(Sync!Hold) /\ Len(holds') = Len(holds)
      BY <2>1, <2>2, <2>3
    <2>6. QED
      BY <1>1, <2>4, <2>5
  <1>3. HoldInv'
    <2>1. \A r \in Runs : run[r].hold # 0 => run[r].hold # h
      BY <1>1 DEF SyncInv, HoldInv
    <2>2. QED
      BY <1>1, <1>2, <2>1 DEF SyncInv, HoldInv
  <1>4. OwnInv' /\ LargeInv'
    BY <1>1 DEF SyncInv, OwnInv, LargeInv, Sync!Large
  <1>5. Sync!TypeOK'
    BY <1>1, <1>2 DEF SyncInv, Sync!TypeOK
  <1>6. QED
    BY <1>3, <1>4, <1>5 DEF SyncInv

\* Promotions, demotions and time touch no run and no list.
LEMMA OthersKeepSync ==
  ASSUME SyncInv, Sync!Tick \/ \E p \in People : Sync!Promote(p) \/ Sync!Demote(p)
  PROVE  SyncInv'
  <1>1. UNCHANGED <<holds, run>>
    BY DEF Sync!Tick, Sync!Promote, Sync!Demote
  <1>2. now' \in Sync!Time /\ enabled' \subseteq People /\ keepers' \subseteq People
    BY SyncNumbers DEF Sync!Tick, Sync!Promote, Sync!Demote, Sync!Time, SyncInv, Sync!TypeOK
  <1>3. QED
    BY <1>1, <1>2 DEF SyncInv, Sync!TypeOK, HoldInv, OwnInv, LargeInv, Sync!Large

\* SyncInv is inductive.
LEMMA SyncStep == SyncInv /\ [Sync!Next]_(Sync!vars) => SyncInv'
  <1> SUFFICES ASSUME SyncInv, [Sync!Next]_(Sync!vars) PROVE SyncInv'
    OBVIOUS
  <1>1. CASE UNCHANGED Sync!vars
    BY <1>1 DEF Sync!vars, SyncInv, Sync!TypeOK, HoldInv, OwnInv, LargeInv, Sync!Large
  <1>2. ASSUME NEW r \in Runs,
               \/ \E want \in SUBSET People : Sync!Plan(r, want)
               \/ Sync!Pass(r) \/ Sync!ClaimApproval(r) \/ Sync!Ask(r) \/ Sync!Supersede(r)
               \/ Sync!Insert(r) \/ Sync!Apply(r)
        PROVE  SyncInv'
    BY <1>2, PlanKeepsSync, PassKeepsSync, ClaimKeepsSync, AskKeepsSync, ApplyKeepsSync
  <1>3. CASE \E h \in DOMAIN holds : \E status1 \in {"approved", "rejected"} : Sync!Decide(h, status1)
    BY <1>3, DecideKeepsSync
  <1>4. CASE Sync!Tick \/ \E p \in People : Sync!Promote(p) \/ Sync!Demote(p)
    BY <1>4, OthersKeepSync
  <1>5. QED
    BY <1>1, <1>2, <1>3, <1>4 DEF Sync!Next

\* SyncInv holds in every reachable state of SyncGuard.
THEOREM SyncInvariance == Sync!Spec => []SyncInv
  BY SyncInit, SyncStep, PTL DEF Sync!Spec

\* Only the transaction of a run takes access away, and takes it from nobody who
\* is not in its plan.
LEMMA OnlyApplyTakes ==
  ASSUME SyncInv, [Sync!Next]_(Sync!vars), Sync!Lost # {}
  PROVE  \E r \in Runs : Sync!Apply(r)
  BY DEF Sync!Lost, Sync!Next, Sync!vars, Sync!Plan, Sync!Pass, Sync!ClaimApproval, Sync!Ask, Sync!Supersede,
     Sync!Insert, Sync!Decide, Sync!Promote, Sync!Demote, Sync!Tick

\* More people than the limit lose their access in one step only when a yes named
\* all of them that is spent for this run alone, for any people, runs, lists and
\* limit (idp_sync_guard._claim_approval).
THEOREM LargeRemovalsAreApproved == Sync!Spec => MassRemovalApproved
  <1> DEFINE Named == Sync!Cardinality(Sync!Lost) > Limit =>
                        \E r \in Runs : LET h == run[r].hold IN
                          /\ h # 0 /\ holds[h].status = "approved" /\ holds[h].uses = 1
                          /\ Sync!Lost \subseteq holds[h].list /\ \A s \in Runs \ {r} : run[s].hold # h
  <1>1. ASSUME SyncInv, [Sync!Next]_(Sync!vars) PROVE Named
    <2> SUFFICES ASSUME Cardinality(Sync!Lost) > Limit
                 PROVE  \E r \in Runs : LET h == run[r].hold IN
                          /\ h # 0 /\ holds[h].status = "approved" /\ holds[h].uses = 1
                          /\ Sync!Lost \subseteq holds[h].list /\ \A s \in Runs \ {r} : run[s].hold # h
      BY CardinalitySame
    <2>1. Sync!Lost # {}
      BY SyncNumbers, FS_EmptySet
    <2>2. PICK r \in Runs : Sync!Apply(r)
      BY <1>1, <2>1, OnlyApplyTakes
    <2>3. Sync!Lost \subseteq run[r].off /\ run[r].step = "apply"
      BY <1>1, <2>2, ApplyKeepsSync
    <2>4. Sync!Large(r)
      <3>1. IsFiniteSet(run[r].off)
        BY <1>1, RunTyped, SyncNumbers, FS_Subset DEF RunType
      <3>2. /\ Cardinality(Sync!Lost) <= Cardinality(run[r].off)
            /\ Cardinality(Sync!Lost) \in Nat /\ Cardinality(run[r].off) \in Nat
        BY <2>3, <3>1, FS_Subset, FS_CardinalityType
      <3>3. QED
        BY <3>2, SyncNumbers, CardinalitySame DEF Sync!Large
    <2>5. run[r].hold # 0
      BY <1>1, <2>3, <2>4 DEF SyncInv, LargeInv
    <2>6. /\ holds[run[r].hold].status = "approved" /\ holds[run[r].hold].uses = 1
          /\ Sync!Lost \subseteq holds[run[r].hold].list
      BY <1>1, <2>3, <2>5 DEF SyncInv, HoldInv
    <2>7. \A s \in Runs \ {r} : run[s].hold # run[r].hold
      BY <1>1, <2>5 DEF SyncInv, OwnInv
    <2>8. QED
      BY <2>5, <2>6, <2>7
  <1>2. SyncInv /\ [Sync!Next]_(Sync!vars) => [Named]_(Sync!vars)
    BY <1>1
  <1>3. QED
    BY <1>2, SyncInvariance, PTL DEF Sync!Spec, MassRemovalApproved, Sync!MassRemovalApproved

-----------------------------------------------------------------------------
(* The composition: one part moves, and each behaves as it does alone.      *)

\* The behaviours of the composition are behaviours of each part, so that what
\* holds of a part holds in the composition.
LEMMA PartsBehave == MCSpec => Spec /\ Sync!Spec /\ Csv!Spec /\ Health!Spec
  <1>1. MCInit => Init /\ Sync!Init /\ Csv!Init /\ Health!Init
    BY DEF MCInit
  <1> DEFINE allVars == <<part, vars, syncVars, csvVars, healthVars>>
  <1>2. [MCNext]_allVars => [Next]_vars
    BY DEF MCNext
  <1>3. [MCNext]_allVars => [Sync!Next]_(Sync!vars)
    BY DEF MCNext, syncVars, Sync!vars
  <1>4. [MCNext]_allVars => [Csv!Next]_(Csv!vars)
    BY DEF MCNext, csvVars, Csv!vars
  <1>5. [MCNext]_allVars => [Health!Next]_(Health!vars)
    BY DEF MCNext, healthVars, Health!vars
  <1>6. QED
    BY <1>1, <1>2, <1>3, <1>4, <1>5, PTL DEF MCSpec, Spec, Sync!Spec, Csv!Spec, Health!Spec

\* Every reachable state of the four parts has the declared types.
THEOREM AdministrationTyped == MCSpec => []TypesOK
  <1>1. HealthInv => Health!TypeOK
    BY DEF HealthInv
  <1>2. CsvInv => Csv!TypeOK
    BY DEF CsvInv
  <1>3. SyncInv => Sync!TypeOK
    BY DEF SyncInv
  <1>4. TypeOK /\ Sync!TypeOK /\ Csv!TypeOK /\ Health!TypeOK => TypesOK
    BY DEF TypesOK
  <1>5. QED
    BY <1>1, <1>2, <1>3, <1>4, PartsBehave, TypeCorrect, HealthInvariance, CsvInvariance, SyncInvariance, PTL

\* What the run of the composition checks of its parts holds of the composition for
\* any values of the constants.
THEOREM AdministrationSafe ==
  MCSpec => /\ []WindowHasItsWaiver /\ []SkipsWithReason
            /\ MassRemovalApproved /\ CsvRejectionStops /\ []HealthFailingSinceTrue
  BY PartsBehave, WindowsAndWaivers, ReviewIsSkippedWithReason, LargeRemovalsAreApproved,
     RejectedNeverBegins, FailuresAreDatedTruly
=============================================================================
