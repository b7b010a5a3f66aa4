------------------------------- MODULE CsvImport -------------------------------
(***************************************************************************)
(* A CSV import, from the upload to the rows in the table (handlers.py,    *)
(* _process_import and the two buttons; executor._import_run).             *)
(*                                                                         *)
(* One row of csv_imports, its file, and the presses of Approve and        *)
(* Reject.  A press is a handler of its own, which reads the row in one    *)
(* transaction and writes it in another; an approval gives the pool a      *)
(* task.  The tasks and the handlers die with the process.                 *)
(***************************************************************************)
EXTENDS Naturals, FiniteSets

CONSTANTS
  Presses       \* the presses of the two buttons

\* Assumed of the constants where the module is instantiated.
CsvImportAssumption == IsFiniteSet(Presses)

VARIABLES
  status,       \* csv_imports.status
  isNew,        \* csv_imports.is_new_table
  file,         \* the uploaded file exists
  upload,       \* how far _process_import is; the admins have the buttons once "asked"
  press,        \* what each press is doing
  task,         \* what the task of each approval is doing
  loads,        \* how often the rows are in the table
  allowed,      \* the requester may import into this database
  decision      \* the verdict that was written last

vars == <<status, isNew, file, upload, press, task, loads, allowed, decision>>

Verdict == {"approved", "rejected"}

TypeOK ==
  /\ status \in {"absent", "pending", "approved", "executing", "completed", "failed", "rejected"}
  /\ isNew \in BOOLEAN /\ file \in BOOLEAN /\ allowed \in BOOLEAN
  /\ upload \in {"idle", "inserted", "filed", "asked", "dead"}
  /\ press \in [Presses -> {"idle", "done", "hand", "drop"} \cup Verdict]
  /\ task \in [Presses -> {"none", "queued", "checked", "claimed", "loaded", "ended"}]
  /\ loads \in 0..Cardinality(Presses)
  /\ decision \in {"none"} \cup Verdict

Init ==
  /\ status = "absent" /\ isNew = FALSE /\ file = FALSE /\ upload = "idle"
  /\ press = [p \in Presses |-> "idle"] /\ task = [p \in Presses |-> "none"]
  /\ loads = 0 /\ allowed = TRUE /\ decision = "none"

(***************************************************************************)
(* The upload, and what happens to the file and to the requester.          *)
(***************************************************************************)
\* The three steps of _process_import; a process that dies between them leaves
\* a pending row that nobody is asked about.
Insert ==
  /\ upload = "idle" /\ allowed
  /\ status' = "pending" /\ upload' = "inserted" /\ isNew' \in BOOLEAN
  /\ UNCHANGED <<file, press, task, loads, allowed, decision>>

WriteFile ==
  /\ upload = "inserted"
  /\ file' = TRUE /\ upload' = "filed"
  /\ UNCHANGED <<status, isNew, press, task, loads, allowed, decision>>

NotifyAdmins ==
  /\ upload = "filed"
  /\ upload' = "asked"
  /\ UNCHANGED <<status, isNew, file, press, task, loads, allowed, decision>>

\* cleanup_imports goes by the age of the file.
CleanupFile ==
  /\ file /\ upload = "asked"
  /\ file' = FALSE
  /\ UNCHANGED <<status, isNew, upload, press, task, loads, allowed, decision>>

Revoke ==
  /\ allowed
  /\ allowed' = FALSE
  /\ UNCHANGED <<status, isNew, file, upload, press, task, loads, decision>>

Grant ==
  /\ ~allowed
  /\ allowed' = TRUE
  /\ UNCHANGED <<status, isNew, file, upload, press, task, loads, decision>>

(***************************************************************************)
(* handle_import_approve, handle_import_reject.                            *)
(***************************************************************************)
ReadPending(p, verdict) ==
  /\ upload = "asked" /\ press[p] = "idle" /\ status = "pending"
  /\ press' = [press EXCEPT ![p] = verdict]
  /\ UNCHANGED <<status, isNew, file, upload, task, loads, allowed, decision>>

\* The UPDATE has no condition on the status that was read.
Decide(p) ==
  /\ press[p] \in Verdict
  /\ status' = press[p] /\ decision' = press[p]
  /\ press' = [press EXCEPT ![p] = IF @ = "approved" THEN "hand" ELSE "drop"]
  /\ UNCHANGED <<isNew, file, upload, task, loads, allowed>>

SubmitImport(p) ==
  /\ press[p] = "hand"
  /\ press' = [press EXCEPT ![p] = "done"]
  /\ task' = [task EXCEPT ![p] = "queued"]
  /\ UNCHANGED <<status, isNew, file, upload, loads, allowed, decision>>

\* A rejected import keeps nothing.
DropFile(p) ==
  /\ press[p] = "drop"
  /\ press' = [press EXCEPT ![p] = "done"]
  /\ file' = FALSE
  /\ UNCHANGED <<status, isNew, upload, task, loads, allowed, decision>>

(***************************************************************************)
(* _import_run.                                                            *)
(***************************************************************************)
Move(p, step) == task' = [task EXCEPT ![p] = step]

\* _import_fail, from wherever the task is: no condition on the status either.
Fail(p) ==
  /\ status' = "failed"
  /\ Move(p, "ended")

Authorized == allowed

Authorize(p) ==
  /\ task[p] = "queued"
  /\ IF Authorized THEN Move(p, "checked") /\ UNCHANGED status ELSE Fail(p)
  /\ UNCHANGED <<isNew, file, upload, press, loads, allowed, decision>>

\* Mutant: the claim records what happens instead of gating it.
ClaimableAlways == TRUE

Claimable == status = "approved"

Claim(p) ==
  /\ task[p] = "checked"
  /\ \/ ~file /\ Fail(p)
     \/ file /\ Claimable /\ status' = "executing" /\ Move(p, "claimed")
     \/ file /\ ~Claimable /\ Move(p, "ended") /\ UNCHANGED status
  /\ UNCHANGED <<isNew, file, upload, press, loads, allowed, decision>>

Creatable == ~isNew \/ loads = 0

\* CREATE and COPY are one transaction, which fails on a table that exists, a
\* row that does not fit, or a timeout.
Copy(p) ==
  /\ task[p] = "claimed"
  /\ \/ file /\ Creatable /\ loads' = loads + 1 /\ Move(p, "loaded") /\ UNCHANGED status
     \/ Fail(p) /\ UNCHANGED loads
  /\ UNCHANGED <<isNew, file, upload, press, allowed, decision>>

\* The row may fail to be written after the rows of the table were.
Complete(p) ==
  /\ task[p] = "loaded"
  /\ \/ status' = "completed" /\ Move(p, "ended")
     \/ Fail(p)
  /\ UNCHANGED <<isNew, file, upload, press, loads, allowed, decision>>

\* Nothing resumes an import of a process that died.
Crash ==
  /\ upload' = IF upload \in {"inserted", "filed"} THEN "dead" ELSE upload
  /\ press' = [p \in Presses |-> IF press[p] = "idle" THEN "idle" ELSE "done"]
  /\ task' = [p \in Presses |-> IF task[p] = "none" THEN "none" ELSE "ended"]
  /\ UNCHANGED <<status, isNew, file, loads, allowed, decision>>

Next ==
  \/ Insert \/ WriteFile \/ NotifyAdmins \/ CleanupFile \/ Revoke \/ Grant
  \/ \E p \in Presses :
       \/ \E verdict \in Verdict : ReadPending(p, verdict)
       \/ Decide(p)
       \/ SubmitImport(p)
       \/ DropFile(p)
       \/ Authorize(p)
       \/ Claim(p)
       \/ Copy(p)
       \/ Complete(p)
  \/ Crash

Spec == Init /\ [][Next]_vars

(***************************************************************************)
(* Properties.                                                             *)
(***************************************************************************)
Begins(p) == task[p] = "checked" /\ task'[p] = "claimed"

\* An import that was rejected last does not begin, whatever was approved before
\* and is still waiting for a worker (executor._import_run, the claim).
RejectionStops == [][\A p \in Presses : Begins(p) => decision = "approved"]_vars

\* The rows are copied once, however often the import is handed to the pool
\* (executor._import_run, the comment of the claim).
LoadedOnce == loads <= 1
=============================================================================
