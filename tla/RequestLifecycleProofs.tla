----------------------- MODULE RequestLifecycleProofs -----------------------
(***************************************************************************)
(* Theorems about RequestLifecycle, for every set of requests, processes   *)
(* and statements, any number of restarts and of turns of the kill switch. *)
(*                                                                         *)
(* The first part is about one step: it keeps TypeOK, and to any one       *)
(* request it does one of the few things that Effect lists.  The second    *)
(* argues about the effects, not about the actions.                        *)
(*                                                                         *)
(* The safety properties follow from one inductive invariant, IInv: a row  *)
(* nobody started has no trace on the target; whoever is past the claim    *)
(* found the row approved, which the claim ended for good; and the change  *)
(* of a request is still to come as long as its session is open.           *)
(***************************************************************************)
EXTENDS RequestLifecycle, TLAPS

-----------------------------------------------------------------------------
(* Types of the parts that the actions are built from.                      *)

\* A fresh task at any point of its way is a task.
LEMMA FreshTyped == ASSUME NEW pc \in PCs PROVE Fresh(pc) \in TaskType
  BY DEF Fresh, IdleTask, TaskType, Routes, Outcomes, PCs

\* Every process has a task for every request.
LEMMA TaskTyped ==
  ASSUME TypeOK, NEW p \in Procs, NEW r \in Requests
  PROVE  task[p][r] \in TaskType
  BY DEF TypeOK, MemType

\* Storing a task keeps the table of tasks typed.
LEMMA PutTyped ==
  ASSUME TypeOK, NEW p \in Procs, NEW r \in Requests,
         NEW t \in TaskType, Put(p, r, t)
  PROVE  task' \in [Procs -> [Requests -> TaskType]]
  BY DEF TypeOK, MemType, Put

\* Moving a task on keeps the table of tasks typed.
LEMMA GotoTyped ==
  ASSUME TypeOK, NEW p \in Procs, NEW r \in Requests,
         NEW pc \in PCs, Goto(p, r, pc)
  PROVE  task' \in [Procs -> [Requests -> TaskType]]
<1>1. [task[p][r] EXCEPT !.pc = pc] \in TaskType
  BY TaskTyped DEF TaskType
<1>2. QED BY <1>1, PutTyped DEF Goto

\* Ending a task keeps the table of tasks typed.
LEMMA FinishTyped ==
  ASSUME TypeOK, NEW p \in Procs, NEW r \in Requests, Finish(p, r)
  PROVE  task' \in [Procs -> [Requests -> TaskType]]
<1>1. [Fresh("over") EXCEPT !.committed = task[p][r].committed] \in TaskType
  BY TaskTyped, FreshTyped DEF TaskType, PCs
<1>2. QED BY <1>1, PutTyped DEF Finish

\* executor._fail writes a status and an error of the right types.
LEMMA FailTyped ==
  ASSUME TypeOK, NEW r \in Requests, NEW why \in Errors, Fail(r, why)
  PROVE  status' \in [Requests -> Status] /\ error' \in [Requests -> Errors]
<1>1. "failed" \in Status BY DEF Status
<1>2. status' \in [Requests -> Status]
  BY <1>1 DEF TypeOK, RowType, Fail
<1>3. error' \in [Requests -> Errors]
  BY DEF TypeOK, RowType, Fail
<1>4. QED BY <1>2, <1>3

\* executor._escalate_to_dba writes a status and an error of the right types.
LEMMA EscalateTyped ==
  ASSUME TypeOK, NEW r \in Requests, Escalate(r)
  PROVE  status' \in [Requests -> Status] /\ error' \in [Requests -> Errors]
<1>1. "awaiting_dba_manual" \in Status /\ "escalated" \in Errors BY DEF Status, Errors
<1>2. QED BY <1>1 DEF TypeOK, RowType, Escalate

\* The idle task is a task.
LEMMA IdleTyped == IdleTask \in TaskType
  BY DEF IdleTask, TaskType, Routes, Outcomes, PCs

\* A process that lost its memory has a typed memory.
LEMMA ForgetTyped ==
  ASSUME TypeOK, NEW p \in Procs, ForgetMemory(p)
  PROVE  /\ proc' \in [Procs -> {"up", "draining", "down"}]
         /\ hand' \in [Procs -> [Requests -> {"idle", "validated", "checked"}]]
         /\ task' \in [Procs -> [Requests -> TaskType]]
         /\ sweep' \in [Procs -> BOOLEAN]
         /\ stopper' \in [Stoppers -> [Requests -> StopperType]]
<1>1. IdleStopper \in StopperType
  BY RecoveryAssumption DEF IdleStopper, StopperType, Servers
<1>2. QED BY <1>1, IdleTyped DEF TypeOK, MemType, ForgetMemory

\* A stop in progress that is stored is typed.
LEMMA StopTyped ==
  ASSUME TypeOK, NEW k \in Stoppers, NEW r \in Requests,
         NEW s \in StopperType, Stop(k, r, s)
  PROVE  stopper' \in [Stoppers -> [Requests -> StopperType]]
  BY DEF TypeOK, MemType, Stop

\* The reconciler writes statuses and errors of the right types.
LEMMA OrphansTyped ==
  ASSUME TypeOK, ReconcileOrphans
  PROVE  status' \in [Requests -> Status] /\ error' \in [Requests -> Errors]
  BY DEF TypeOK, RowType, ReconcileOrphans, Status, Errors

-----------------------------------------------------------------------------
(* Every action keeps TypeOK.                                               *)

LEMMA ValidateTypes ==
  ASSUME TypeOK, NEW p \in Procs, NEW r \in Requests, Validate(p, r)
  PROVE  TypeOK'
<1>1. RowType' /\ KillType' /\ DbType'
  BY DEF TypeOK, RowType, KillType, DbType, Validate, rowVars, killVars,
     dbVars
<1>2. MemType'
  BY DEF TypeOK, MemType, Validate
<1>3. QED
  BY <1>1, <1>2 DEF TypeOK

LEMMA SubmitRejectedTypes ==
  ASSUME TypeOK, NEW p \in Procs, NEW r \in Requests, SubmitRejected(p, r)
  PROVE  TypeOK'
<1>1. RowType' /\ KillType' /\ DbType'
  BY DEF TypeOK, RowType, KillType, DbType, SubmitRejected, rowVars,
     killVars, dbVars
<1>2. MemType'
  BY DEF TypeOK, MemType, SubmitRejected
<1>3. QED
  BY <1>1, <1>2 DEF TypeOK

LEMMA CreateRequestTypes ==
  ASSUME TypeOK, NEW p \in Procs, NEW r \in Requests,
         NEW s \in {"none", "future"}, NEW auto \in BOOLEAN,
         NEW old \in Requests \cup {NoRequest}, CreateRequest(p, r, s, auto, old)
  PROVE  TypeOK'
<1>1. KillType' /\ DbType'
  BY DEF TypeOK, KillType, DbType, CreateRequest, killVars, dbVars
<1>2. RowType'
  BY DEF TypeOK, RowType, CreateRequest, Status
<1>3. MemType'
  BY FreshTyped, PutTyped DEF TypeOK, MemType, CreateRequest, PCs
<1>4. QED
  BY <1>1, <1>2, <1>3 DEF TypeOK

LEMMA CheckKillSwitchTypes ==
  ASSUME TypeOK, NEW p \in Procs, NEW r \in Requests, CheckKillSwitch(p, r)
  PROVE  TypeOK'
<1>1. RowType' /\ KillType' /\ DbType'
  BY DEF TypeOK, RowType, KillType, DbType, CheckKillSwitch, rowVars,
     killVars, dbVars
<1>2. MemType'
  BY DEF TypeOK, MemType, CheckKillSwitch
<1>3. QED
  BY <1>1, <1>2 DEF TypeOK

LEMMA ApproveTypes ==
  ASSUME TypeOK, NEW p \in Procs, NEW r \in Requests, Approve(p, r)
  PROVE  TypeOK'
<1>1. KillType' /\ DbType'
  BY DEF TypeOK, KillType, DbType, Approve, killVars, dbVars
<1>2. RowType'
  BY DEF TypeOK, RowType, Approve, Status
<1>3. MemType'
  BY FreshTyped, PutTyped DEF TypeOK, MemType, Approve, PCs
<1>4. QED
  BY <1>1, <1>2, <1>3 DEF TypeOK

LEMMA RequestCancelTypes ==
  ASSUME TypeOK, NEW p \in Procs, NEW r \in Requests, RequestCancel(p, r)
  PROVE  TypeOK'
<1>1. KillType' /\ DbType'
  BY DEF TypeOK, KillType, DbType, RequestCancel, StopUnchanged, killVars
<1>2. RowType'
  BY DEF TypeOK, RowType, RequestCancel, StopUnchanged
<1>3. MemType'
  BY DEF TypeOK, MemType, RequestCancel, StopUnchanged, Stop, StopperType,
     IdleStopper, Servers
<1>4. QED
  BY <1>1, <1>2, <1>3 DEF TypeOK

LEMMA NotifyRaisesTypes ==
  ASSUME TypeOK, NEW p \in Procs, NEW r \in Requests, NotifyRaises(p, r)
  PROVE  TypeOK'
<1>1. RowType' /\ KillType' /\ DbType'
  BY DEF TypeOK, RowType, KillType, DbType, NotifyRaises, rowVars, killVars,
     dbVars
<1>2. MemType'
  BY IdleTyped, PutTyped DEF TypeOK, MemType, NotifyRaises
<1>3. QED
  BY <1>1, <1>2 DEF TypeOK

LEMMA SubmitTypes ==
  ASSUME TypeOK, NEW p \in Procs, NEW r \in Requests, Submit(p, r)
  PROVE  TypeOK'
<1>1. RowType' /\ KillType' /\ DbType'
  BY DEF TypeOK, RowType, KillType, DbType, Submit, rowVars, killVars, dbVars
<1>2. MemType'
  BY IdleTyped, FreshTyped, PutTyped DEF TypeOK, MemType, Submit, PCs
<1>3. QED
  BY <1>1, <1>2 DEF TypeOK

LEMMA RefuseTypes ==
  ASSUME TypeOK, NEW p \in Procs, NEW r \in Requests, Refuse(p, r)
  PROVE  TypeOK'
<1>1. KillType' /\ DbType'
  BY DEF TypeOK, KillType, DbType, Refuse, WorkerUnchanged, killVars, dbVars
<1>2. RowType'
  BY FailTyped DEF TypeOK, RowType, Refuse, WorkerUnchanged, Errors
<1>3. MemType'
  BY FinishTyped DEF TypeOK, MemType, Refuse, WorkerUnchanged
<1>4. QED
  BY <1>1, <1>2, <1>3 DEF TypeOK

LEMMA ClearTypes ==
  ASSUME TypeOK, NEW p \in Procs, NEW r \in Requests,
         NEW route \in Routes, Clear(p, r, route)
  PROVE  TypeOK'
<1>1. RowType' /\ KillType' /\ DbType'
  BY DEF TypeOK, RowType, KillType, DbType, Clear, WorkerUnchanged,
     killVars, dbVars
<1>2. [task[p][r] EXCEPT !.pc = "cleared", !.route = route] \in TaskType
  BY TaskTyped DEF TaskType, PCs
<1>3. MemType'
  BY <1>2, PutTyped DEF TypeOK, MemType, Clear, WorkerUnchanged
<1>4. QED
  BY <1>1, <1>3 DEF TypeOK

LEMMA ClaimTypes ==
  ASSUME TypeOK, NEW p \in Procs, NEW r \in Requests, Claim(p, r)
  PROVE  TypeOK'
<1>1. KillType'
  BY DEF TypeOK, KillType, Claim, WorkerUnchanged, killVars
<1>2. RowType'
  BY DEF TypeOK, RowType, Claim, WorkerUnchanged, Status
<1>3. MemType'
  BY GotoTyped, FinishTyped DEF TypeOK, MemType, Claim, WorkerUnchanged, PCs
<1>4. DbType'
  BY DEF TypeOK, DbType, Claim
<1>5. QED
  BY <1>1, <1>2, <1>3, <1>4 DEF TypeOK

LEMMA EscalateIncompatibleTypes ==
  ASSUME TypeOK, NEW p \in Procs,
         NEW r \in Requests, EscalateIncompatible(p, r)
  PROVE  TypeOK'
<1>1. KillType' /\ DbType'
  BY DEF TypeOK, KillType, DbType, EscalateIncompatible, WorkerUnchanged,
     killVars, dbVars
<1>2. RowType'
  BY EscalateTyped DEF TypeOK, RowType, EscalateIncompatible, WorkerUnchanged
<1>3. MemType'
  BY FinishTyped DEF TypeOK, MemType, EscalateIncompatible, WorkerUnchanged
<1>4. QED
  BY <1>1, <1>2, <1>3 DEF TypeOK

LEMMA ConnectTypes ==
  ASSUME TypeOK, NEW p \in Procs, NEW r \in Requests,
         NEW pid \in Servers, Connect(p, r, pid)
  PROVE  TypeOK'
<1>1. KillType'
  BY DEF TypeOK, KillType, Connect, WorkerUnchanged, killVars
<1>2. RowType'
  BY DEF TypeOK, RowType, Connect, WorkerUnchanged
<1>3. MemType'
  BY GotoTyped DEF TypeOK, MemType, Connect, WorkerUnchanged, PCs
<1>4. DbType'
  BY DEF TypeOK, DbType, Connect, SessionType, ServerOf, Servers
<1>5. QED
  BY <1>1, <1>2, <1>3, <1>4 DEF TypeOK

LEMMA ConnectFailsTypes ==
  ASSUME TypeOK, NEW p \in Procs, NEW r \in Requests, ConnectFails(p, r)
  PROVE  TypeOK'
<1>1. RowType' /\ KillType' /\ DbType'
  BY DEF TypeOK, RowType, KillType, DbType, ConnectFails, WorkerUnchanged,
     killVars, dbVars
<1>2. [task[p][r] EXCEPT !.pc = "ended", !.out = "lost"] \in TaskType
  BY TaskTyped DEF TaskType, PCs, Outcomes
<1>3. MemType'
  BY <1>2, PutTyped DEF TypeOK, MemType, ConnectFails, WorkerUnchanged
<1>4. QED
  BY <1>1, <1>3 DEF TypeOK

LEMMA StatementEndsTypes ==
  ASSUME TypeOK, NEW p \in Procs, NEW r \in Requests,
         NEW out \in Outcomes \ {"none"}, NEW landed \in BOOLEAN,
         NEW told \in BOOLEAN, StatementEnds(p, r, out, landed, told)
  PROVE  TypeOK'
<1>1. RowType' /\ KillType'
  BY DEF TypeOK, RowType, KillType, StatementEnds, WorkerUnchanged, killVars
<1>2. [task[p][r] EXCEPT !.pc = "ended", !.out = out, !.committed = told] \in TaskType
  BY TaskTyped DEF TaskType, PCs, Outcomes
<1>3. MemType'
  BY <1>2, PutTyped DEF TypeOK, MemType, StatementEnds, WorkerUnchanged
<1>4. DbType'
  BY DEF TypeOK, DbType, StatementEnds, SessionType, NoSession, Servers
<1>5. QED
  BY <1>1, <1>3, <1>4 DEF TypeOK

LEMMA CompleteTypes ==
  ASSUME TypeOK, NEW p \in Procs, NEW r \in Requests, Complete(p, r)
  PROVE  TypeOK'
<1>1. KillType' /\ DbType'
  BY DEF TypeOK, KillType, DbType, Complete, WorkerUnchanged, killVars, dbVars
<1>2. RowType'
  BY DEF TypeOK, RowType, Complete, WorkerUnchanged, Status
<1>3. MemType'
  BY GotoTyped DEF TypeOK, MemType, Complete, WorkerUnchanged, PCs
<1>4. QED
  BY <1>1, <1>2, <1>3 DEF TypeOK

LEMMA SizeCapTypes ==
  ASSUME TypeOK, NEW p \in Procs, NEW r \in Requests, SizeCap(p, r)
  PROVE  TypeOK'
<1>1. KillType' /\ DbType'
  BY DEF TypeOK, KillType, DbType, SizeCap, WorkerUnchanged, killVars, dbVars
<1>2. RowType'
  BY FailTyped DEF TypeOK, RowType, SizeCap, WorkerUnchanged, Errors
<1>3. MemType'
  BY FinishTyped DEF TypeOK, MemType, SizeCap, WorkerUnchanged
<1>4. QED
  BY <1>1, <1>2, <1>3 DEF TypeOK

LEMMA RaiseTypes ==
  ASSUME TypeOK, NEW p \in Procs, NEW r \in Requests, Raise(p, r)
  PROVE  TypeOK'
<1>1. RowType' /\ KillType' /\ DbType'
  BY DEF TypeOK, RowType, KillType, DbType, Raise, WorkerUnchanged,
     killVars, dbVars
<1>2. [task[p][r] EXCEPT !.pc = "ended", !.out = "error"] \in TaskType
  BY TaskTyped DEF TaskType, PCs, Outcomes
<1>3. MemType'
  BY <1>2, PutTyped DEF TypeOK, MemType, Raise, WorkerUnchanged
<1>4. QED
  BY <1>1, <1>3 DEF TypeOK

LEMMA DeliverTypes ==
  ASSUME TypeOK, NEW p \in Procs, NEW r \in Requests, Deliver(p, r)
  PROVE  TypeOK'
<1>1. RowType' /\ KillType' /\ DbType'
  BY DEF TypeOK, RowType, KillType, DbType, Deliver, WorkerUnchanged,
     killVars, dbVars
<1>2. MemType'
  BY FinishTyped DEF TypeOK, MemType, Deliver, WorkerUnchanged
<1>3. QED
  BY <1>1, <1>2 DEF TypeOK

LEMMA FallBackTypes ==
  ASSUME TypeOK, NEW p \in Procs, NEW r \in Requests, FallBack(p, r)
  PROVE  TypeOK'
<1>1. KillType' /\ DbType'
  BY DEF TypeOK, KillType, DbType, FallBack, WorkerUnchanged, killVars, dbVars
<1>2. RowType'
  BY DEF TypeOK, RowType, FallBack, WorkerUnchanged, Servers
<1>3. MemType'
  BY FreshTyped, PutTyped DEF TypeOK, MemType, FallBack, WorkerUnchanged, PCs
<1>4. QED
  BY <1>1, <1>2, <1>3 DEF TypeOK

LEMMA ChosenFailsTypes ==
  ASSUME TypeOK, NEW p \in Procs, NEW r \in Requests, ChosenFails(p, r)
  PROVE  TypeOK'
<1>1. KillType' /\ DbType'
  BY DEF TypeOK, KillType, DbType, ChosenFails, WorkerUnchanged, killVars,
     dbVars
<1>2. RowType'
  BY FailTyped DEF TypeOK, RowType, ChosenFails, WorkerUnchanged, Errors
<1>3. MemType'
  BY FinishTyped DEF TypeOK, MemType, ChosenFails, WorkerUnchanged
<1>4. QED
  BY <1>1, <1>2, <1>3 DEF TypeOK

LEMMA HandleCanceledTypes ==
  ASSUME TypeOK, NEW p \in Procs, NEW r \in Requests, HandleCanceled(p, r)
  PROVE  TypeOK'
<1>1. KillType' /\ DbType'
  BY DEF TypeOK, KillType, DbType, HandleCanceled, WorkerUnchanged,
     killVars, dbVars
<1>2. RowType'
  BY FailTyped DEF TypeOK, RowType, HandleCanceled, WorkerUnchanged, Errors
<1>3. MemType'
  BY FinishTyped DEF TypeOK, MemType, HandleCanceled, WorkerUnchanged
<1>4. QED
  BY <1>1, <1>2, <1>3 DEF TypeOK

LEMMA HandleDeniedTypes ==
  ASSUME TypeOK, NEW p \in Procs, NEW r \in Requests, HandleDenied(p, r)
  PROVE  TypeOK'
<1>1. KillType' /\ DbType'
  BY DEF TypeOK, KillType, DbType, HandleDenied, WorkerUnchanged, killVars,
     dbVars
<1>2. RowType'
  BY FailTyped, EscalateTyped DEF TypeOK, RowType, HandleDenied,
     WorkerUnchanged, Errors
<1>3. MemType'
  BY FinishTyped DEF TypeOK, MemType, HandleDenied, WorkerUnchanged
<1>4. QED
  BY <1>1, <1>2, <1>3 DEF TypeOK

LEMMA HandleExceptionTypes ==
  ASSUME TypeOK, NEW p \in Procs, NEW r \in Requests,
         NEW readable \in BOOLEAN, HandleException(p, r, readable)
  PROVE  TypeOK'
<1>1. KillType' /\ DbType'
  BY DEF TypeOK, KillType, DbType, HandleException, WorkerUnchanged,
     killVars, dbVars
<1>2. RowType'
  BY FailTyped DEF TypeOK, RowType, HandleException, WorkerUnchanged,
     Errors, Status
<1>3. MemType'
  BY FinishTyped DEF TypeOK, MemType, HandleException, WorkerUnchanged
<1>4. QED
  BY <1>1, <1>2, <1>3 DEF TypeOK

LEMMA DeclineTypes ==
  ASSUME TypeOK, NEW r \in Requests, NEW s \in Status, Decline(r, s)
  PROVE  TypeOK'
<1>1. KillType' /\ MemType' /\ DbType'
  BY DEF TypeOK, KillType, MemType, DbType, Decline, killVars, memVars, dbVars
<1>2. RowType'
  BY DEF TypeOK, RowType, Decline, Status
<1>3. QED
  BY <1>1, <1>2 DEF TypeOK

LEMMA ManualCloseTypes ==
  ASSUME TypeOK, NEW r \in Requests, NEW s \in Status, ManualClose(r, s)
  PROVE  TypeOK'
<1>1. KillType' /\ MemType' /\ DbType'
  BY DEF TypeOK, KillType, MemType, DbType, ManualClose, killVars, memVars,
     dbVars
<1>2. RowType'
  BY DEF TypeOK, RowType, ManualClose, Status, Errors
<1>3. QED
  BY <1>1, <1>2 DEF TypeOK

LEMMA CloseTypes ==
  ASSUME TypeOK, NEW r \in Requests, Close(r)
  PROVE  TypeOK'
<1>1. KillType' /\ MemType' /\ DbType'
  BY DEF TypeOK, KillType, MemType, DbType, Close, killVars, memVars, dbVars
<1>2. RowType'
  BY DEF TypeOK, RowType, Close, Status
<1>3. QED
  BY <1>1, <1>2 DEF TypeOK

LEMMA ReadRowTypes ==
  ASSUME TypeOK, NEW k \in Stoppers, NEW r \in Requests, ReadRow(k, r)
  PROVE  TypeOK'
<1>1. stopper[k][r] \in StopperType
  BY DEF TypeOK, MemType
<1>2. [stopper[k][r] EXCEPT !.pc = "decided", !.out = "not_running"] \in StopperType
  BY <1>1 DEF StopperType
<1>3. [stopper[k][r] EXCEPT !.pc = "decided", !.out = "failed"] \in StopperType
  BY <1>1 DEF StopperType
<1>4. [stopper[k][r] EXCEPT !.pc = "aimed", !.at = backend[r]] \in StopperType
  BY <1>1 DEF StopperType, TypeOK, RowType
<1>5. RowType' /\ KillType' /\ DbType'
  BY DEF TypeOK, RowType, KillType, DbType, ReadRow, StopUnchanged, killVars
<1>6. MemType'
  BY <1>2, <1>3, <1>4, StopTyped DEF TypeOK, MemType, ReadRow, StopUnchanged
<1>7. QED
  BY <1>5, <1>6 DEF TypeOK

LEMMA StopBreaksTypes ==
  ASSUME TypeOK, NEW k \in Stoppers, NEW r \in Requests, StopBreaks(k, r)
  PROVE  TypeOK'
<1>1. stopper[k][r] \in StopperType
  BY DEF TypeOK, MemType
<1>2. [stopper[k][r] EXCEPT !.pc = "decided", !.out = "failed"] \in StopperType
  BY <1>1 DEF StopperType
<1>3. RowType' /\ KillType' /\ DbType'
  BY DEF TypeOK, RowType, KillType, DbType, StopBreaks, StopUnchanged,
     killVars
<1>4. MemType'
  BY <1>2, StopTyped DEF TypeOK, MemType, StopBreaks, StopUnchanged
<1>5. QED
  BY <1>3, <1>4 DEF TypeOK

LEMMA SignalCancelTypes ==
  ASSUME TypeOK, NEW k \in Stoppers, NEW r \in Requests, SignalCancel(k, r)
  PROVE  TypeOK'
<1>1. stopper[k][r] \in StopperType
  BY DEF TypeOK, MemType
<1>2. [stopper[k][r] EXCEPT !.pc = "waiting"] \in StopperType
  BY <1>1 DEF StopperType
<1>3. [stopper[k][r] EXCEPT !.pc = "decided", !.out = "not_running"] \in StopperType
  BY <1>1 DEF StopperType
<1>4. RowType' /\ KillType'
  BY DEF TypeOK, RowType, KillType, SignalCancel, StopUnchanged, killVars
<1>5. MemType'
  BY <1>2, <1>3, StopTyped DEF TypeOK, MemType, SignalCancel, StopUnchanged
<1>6. DbType'
  BY DEF TypeOK, DbType, SignalCancel, StopUnchanged, SessionType
<1>7. QED
  BY <1>4, <1>5, <1>6 DEF TypeOK

LEMMA SignalLandsTypes ==
  ASSUME TypeOK, NEW k \in Stoppers, NEW r \in Requests, SignalLands(k, r)
  PROVE  TypeOK'
<1>1. stopper[k][r] \in StopperType
  BY DEF TypeOK, MemType
<1>2. [stopper[k][r] EXCEPT !.pc = "decided", !.out = "cancelled"] \in StopperType
  BY <1>1 DEF StopperType
<1>3. [stopper[k][r] EXCEPT !.pc = "decided", !.out = "terminated"] \in StopperType
  BY <1>1 DEF StopperType
<1>4. RowType' /\ KillType'
  BY DEF TypeOK, RowType, KillType, SignalLands, StopUnchanged, killVars
<1>5. MemType'
  BY <1>2, <1>3, StopTyped DEF TypeOK, MemType, SignalLands, StopUnchanged
<1>6. DbType'
  BY DEF TypeOK, DbType, SignalLands, StopUnchanged, SessionType
<1>7. QED
  BY <1>4, <1>5, <1>6 DEF TypeOK

LEMMA StopReturnsTypes ==
  ASSUME TypeOK, NEW k \in Stoppers, NEW r \in Requests, StopReturns(k, r)
  PROVE  TypeOK'
<1>1. IdleStopper \in StopperType
  BY RecoveryAssumption DEF IdleStopper, StopperType, Servers
<1>2. KillType' /\ DbType'
  BY DEF TypeOK, KillType, DbType, StopReturns, StopUnchanged, killVars
<1>3. RowType'
  BY DEF TypeOK, RowType, StopReturns, StopUnchanged, Status, Errors
<1>4. MemType'
  BY <1>1, StopTyped DEF TypeOK, MemType, StopReturns, StopUnchanged
<1>5. QED
  BY <1>2, <1>3, <1>4 DEF TypeOK

LEMMA BecomeDueTypes ==
  ASSUME TypeOK, NEW r \in Requests, BecomeDue(r)
  PROVE  TypeOK'
<1>1. KillType' /\ MemType' /\ DbType'
  BY DEF TypeOK, KillType, MemType, DbType, BecomeDue, killVars, memVars,
     dbVars
<1>2. RowType'
  BY DEF TypeOK, RowType, BecomeDue
<1>3. QED
  BY <1>1, <1>2 DEF TypeOK

LEMMA GrowTypes ==
  ASSUME TypeOK, NEW r \in Requests, Grow(r)
  PROVE  TypeOK'
<1>1. KillType' /\ MemType' /\ DbType'
  BY DEF TypeOK, KillType, MemType, DbType, Grow, killVars, memVars, dbVars
<1>2. RowType'
  BY DEF TypeOK, RowType, Grow
<1>3. QED
  BY <1>1, <1>2 DEF TypeOK

LEMMA SessionEndsTypes ==
  ASSUME TypeOK, NEW r \in Requests,
         NEW landed \in BOOLEAN, SessionEnds(r, landed)
  PROVE  TypeOK'
<1>1. RowType' /\ KillType' /\ MemType'
  BY DEF TypeOK, RowType, KillType, MemType, SessionEnds, rowVars, killVars,
     memVars
<1>2. DbType'
  BY DEF TypeOK, DbType, SessionEnds, SessionType, NoSession, Servers
<1>3. QED
  BY <1>1, <1>2 DEF TypeOK

LEMMA DrainTypes ==
  ASSUME TypeOK, NEW p \in Procs, Drain(p)
  PROVE  TypeOK'
<1>1. RowType' /\ KillType' /\ DbType'
  BY DEF TypeOK, RowType, KillType, DbType, Drain, rowVars, killVars, dbVars
<1>2. MemType'
  BY DEF TypeOK, MemType, Drain
<1>3. QED
  BY <1>1, <1>2 DEF TypeOK

LEMMA ExitTypes ==
  ASSUME TypeOK, NEW p \in Procs, Exit(p)
  PROVE  TypeOK'
<1>1. RowType' /\ KillType' /\ DbType'
  BY DEF TypeOK, RowType, KillType, DbType, Exit, rowVars, killVars, dbVars
<1>2. MemType'
  BY ForgetTyped DEF TypeOK, MemType, Exit
<1>3. QED
  BY <1>1, <1>2 DEF TypeOK

LEMMA DrainTimeoutTypes ==
  ASSUME TypeOK, NEW p \in Procs, DrainTimeout(p)
  PROVE  TypeOK'
<1>1. RowType' /\ KillType' /\ DbType'
  BY DEF TypeOK, RowType, KillType, DbType, DrainTimeout, rowVars, killVars,
     dbVars
<1>2. MemType'
  BY ForgetTyped DEF TypeOK, MemType, DrainTimeout
<1>3. QED
  BY <1>1, <1>2 DEF TypeOK

LEMMA CrashTypes ==
  ASSUME TypeOK, NEW p \in Procs, Crash(p)
  PROVE  TypeOK'
<1>1. RowType' /\ KillType' /\ DbType'
  BY DEF TypeOK, RowType, KillType, DbType, Crash, rowVars, killVars, dbVars
<1>2. MemType'
  BY ForgetTyped DEF TypeOK, MemType, Crash
<1>3. QED
  BY <1>1, <1>2 DEF TypeOK

LEMMA BootTypes ==
  ASSUME TypeOK, NEW p \in Procs, Boot(p)
  PROVE  TypeOK'
<1>1. Fresh("queued") \in TaskType
  BY FreshTyped DEF PCs
<1>2. task' \in [Procs -> [Requests -> TaskType]]
  <2> DEFINE pool == [r \in Requests |-> IF Resubmitted(status[r])
                                        THEN Fresh("queued") ELSE task[p][r]]
  <2>1. pool \in [Requests -> TaskType]
    BY <1>1 DEF TypeOK, MemType
  <2>2. task' \in {task, [task EXCEPT ![p] = pool]}
    BY DEF Boot
  <2> HIDE DEF pool
  <2>3. QED
    BY <2>1, <2>2 DEF TypeOK, MemType
<1>3. DbType'
  BY DEF TypeOK, DbType, Boot, dbVars
<1>4. RowType'
  BY OrphansTyped DEF TypeOK, RowType, Boot
<1>5. KillType'
  BY DEF TypeOK, KillType, Boot
<1>6. MemType'
  BY <1>2 DEF TypeOK, MemType, Boot
<1>7. QED
  BY <1>3, <1>4, <1>5, <1>6 DEF TypeOK

LEMMA RefreshCacheTypes ==
  ASSUME TypeOK, NEW p \in Procs, RefreshCache(p)
  PROVE  TypeOK'
<1>1. RowType' /\ MemType' /\ DbType'
  BY DEF TypeOK, RowType, MemType, DbType, RefreshCache, rowVars, memVars,
     dbVars
<1>2. KillType'
  BY DEF TypeOK, KillType, RefreshCache
<1>3. QED
  BY <1>1, <1>2 DEF TypeOK

LEMMA StopRunningReadsTypes ==
  ASSUME TypeOK, NEW p \in Procs, StopRunningReads(p)
  PROVE  TypeOK'
<1>1. KillType' /\ DbType'
  BY DEF TypeOK, KillType, DbType, StopRunningReads, killVars, dbVars
<1>2. RowType'
  BY DEF TypeOK, RowType, StopRunningReads
<1>3. MemType'
  BY DEF TypeOK, MemType, StopRunningReads, StopperType, IdleStopper, Servers
<1>4. QED
  BY <1>1, <1>2, <1>3 DEF TypeOK

LEMMA SetKillTypes ==
  ASSUME TypeOK, NEW p \in Procs, NEW on \in BOOLEAN, SetKill(p, on)
  PROVE  TypeOK'
<1>1. RowType' /\ DbType'
  BY DEF TypeOK, RowType, DbType, SetKill, rowVars, dbVars
<1>2. KillType'
  BY DEF TypeOK, KillType, SetKill
<1>3. MemType'
  BY DEF TypeOK, MemType, SetKill
<1>4. QED
  BY <1>1, <1>2, <1>3 DEF TypeOK

LEMMA DispatchDueTypes ==
  ASSUME TypeOK, DispatchDue
  PROVE  TypeOK'
<1>1. KillType' /\ DbType'
  BY DEF TypeOK, KillType, DbType, DispatchDue, killVars, dbVars
<1>2. RowType'
  BY DEF TypeOK, RowType, DispatchDue, DispatchedTo, Status
<1>3. MemType'
  BY FreshTyped, RecoveryAssumption DEF TypeOK, MemType, DispatchDue, PCs
<1>4. QED
  BY <1>1, <1>2, <1>3 DEF TypeOK

LEMMA ReconcileTypes ==
  ASSUME TypeOK, Reconcile
  PROVE  TypeOK'
<1>1. KillType' /\ MemType' /\ DbType'
  BY DEF TypeOK, KillType, MemType, DbType, Reconcile, killVars, memVars,
     dbVars
<1>2. RowType'
  BY OrphansTyped DEF TypeOK, RowType, Reconcile
<1>3. QED
  BY <1>1, <1>2 DEF TypeOK

LEMMA SweepRunawayTypes ==
  ASSUME TypeOK, NEW r \in Requests, SweepRunaway(r)
  PROVE  TypeOK'
<1>1. RowType' /\ KillType' /\ DbType'
  BY DEF TypeOK, RowType, KillType, DbType, SweepRunaway, StopUnchanged,
     killVars
<1>2. MemType'
  BY RecoveryAssumption DEF TypeOK, MemType, SweepRunaway, StopUnchanged,
     Stop, StopperType, IdleStopper, Servers
<1>3. QED
  BY <1>1, <1>2 DEF TypeOK

\* Every step keeps TypeOK.
LEMMA TypeStep ==
  ASSUME TypeOK, [Next]_vars
  PROVE  TypeOK'
<1>1. CASE UNCHANGED vars
  BY <1>1 DEF TypeOK, RowType, KillType, MemType, DbType, vars, rowVars,
     killVars, memVars, dbVars
<1>2. ASSUME NEW p \in Procs, NEW r \in Requests, Person(p, r)
      PROVE  TypeOK'
  BY <1>2, ValidateTypes, SubmitRejectedTypes, CreateRequestTypes,
     CheckKillSwitchTypes, ApproveTypes, RequestCancelTypes DEF Person
<1>3. ASSUME NEW p \in Procs, NEW r \in Requests, NotifyRaises(p, r) \/ Submit(p, r)
      PROVE  TypeOK'
  BY <1>3, NotifyRaisesTypes, SubmitTypes
<1>4. ASSUME NEW p \in Procs, NEW r \in Requests, Worker(p, r)
      PROVE  TypeOK'
  BY <1>4, RefuseTypes, ClearTypes, ClaimTypes, EscalateIncompatibleTypes,
     ConnectTypes, ConnectFailsTypes, CompleteTypes, SizeCapTypes,
     RaiseTypes, DeliverTypes, FallBackTypes, ChosenFailsTypes,
     HandleCanceledTypes, HandleDeniedTypes, HandleExceptionTypes DEF Worker
<1>5. ASSUME NEW r \in Requests, Row(r)
      PROVE  TypeOK'
  BY <1>5, DeclineTypes, ManualCloseTypes, CloseTypes DEF Row, Withdraw,
     CancelPending, CancelScheduled, ExpirePending
<1>6. ASSUME NEW r \in Requests, Target(r)
      PROVE  TypeOK'
  BY <1>6, StatementEndsTypes, SessionEndsTypes DEF Target
<1>7. ASSUME NEW r \in Requests, BecomeDue(r) \/ Grow(r)
      PROVE  TypeOK'
  BY <1>7, BecomeDueTypes, GrowTypes
<1>8. ASSUME NEW k \in Stoppers, NEW r \in Requests, Stopping(k, r)
      PROVE  TypeOK'
  BY <1>8, ReadRowTypes, StopBreaksTypes, SignalCancelTypes,
     SignalLandsTypes, StopReturnsTypes DEF Stopping
<1>9. ASSUME NEW p \in Procs, Process(p)
      PROVE  TypeOK'
  BY <1>9, DrainTypes, ExitTypes, DrainTimeoutTypes, CrashTypes, BootTypes,
     RefreshCacheTypes, StopRunningReadsTypes, SetKillTypes DEF Process
<1>10. CASE Scheduler
  BY <1>10, DispatchDueTypes, ReconcileTypes, SweepRunawayTypes DEF Scheduler
<1>11. QED
  BY <1>1, <1>2, <1>3, <1>4, <1>5, <1>6, <1>7, <1>8, <1>9, <1>10 DEF Next

-----------------------------------------------------------------------------
(* The effect of one step on one request.                                   *)

\* Nothing happens to the execution of x.
SameRun(x) ==
  /\ starts'[x] = starts[x]
  /\ applied'[x] = applied[x]
  /\ session'[x].at = session[x].at

\* No handler takes the form of the request in.
HandsKept(x) ==
  \A q \in Procs : hand'[q][x] = "validated" => hand[q][x] = "validated"

\* No worker takes a step, although some may be gone with their process.
TasksKept(x) ==
  \A q \in Procs : task'[q][x] = task[q][x] \/ task'[q][x] = IdleTask

\* The task of p takes a step, and no other.
TaskTo(p, x, t) ==
  \A q \in Procs : task'[q][x] = IF q = p THEN t ELSE task[q][x]

\* The moves that are not the worker's: decide, withdraw, stop, sweep, close.
MovedByOthers ==
  ({"pending"} \X {"rejected", "changes_requested", "scheduled"}) \cup
  ({"pending", "changes_requested", "approved", "scheduled"} \X {"cancelled"}) \cup
  ({"executing"} \X {"failed"}) \cup
  ({"awaiting_dba_manual"} \X {"completed", "failed"})

\* Nothing happens to the request; at most a process that dies forgets it.
Untouched(x) ==
  status'[x] = status[x] /\ SameRun(x) /\ HandsKept(x) /\ TasksKept(x)

\* Somebody who does not execute the request moves its row.
Moved(x) ==
  /\ <<status[x], status'[x]>> \in MovedByOthers
  /\ SameRun(x) /\ HandsKept(x) /\ TasksKept(x)

\* A handler takes a form in.
Validated(x) ==
  /\ status[x] = "absent" /\ status'[x] = status[x]
  /\ \E p \in Procs : \A q \in Procs :
       hand[q][x] # "validated" /\ (hand'[q][x] = "validated" => q = p)
  /\ SameRun(x) /\ TasksKept(x)

\* The request is approved and one process has it to run.
Released(x) ==
  /\ \/ status[x] \in {"pending", "scheduled", "approved"}
     \/ \E p \in Procs : hand[p][x] = "validated" /\ hand'[p][x] # "validated"
  /\ status'[x] = "approved"
  /\ \E p \in Procs :
       /\ task'[p][x] \in {Fresh("notify"), Fresh("handoff"), Fresh("queued")}
       /\ TaskTo(p, x, task'[p][x])
  /\ SameRun(x) /\ HandsKept(x)

\* The row is inserted and waits.
Created(x) ==
  /\ \E p \in Procs : hand[p][x] = "validated" /\ hand'[p][x] # "validated"
  /\ status'[x] \in {"pending", "scheduled"}
  /\ SameRun(x) /\ HandsKept(x) /\ TasksKept(x)

\* executor.submit puts the request in the pool.
Queued(p, x) ==
  /\ task[p][x].pc \in {"notify", "handoff"}
  /\ status'[x] = status[x]
  /\ task'[p][x] = Fresh("queued")
  /\ TaskTo(p, x, task'[p][x])
  /\ SameRun(x) /\ HandsKept(x)

\* The checks before the claim pass; only a read leaves the primary.
Routed(p, x) ==
  /\ task[p][x].pc = "queued"
  /\ status'[x] = status[x]
  /\ task'[p][x].pc = "cleared"
  /\ task'[p][x].route # "primary" => ~Mutates(x)
  /\ TaskTo(p, x, task'[p][x])
  /\ SameRun(x) /\ HandsKept(x)

\* The claim succeeds.
Claimed(p, x) ==
  /\ task[p][x].pc = "cleared"
  /\ status[x] = "approved" /\ status'[x] = "executing"
  /\ starts'[x] = starts[x] + 1
  /\ applied'[x] = applied[x] /\ session'[x].at = session[x].at
  /\ task'[p][x].pc = "claimed" /\ task'[p][x].route = task[p][x].route
  /\ TaskTo(p, x, task'[p][x])
  /\ HandsKept(x)

\* The worker returns, and fails the row or leaves it as it is.
GivenUp(p, x) ==
  /\ \/ status'[x] = status[x]
     \/ /\ status[x] \notin {"completed", "rejected", "cancelled"}
        /\ status'[x] = "failed"
        /\ task[p][x].pc \in Owning \cup {"queued"}
  /\ task'[p][x].pc = "over" /\ task'[p][x].route = "primary"
  /\ TaskTo(p, x, task'[p][x])
  /\ SameRun(x) /\ HandsKept(x)

\* The worker hands the request to a DBA.
Escalated(p, x) ==
  /\ \/ task[p][x].pc = "claimed"
     \/ task[p][x].pc = "ended" /\ task[p][x].out # "error"
  /\ status'[x] = "awaiting_dba_manual"
  /\ task'[p][x].pc = "over" /\ task'[p][x].route = "primary"
  /\ TaskTo(p, x, task'[p][x])
  /\ SameRun(x) /\ HandsKept(x)

\* The worker completes the row.
Completed(p, x) ==
  /\ \/ /\ task[p][x].pc = "ended" /\ task[p][x].out # "error"
        /\ task'[p][x].pc = "delivering"
     \/ /\ task[p][x].pc = "ended" /\ status[x] = "executing"
        /\ task'[p][x].pc = "over"
  /\ task'[p][x].route \in {"primary", task[p][x].route}
  /\ status'[x] = "completed"
  /\ TaskTo(p, x, task'[p][x])
  /\ SameRun(x) /\ HandsKept(x)

\* The worker opens its session.
Connected(p, x) ==
  /\ task[p][x].pc = "claimed"
  /\ status'[x] = status[x] /\ starts'[x] = starts[x] /\ applied'[x] = applied[x]
  /\ task'[p][x].pc = "running" /\ task'[p][x].route = task[p][x].route
  /\ TaskTo(p, x, task'[p][x])
  /\ HandsKept(x)

\* The statements come back, and a change may be committed.
Returned(p, x) ==
  /\ task[p][x].pc = "running"
  /\ status'[x] = status[x] /\ starts'[x] = starts[x]
  /\ \/ applied'[x] = applied[x]
     \/ Mutates(x) /\ applied'[x] = applied[x] + 1
  /\ session'[x].at = "none"
  /\ task'[p][x].pc = "ended" /\ task'[p][x].route = task[p][x].route
  /\ TaskTo(p, x, task'[p][x])
  /\ HandsKept(x)

\* An error moves the worker to its last handler.
Raised(p, x) ==
  /\ task[p][x].pc = "claimed" \/
     (task[p][x].pc \in {"ended", "delivering"} /\ task'[p][x].out = "error")
  /\ status'[x] = status[x]
  /\ task'[p][x].pc = "ended" /\ task'[p][x].route = task[p][x].route
  /\ TaskTo(p, x, task'[p][x])
  /\ SameRun(x) /\ HandsKept(x)

\* A read leaves its replica for the primary.
Retried(p, x) ==
  /\ task[p][x].pc = "ended" /\ task[p][x].out # "error"
  /\ task[p][x].route # "primary"
  /\ status'[x] = status[x]
  /\ task'[p][x] = Fresh("claimed")
  /\ TaskTo(p, x, task'[p][x])
  /\ SameRun(x) /\ HandsKept(x)

\* A backend whose client is gone ends, and a change may be committed.
Cut(x) ==
  /\ session[x].at # "none" /\ session'[x].at = "none"
  /\ \A p \in Procs : task[p][x].pc # "running"
  /\ status'[x] = status[x] /\ starts'[x] = starts[x]
  /\ \/ applied'[x] = applied[x]
     \/ Mutates(x) /\ applied'[x] = applied[x] + 1
  /\ HandsKept(x) /\ TasksKept(x)

\* What a step of the task of p may do to the request it runs.
WorkerStep(p, x) ==
  \/ Queued(p, x) \/ Routed(p, x) \/ Claimed(p, x) \/ GivenUp(p, x)
  \/ Escalated(p, x) \/ Completed(p, x) \/ Connected(p, x) \/ Returned(p, x)
  \/ Raised(p, x) \/ Retried(p, x)

\* What a step of the whole system may do to one request.
Effect(x) ==
  /\ kind'[x] = kind[x]
  /\ \/ Untouched(x) \/ Moved(x) \/ Validated(x) \/ Created(x) \/ Released(x)
     \/ Cut(x) \/ \E p \in Procs : WorkerStep(p, x)

-----------------------------------------------------------------------------
(* Every action has one of these effects on every request.                  *)

\* Storing a task is a step of that task and no other.
LEMMA PutAt ==
  ASSUME TypeOK, NEW p \in Procs, NEW r \in Requests, NEW t, Put(p, r, t)
  PROVE  /\ task'[p][r] = t
         /\ TaskTo(p, r, task'[p][r])
         /\ \A x \in Requests \ {r} : TasksKept(x)
  BY DEF TypeOK, MemType, Put, TaskTo, TasksKept

\* Ending a task is a step of that task and no other.
LEMMA FinishAt ==
  ASSUME TypeOK, NEW p \in Procs, NEW r \in Requests, Finish(p, r)
  PROVE  /\ task'[p][r].pc = "over" /\ task'[p][r].route = "primary"
         /\ TaskTo(p, r, task'[p][r])
         /\ \A x \in Requests \ {r} : TasksKept(x)
<1> DEFINE t == [Fresh("over") EXCEPT !.committed = task[p][r].committed]
<1>1. Put(p, r, t)
  BY DEF Finish
<1>2. t.pc = "over" /\ t.route = "primary"
  BY DEF Fresh, IdleTask
<1> HIDE DEF t
<1>3. QED
  BY <1>1, <1>2, PutAt

\* Moving a task on is a step of that task and no other.
LEMMA GotoAt ==
  ASSUME TypeOK, NEW p \in Procs, NEW r \in Requests,
         NEW pc \in PCs, Goto(p, r, pc)
  PROVE  /\ task'[p][r] = [task[p][r] EXCEPT !.pc = pc]
         /\ task'[p][r].pc = pc
         /\ task'[p][r].route = task[p][r].route
         /\ task'[p][r].out = task[p][r].out
         /\ TaskTo(p, r, task'[p][r])
         /\ \A x \in Requests \ {r} : TasksKept(x)
<1> DEFINE t == [task[p][r] EXCEPT !.pc = pc]
<1>1. Put(p, r, t)
  BY DEF Goto
<1>2. t.pc = pc /\ t.route = task[p][r].route /\ t.out = task[p][r].out
  BY TaskTyped DEF TaskType
<1>3. t = [task[p][r] EXCEPT !.pc = pc]
  OBVIOUS
<1> HIDE DEF t
<1>4. QED
  BY <1>1, <1>2, <1>3, PutAt
LEMMA RefuseEffect ==
  ASSUME TypeOK, NEW p \in Procs, NEW r \in Requests, Refuse(p, r),
         NEW x \in Requests
  PROVE  Effect(x)
<1>1. Finish(p, r)
  BY DEF Refuse
<1>2. GivenUp(p, r)
  BY <1>1, FinishAt DEF TypeOK, RowType, Refuse, WorkerUnchanged, Fail,
     FailBlocked, GivenUp, SameRun, HandsKept, dbVars
<1>3. x # r => Untouched(x)
  BY <1>1, FinishAt DEF TypeOK, RowType, Refuse, WorkerUnchanged, Fail,
     FailBlocked, Untouched, SameRun, HandsKept, dbVars
<1>4. kind' = kind
  BY DEF Refuse, WorkerUnchanged
<1>5. QED
  BY <1>2, <1>3, <1>4 DEF Effect, WorkerStep

LEMMA EscalateIncompatibleEffect ==
  ASSUME TypeOK, NEW p \in Procs,
         NEW r \in Requests, EscalateIncompatible(p, r),
         NEW x \in Requests
  PROVE  Effect(x)
<1>1. Finish(p, r)
  BY DEF EscalateIncompatible
<1>2. Escalated(p, r)
  BY <1>1, FinishAt DEF TypeOK, RowType, EscalateIncompatible,
     WorkerUnchanged, Escalate, Escalated, SameRun, HandsKept, dbVars
<1>3. x # r => Untouched(x)
  BY <1>1, FinishAt DEF TypeOK, RowType, EscalateIncompatible,
     WorkerUnchanged, Escalate, Untouched, SameRun, HandsKept, dbVars
<1>4. kind' = kind
  BY DEF EscalateIncompatible, WorkerUnchanged
<1>5. QED
  BY <1>2, <1>3, <1>4 DEF Effect, WorkerStep

LEMMA SizeCapEffect ==
  ASSUME TypeOK, NEW p \in Procs, NEW r \in Requests, SizeCap(p, r),
         NEW x \in Requests
  PROVE  Effect(x)
<1>1. Finish(p, r)
  BY DEF SizeCap
<1>2. GivenUp(p, r)
  BY <1>1, FinishAt DEF TypeOK, RowType, SizeCap, WorkerUnchanged, Ended,
     Fail, FailBlocked, Owning, GivenUp, SameRun, HandsKept, dbVars
<1>3. x # r => Untouched(x)
  BY <1>1, FinishAt DEF TypeOK, RowType, SizeCap, WorkerUnchanged, Ended,
     Fail, FailBlocked, Owning, Untouched, SameRun, HandsKept, dbVars
<1>4. kind' = kind
  BY DEF SizeCap, WorkerUnchanged
<1>5. QED
  BY <1>2, <1>3, <1>4 DEF Effect, WorkerStep

LEMMA DeliverEffect ==
  ASSUME TypeOK, NEW p \in Procs, NEW r \in Requests, Deliver(p, r),
         NEW x \in Requests
  PROVE  Effect(x)
<1>1. Finish(p, r)
  BY DEF Deliver
<1>2. GivenUp(p, r)
  BY <1>1, FinishAt DEF TypeOK, RowType, Deliver, WorkerUnchanged, GivenUp,
     SameRun, HandsKept, dbVars
<1>3. x # r => Untouched(x)
  BY <1>1, FinishAt DEF TypeOK, RowType, Deliver, WorkerUnchanged,
     Untouched, SameRun, HandsKept, dbVars
<1>4. kind' = kind
  BY DEF Deliver, WorkerUnchanged
<1>5. QED
  BY <1>2, <1>3, <1>4 DEF Effect, WorkerStep

LEMMA ChosenFailsEffect ==
  ASSUME TypeOK, NEW p \in Procs, NEW r \in Requests, ChosenFails(p, r),
         NEW x \in Requests
  PROVE  Effect(x)
<1>1. Finish(p, r)
  BY DEF ChosenFails
<1>2. GivenUp(p, r)
  BY <1>1, FinishAt DEF TypeOK, RowType, ChosenFails, WorkerUnchanged,
     Ended, Fail, FailBlocked, Owning, GivenUp, SameRun, HandsKept, dbVars
<1>3. x # r => Untouched(x)
  BY <1>1, FinishAt DEF TypeOK, RowType, ChosenFails, WorkerUnchanged,
     Ended, Fail, FailBlocked, Owning, Untouched, SameRun, HandsKept, dbVars
<1>4. kind' = kind
  BY DEF ChosenFails, WorkerUnchanged
<1>5. QED
  BY <1>2, <1>3, <1>4 DEF Effect, WorkerStep

LEMMA HandleCanceledEffect ==
  ASSUME TypeOK, NEW p \in Procs, NEW r \in Requests, HandleCanceled(p, r),
         NEW x \in Requests
  PROVE  Effect(x)
<1>1. Finish(p, r)
  BY DEF HandleCanceled
<1>2. GivenUp(p, r)
  BY <1>1, FinishAt DEF TypeOK, RowType, HandleCanceled, WorkerUnchanged,
     Ended, Fail, FailBlocked, Owning, GivenUp, SameRun, HandsKept, dbVars
<1>3. x # r => Untouched(x)
  BY <1>1, FinishAt DEF TypeOK, RowType, HandleCanceled, WorkerUnchanged,
     Ended, Fail, FailBlocked, Owning, Untouched, SameRun, HandsKept, dbVars
<1>4. kind' = kind
  BY DEF HandleCanceled, WorkerUnchanged
<1>5. QED
  BY <1>2, <1>3, <1>4 DEF Effect, WorkerStep

LEMMA HandleDeniedEffect ==
  ASSUME TypeOK, NEW p \in Procs, NEW r \in Requests, HandleDenied(p, r),
         NEW x \in Requests
  PROVE  Effect(x)
<1>1. Finish(p, r)
  BY DEF HandleDenied
<1>2. GivenUp(p, r) \/ Escalated(p, r)
  BY <1>1, FinishAt DEF TypeOK, RowType, HandleDenied, WorkerUnchanged,
     Ended, Fail, FailBlocked, Escalate, Owning, GivenUp, Escalated,
     SameRun, HandsKept, dbVars
<1>3. x # r => Untouched(x)
  BY <1>1, FinishAt DEF TypeOK, RowType, HandleDenied, WorkerUnchanged,
     Ended, Fail, FailBlocked, Escalate, Owning, Untouched, SameRun,
     HandsKept, dbVars
<1>4. kind' = kind
  BY DEF HandleDenied, WorkerUnchanged
<1>5. QED
  BY <1>2, <1>3, <1>4 DEF Effect, WorkerStep

LEMMA HandleExceptionEffect ==
  ASSUME TypeOK, NEW p \in Procs, NEW r \in Requests,
         NEW readable \in BOOLEAN, HandleException(p, r, readable),
         NEW x \in Requests
  PROVE  Effect(x)
<1>1. Finish(p, r)
  BY DEF HandleException
<1>2. GivenUp(p, r) \/ Completed(p, r)
  BY <1>1, FinishAt DEF TypeOK, RowType, HandleException, WorkerUnchanged,
     Ended, Fail, FailBlocked, AppliedForSure, Owning, GivenUp, Completed,
     SameRun, HandsKept, dbVars
<1>3. x # r => Untouched(x)
  BY <1>1, FinishAt DEF TypeOK, RowType, HandleException, WorkerUnchanged,
     Ended, Fail, FailBlocked, AppliedForSure, Owning, Untouched, SameRun,
     HandsKept, dbVars
<1>4. kind' = kind
  BY DEF HandleException, WorkerUnchanged
<1>5. QED
  BY <1>2, <1>3, <1>4 DEF Effect, WorkerStep

LEMMA ConnectEffect ==
  ASSUME TypeOK, NEW p \in Procs, NEW r \in Requests,
         NEW pid \in Servers, Connect(p, r, pid),
         NEW x \in Requests
  PROVE  Effect(x)
<1>1. Goto(p, r, "running")
  BY DEF Connect
<1>2. Connected(p, r)
  BY <1>1, GotoAt DEF TypeOK, RowType, DbType, Connect, WorkerUnchanged,
     PCs, Connected, SameRun, HandsKept, dbVars
<1>3. x # r => Untouched(x)
  BY <1>1, GotoAt DEF TypeOK, RowType, DbType, Connect, WorkerUnchanged,
     PCs, Untouched, SameRun, HandsKept, dbVars
<1>4. kind' = kind
  BY DEF Connect, WorkerUnchanged
<1>5. QED
  BY <1>2, <1>3, <1>4 DEF Effect, WorkerStep

LEMMA CompleteEffect ==
  ASSUME TypeOK, NEW p \in Procs, NEW r \in Requests, Complete(p, r),
         NEW x \in Requests
  PROVE  Effect(x)
<1>1. Goto(p, r, "delivering")
  BY DEF Complete
<1>2. Completed(p, r)
  BY <1>1, GotoAt DEF TypeOK, RowType, Ended, Complete, WorkerUnchanged,
     PCs, Completed, SameRun, HandsKept, dbVars
<1>3. x # r => Untouched(x)
  BY <1>1, GotoAt DEF TypeOK, RowType, Ended, Complete, WorkerUnchanged,
     PCs, Untouched, SameRun, HandsKept, dbVars
<1>4. kind' = kind
  BY DEF Complete, WorkerUnchanged
<1>5. QED
  BY <1>2, <1>3, <1>4 DEF Effect, WorkerStep

LEMMA ClearEffect ==
  ASSUME TypeOK, NEW p \in Procs, NEW r \in Requests,
         NEW route \in Routes, Clear(p, r, route),
         NEW x \in Requests
  PROVE  Effect(x)
<1> DEFINE t == [task[p][r] EXCEPT !.pc = "cleared", !.route = route]
<1>1. Put(p, r, t)
  BY DEF Clear
<1>2. t.pc = "cleared" /\ t.route = route
  BY TaskTyped DEF TaskType
<1> HIDE DEF t
<1>3. Routed(p, r)
  BY <1>1, <1>2, PutAt DEF Clear, WorkerUnchanged, Mutates, Routed, SameRun,
     HandsKept, dbVars
<1>4. x # r => Untouched(x)
  BY <1>1, PutAt DEF Clear, WorkerUnchanged, Mutates, Untouched, SameRun,
     HandsKept, dbVars
<1>5. kind' = kind
  BY DEF Clear, WorkerUnchanged
<1>6. QED
  BY <1>3, <1>4, <1>5 DEF Effect, WorkerStep

LEMMA ConnectFailsEffect ==
  ASSUME TypeOK, NEW p \in Procs, NEW r \in Requests, ConnectFails(p, r),
         NEW x \in Requests
  PROVE  Effect(x)
<1> DEFINE t == [task[p][r] EXCEPT !.pc = "ended", !.out = "lost"]
<1>1. Put(p, r, t)
  BY DEF ConnectFails
<1>2. t.pc = "ended" /\ t.route = task[p][r].route
  BY TaskTyped DEF TaskType
<1> HIDE DEF t
<1>3. Raised(p, r)
  BY <1>1, <1>2, PutAt DEF ConnectFails, WorkerUnchanged, Raised, SameRun,
     HandsKept, dbVars
<1>4. x # r => Untouched(x)
  BY <1>1, PutAt DEF ConnectFails, WorkerUnchanged, Untouched, SameRun,
     HandsKept, dbVars
<1>5. kind' = kind
  BY DEF ConnectFails, WorkerUnchanged
<1>6. QED
  BY <1>3, <1>4, <1>5 DEF Effect, WorkerStep

LEMMA StatementEndsEffect ==
  ASSUME TypeOK, NEW p \in Procs, NEW r \in Requests,
         NEW out \in Outcomes \ {"none"}, NEW landed \in BOOLEAN,
         NEW told \in BOOLEAN, StatementEnds(p, r, out, landed, told),
         NEW x \in Requests
  PROVE  Effect(x)
<1> DEFINE t == [task[p][r] EXCEPT !.pc = "ended", !.out = out, !.committed = told]
<1>1. Put(p, r, t)
  BY DEF StatementEnds
<1>2. t.pc = "ended" /\ t.route = task[p][r].route
  BY TaskTyped DEF TaskType
<1> HIDE DEF t
<1>3. Returned(p, r)
  BY <1>1, <1>2, PutAt DEF StatementEnds, WorkerUnchanged, TypeOK, DbType,
     SessionType, NoSession, Returned, SameRun, HandsKept, dbVars
<1>4. x # r => Untouched(x)
  BY <1>1, PutAt DEF StatementEnds, WorkerUnchanged, TypeOK, DbType,
     SessionType, NoSession, Untouched, SameRun, HandsKept, dbVars
<1>5. kind' = kind
  BY DEF StatementEnds, WorkerUnchanged
<1>6. QED
  BY <1>3, <1>4, <1>5 DEF Effect, WorkerStep

LEMMA RaiseEffect ==
  ASSUME TypeOK, NEW p \in Procs, NEW r \in Requests, Raise(p, r),
         NEW x \in Requests
  PROVE  Effect(x)
<1> DEFINE t == [task[p][r] EXCEPT !.pc = "ended", !.out = "error"]
<1>1. Put(p, r, t)
  BY DEF Raise
<1>2. t.pc = "ended" /\ t.route = task[p][r].route /\ t.out = "error"
  BY TaskTyped DEF TaskType
<1> HIDE DEF t
<1>3. Raised(p, r)
  BY <1>1, <1>2, PutAt DEF Raise, WorkerUnchanged, Ended, Raised, SameRun,
     HandsKept, dbVars
<1>4. x # r => Untouched(x)
  BY <1>1, PutAt DEF Raise, WorkerUnchanged, Ended, Untouched, SameRun,
     HandsKept, dbVars
<1>5. kind' = kind
  BY DEF Raise, WorkerUnchanged
<1>6. QED
  BY <1>3, <1>4, <1>5 DEF Effect, WorkerStep

LEMMA FallBackEffect ==
  ASSUME TypeOK, NEW p \in Procs, NEW r \in Requests, FallBack(p, r),
         NEW x \in Requests
  PROVE  Effect(x)
<1> DEFINE t == Fresh("claimed")
<1>1. Put(p, r, t)
  BY DEF FallBack
<1>2. t = Fresh("claimed")
  BY TaskTyped DEF TaskType
<1> HIDE DEF t
<1>3. Retried(p, r)
  BY <1>1, <1>2, PutAt DEF FallBack, WorkerUnchanged, Ended, Retried,
     SameRun, HandsKept, dbVars
<1>4. x # r => Untouched(x)
  BY <1>1, PutAt DEF FallBack, WorkerUnchanged, Ended, Untouched, SameRun,
     HandsKept, dbVars
<1>5. kind' = kind
  BY DEF FallBack, WorkerUnchanged
<1>6. QED
  BY <1>3, <1>4, <1>5 DEF Effect, WorkerStep

LEMMA ClaimEffect ==
  ASSUME TypeOK, NEW p \in Procs, NEW r \in Requests, Claim(p, r),
         NEW x \in Requests
  PROVE  Effect(x)
<1>1. CASE Claimable(status[r])
  <2>1. Goto(p, r, "claimed")
    BY <1>1 DEF Claim
  <2>2. Claimed(p, r)
    BY <1>1, <2>1, GotoAt DEF TypeOK, RowType, DbType, Claim, Claimable,
       WorkerUnchanged, PCs, Claimed, HandsKept
  <2>3. x # r => Untouched(x)
    BY <1>1, <2>1, GotoAt DEF TypeOK, RowType, DbType, Claim, WorkerUnchanged,
       PCs, Untouched, SameRun, HandsKept
  <2>4. QED
    BY <2>2, <2>3 DEF Claim, WorkerUnchanged, Effect, WorkerStep
<1>2. CASE ~Claimable(status[r])
  <2>1. Finish(p, r)
    BY <1>2 DEF Claim
  <2>2. GivenUp(p, r)
    BY <1>2, <2>1, FinishAt DEF Claim, WorkerUnchanged, GivenUp, SameRun,
       HandsKept
  <2>3. x # r => Untouched(x)
    BY <1>2, <2>1, FinishAt DEF Claim, WorkerUnchanged, Untouched, SameRun,
       HandsKept
  <2>4. QED
    BY <2>2, <2>3 DEF Claim, WorkerUnchanged, Effect, WorkerStep
<1>3. QED
  BY <1>1, <1>2

LEMMA NotifyRaisesEffect ==
  ASSUME TypeOK, NEW p \in Procs, NEW r \in Requests, NotifyRaises(p, r),
         NEW x \in Requests
  PROVE  Effect(x)
<1>1. Put(p, r, IdleTask)
  BY DEF NotifyRaises
<1>2. TasksKept(x)
  BY <1>1, PutAt DEF TasksKept, TaskTo
<1>3. QED
  BY <1>2 DEF NotifyRaises, rowVars, dbVars, Effect, Untouched, SameRun,
     HandsKept

LEMMA SubmitEffect ==
  ASSUME TypeOK, NEW p \in Procs, NEW r \in Requests, Submit(p, r),
         NEW x \in Requests
  PROVE  Effect(x)
<1>1. CASE proc[p] = "draining"
  <2>1. Put(p, r, IdleTask)
    BY <1>1 DEF Submit
  <2>2. TasksKept(x)
    BY <2>1, PutAt DEF TasksKept, TaskTo
  <2>3. QED
    BY <2>2 DEF Submit, rowVars, dbVars, Effect, Untouched, SameRun, HandsKept
<1>2. CASE proc[p] # "draining"
  <2>1. Put(p, r, Fresh("queued"))
    BY <1>2 DEF Submit
  <2>2. Queued(p, r)
    BY <2>1, PutAt DEF Submit, rowVars, dbVars, Queued, SameRun, HandsKept
  <2>3. x # r => Untouched(x)
    BY <2>1, PutAt DEF Submit, rowVars, dbVars, Untouched, SameRun, HandsKept
  <2>4. QED
    BY <2>2, <2>3 DEF Submit, rowVars, Effect, WorkerStep
<1>3. QED
  BY <1>1, <1>2

LEMMA ApproveEffect ==
  ASSUME TypeOK, NEW p \in Procs, NEW r \in Requests, Approve(p, r),
         NEW x \in Requests
  PROVE  Effect(x)
<1> DEFINE now == status[r] = "pending" /\ sched[r] # "future"
<1>1. CASE now
  <2>1. Put(p, r, Fresh("notify"))
    BY <1>1 DEF Approve
  <2>2. status[r] = "pending" /\ status'[r] = "approved"
    BY <1>1 DEF TypeOK, RowType, Approve
  <2>3. HandsKept(r)
    BY DEF TypeOK, MemType, Approve, HandsKept
  <2>4. Released(r)
    BY <2>1, <2>2, <2>3, PutAt DEF Approve, dbVars, Released, SameRun
  <2>5. x # r => Untouched(x)
    BY <1>1, <2>1, PutAt DEF TypeOK, RowType, MemType, Approve, dbVars,
       Untouched,
       SameRun, HandsKept
  <2>6. QED
    BY <2>4, <2>5 DEF Approve, Effect
<1>2. CASE ~now
  <2>1. UNCHANGED task
    BY <1>2 DEF Approve
  <2>2. QED
    BY <1>2, <2>1 DEF TypeOK, RowType, MemType, Approve, dbVars, Effect,
       Untouched, Moved, MovedByOthers, SameRun, HandsKept, TasksKept
<1>3. QED
  BY <1>1, <1>2

LEMMA CreateRequestEffect ==
  ASSUME TypeOK, NEW p \in Procs, NEW r \in Requests,
         NEW s \in {"none", "future"}, NEW auto \in BOOLEAN,
         NEW old \in Requests \cup {NoRequest}, CreateRequest(p, r, s, auto, old),
         NEW x \in Requests
  PROVE  Effect(x)
<1>1. CASE auto /\ s = "none"
  <2>1. Put(p, r, Fresh("notify"))
    BY <1>1 DEF CreateRequest
  <2>2. Released(r)
    BY <1>1, <2>1, PutAt DEF TypeOK, RowType, MemType, CreateRequest, dbVars,
       Released, SameRun, HandsKept
  <2>3. x # r => Untouched(x) \/ Moved(x)
    BY <2>1, PutAt DEF TypeOK, RowType, MemType, CreateRequest, dbVars,
       SupersedeFrom, Untouched, Moved, MovedByOthers, SameRun, HandsKept
  <2>4. QED
    BY <2>2, <2>3 DEF CreateRequest, Effect
<1>2. CASE ~ (auto /\ s = "none")
  <2>1. UNCHANGED task
    BY <1>2 DEF CreateRequest
  <2>2. Created(r)
    BY <1>2, <2>1 DEF TypeOK, RowType, MemType, CreateRequest, dbVars,
       Created, SameRun, HandsKept, TasksKept
  <2>3. x # r => Untouched(x) \/ Moved(x)
    BY <2>1 DEF TypeOK, RowType, MemType, CreateRequest, dbVars,
       SupersedeFrom, Untouched, Moved, MovedByOthers, SameRun, HandsKept,
       TasksKept
  <2>4. QED
    BY <2>2, <2>3 DEF CreateRequest, Effect
<1>3. QED
  BY <1>1, <1>2

LEMMA SignalCancelEffect ==
  ASSUME TypeOK, NEW k \in Stoppers, NEW r \in Requests, SignalCancel(k, r),
         NEW x \in Requests
  PROVE  Effect(x)
<1>1. session'[x].at = session[x].at
  BY DEF TypeOK, DbType, SessionType, SignalCancel, StopUnchanged
<1>2. QED
  BY <1>1 DEF SignalCancel, StopUnchanged, Effect, Untouched, SameRun,
     HandsKept, TasksKept

LEMMA SignalLandsEffect ==
  ASSUME TypeOK, NEW k \in Stoppers, NEW r \in Requests, SignalLands(k, r),
         NEW x \in Requests
  PROVE  Effect(x)
<1>1. session'[x].at = session[x].at
  BY DEF TypeOK, DbType, SessionType, SignalLands, StopUnchanged
<1>2. QED
  BY <1>1 DEF SignalLands, StopUnchanged, Effect, Untouched, SameRun,
     HandsKept, TasksKept

LEMMA DispatchDueEffect ==
  ASSUME TypeOK, DispatchDue,
         NEW x \in Requests
  PROVE  Effect(x)
<1>1. CASE Due(x)
  <2>1. status[x] = "scheduled" /\ status'[x] = "approved"
    BY <1>1 DEF DispatchDue, Due, DispatchedTo
  <2>2. \A q \in Procs :
          task'[q][x] = IF q = Recovery THEN Fresh("handoff") ELSE task[q][x]
    BY <1>1, RecoveryAssumption DEF TypeOK, MemType, DispatchDue
  <2>3. Released(x)
    BY <2>1, <2>2, RecoveryAssumption DEF DispatchDue, dbVars, Released,
       TaskTo,
       SameRun, HandsKept
  <2>4. QED
    BY <2>3 DEF DispatchDue, Effect
<1>2. CASE ~Due(x)
  <2>1. status'[x] = status[x]
    BY <1>2 DEF DispatchDue
  <2>2. \A q \in Procs : task'[q][x] = task[q][x]
    BY <1>2, RecoveryAssumption DEF TypeOK, MemType, DispatchDue
  <2>3. QED
    BY <2>1, <2>2 DEF DispatchDue, dbVars, Effect, Untouched, SameRun,
       HandsKept,
       TasksKept
<1>3. QED
  BY <1>1, <1>2

LEMMA BootEffect ==
  ASSUME TypeOK, NEW p \in Procs, Boot(p),
         NEW x \in Requests
  PROVE  Effect(x)
<1>1. status'[x] = status[x] \/ (status[x] = "executing" /\ status'[x] = "failed")
  BY DEF Boot, ReconcileOrphans, Orphaned
<1>2. CASE \A q \in Procs : task'[q][x] = task[q][x]
  BY <1>1, <1>2 DEF Boot, dbVars, Effect, Untouched, Moved, MovedByOthers,
     SameRun, HandsKept, TasksKept
<1>3. CASE ~ \A q \in Procs : task'[q][x] = task[q][x]
  <2>1. task' = [task EXCEPT ![p] =
                   [y \in Requests |-> IF Resubmitted(status[y])
                                       THEN Fresh("queued") ELSE @[y]]]
    BY <1>3 DEF Boot
  <2>2. Resubmitted(status[x])
    BY <1>3, <2>1 DEF TypeOK, MemType
  <2>3. \A q \in Procs :
          task'[q][x] = IF q = p THEN Fresh("queued") ELSE task[q][x]
    BY <2>1, <2>2 DEF TypeOK, MemType
  <2>4. status[x] = "approved" /\ status'[x] = "approved"
    BY <1>1, <2>2 DEF Resubmitted
  <2>5. Released(x)
    BY <2>3, <2>4 DEF Boot, dbVars, Released, TaskTo, SameRun, HandsKept
  <2>6. QED
    BY <2>5 DEF Boot, Effect
<1>4. QED
  BY <1>2, <1>3

LEMMA ValidateEffect ==
  ASSUME TypeOK, NEW p \in Procs, NEW r \in Requests, Validate(p, r),
         NEW x \in Requests
  PROVE  Effect(x)
  BY DEF TypeOK, RowType, MemType, Validate, Effect, Untouched, Validated,
     SameRun, HandsKept, TasksKept, rowVars, killVars, dbVars

LEMMA SubmitRejectedEffect ==
  ASSUME TypeOK, NEW p \in Procs, NEW r \in Requests, SubmitRejected(p, r),
         NEW x \in Requests
  PROVE  Effect(x)
  BY DEF TypeOK, MemType, SubmitRejected, Effect, Untouched, SameRun,
     HandsKept, TasksKept, rowVars, killVars, dbVars

LEMMA CheckKillSwitchEffect ==
  ASSUME TypeOK, NEW p \in Procs, NEW r \in Requests, CheckKillSwitch(p, r),
         NEW x \in Requests
  PROVE  Effect(x)
  BY DEF TypeOK, MemType, CheckKillSwitch, Effect, Untouched, SameRun,
     HandsKept, TasksKept, rowVars, killVars, dbVars

LEMMA RequestCancelEffect ==
  ASSUME TypeOK, NEW p \in Procs, NEW r \in Requests, RequestCancel(p, r),
         NEW x \in Requests
  PROVE  Effect(x)
  BY DEF TypeOK, MemType, DbType, RequestCancel, StopUnchanged, Effect,
     Untouched, SameRun, HandsKept, TasksKept, killVars

LEMMA DeclineEffect ==
  ASSUME TypeOK, NEW r \in Requests, NEW s \in Status, Decline(r, s),
         NEW x \in Requests
  PROVE  Effect(x)
  BY DEF TypeOK, RowType, Decline, Effect, Untouched, Moved, MovedByOthers,
     SameRun, HandsKept, TasksKept, killVars, memVars, dbVars

LEMMA ManualCloseEffect ==
  ASSUME TypeOK, NEW r \in Requests, NEW s \in Status, ManualClose(r, s),
         NEW x \in Requests
  PROVE  Effect(x)
  BY DEF TypeOK, RowType, ManualClose, Effect, Untouched, Moved,
     MovedByOthers, SameRun, HandsKept, TasksKept, killVars, memVars, dbVars

LEMMA WithdrawEffect ==
  ASSUME TypeOK, NEW r \in Requests, Withdraw(r),
         NEW x \in Requests
  PROVE  Effect(x)
  BY DEF TypeOK, RowType, Withdraw, WithdrawFrom, Withdrawable, Close,
     Effect, Untouched, Moved, MovedByOthers, SameRun, HandsKept, TasksKept,
     killVars, memVars, dbVars

LEMMA CancelPendingEffect ==
  ASSUME TypeOK, NEW r \in Requests, CancelPending(r),
         NEW x \in Requests
  PROVE  Effect(x)
  BY DEF TypeOK, RowType, CancelPending, Close, Effect, Untouched, Moved,
     MovedByOthers, SameRun, HandsKept, TasksKept, killVars, memVars, dbVars

LEMMA CancelScheduledEffect ==
  ASSUME TypeOK, NEW r \in Requests, CancelScheduled(r),
         NEW x \in Requests
  PROVE  Effect(x)
  BY DEF TypeOK, RowType, CancelScheduled, Close, Effect, Untouched, Moved,
     MovedByOthers, SameRun, HandsKept, TasksKept, killVars, memVars, dbVars

LEMMA ExpirePendingEffect ==
  ASSUME TypeOK, NEW r \in Requests, ExpirePending(r),
         NEW x \in Requests
  PROVE  Effect(x)
  BY DEF TypeOK, RowType, ExpirePending, Close, Effect, Untouched, Moved,
     MovedByOthers, SameRun, HandsKept, TasksKept, killVars, memVars, dbVars

LEMMA ReadRowEffect ==
  ASSUME TypeOK, NEW k \in Stoppers, NEW r \in Requests, ReadRow(k, r),
         NEW x \in Requests
  PROVE  Effect(x)
  BY DEF TypeOK, MemType, DbType, ReadRow, StopUnchanged, Effect, Untouched,
     SameRun, HandsKept, TasksKept, killVars

LEMMA StopBreaksEffect ==
  ASSUME TypeOK, NEW k \in Stoppers, NEW r \in Requests, StopBreaks(k, r),
         NEW x \in Requests
  PROVE  Effect(x)
  BY DEF TypeOK, MemType, DbType, StopBreaks, StopUnchanged, Effect,
     Untouched, SameRun, HandsKept, TasksKept, killVars

LEMMA StopReturnsEffect ==
  ASSUME TypeOK, NEW k \in Stoppers, NEW r \in Requests, StopReturns(k, r),
         NEW x \in Requests
  PROVE  Effect(x)
  BY DEF TypeOK, RowType, MemType, DbType, StopReturns, StopUnchanged,
     StopFailsFrom, Effect, Untouched, Moved, MovedByOthers, SameRun,
     HandsKept, TasksKept, killVars

LEMMA BecomeDueEffect ==
  ASSUME TypeOK, NEW r \in Requests, BecomeDue(r),
         NEW x \in Requests
  PROVE  Effect(x)
  BY DEF TypeOK, BecomeDue, Effect, Untouched, SameRun, HandsKept,
     TasksKept, killVars, memVars, dbVars

LEMMA GrowEffect ==
  ASSUME TypeOK, NEW r \in Requests, Grow(r),
         NEW x \in Requests
  PROVE  Effect(x)
  BY DEF TypeOK, Grow, Effect, Untouched, SameRun, HandsKept, TasksKept,
     killVars, memVars, dbVars

LEMMA SessionEndsEffect ==
  ASSUME TypeOK, NEW r \in Requests,
         NEW landed \in BOOLEAN, SessionEnds(r, landed),
         NEW x \in Requests
  PROVE  Effect(x)
  BY DEF TypeOK, RowType, DbType, SessionEnds, NoSession, Effect, Untouched,
     Cut, SameRun, HandsKept, TasksKept, rowVars, killVars, memVars

LEMMA DrainEffect ==
  ASSUME TypeOK, NEW p \in Procs, Drain(p),
         NEW x \in Requests
  PROVE  Effect(x)
  BY DEF TypeOK, MemType, Drain, Effect, Untouched, SameRun, HandsKept,
     TasksKept, rowVars, killVars, dbVars

LEMMA ExitEffect ==
  ASSUME TypeOK, NEW p \in Procs, Exit(p),
         NEW x \in Requests
  PROVE  Effect(x)
  BY DEF TypeOK, MemType, Exit, ForgetMemory, Effect, Untouched, SameRun,
     HandsKept, TasksKept, rowVars, killVars, dbVars

LEMMA DrainTimeoutEffect ==
  ASSUME TypeOK, NEW p \in Procs, DrainTimeout(p),
         NEW x \in Requests
  PROVE  Effect(x)
  BY DEF TypeOK, MemType, DrainTimeout, ForgetMemory, Effect, Untouched,
     SameRun, HandsKept, TasksKept, rowVars, killVars, dbVars

LEMMA CrashEffect ==
  ASSUME TypeOK, NEW p \in Procs, Crash(p),
         NEW x \in Requests
  PROVE  Effect(x)
  BY DEF TypeOK, MemType, Crash, ForgetMemory, Effect, Untouched, SameRun,
     HandsKept, TasksKept, rowVars, killVars, dbVars

LEMMA RefreshCacheEffect ==
  ASSUME TypeOK, NEW p \in Procs, RefreshCache(p),
         NEW x \in Requests
  PROVE  Effect(x)
  BY DEF TypeOK, RefreshCache, Effect, Untouched, SameRun, HandsKept,
     TasksKept, rowVars, memVars, dbVars

LEMMA StopRunningReadsEffect ==
  ASSUME TypeOK, NEW p \in Procs, StopRunningReads(p),
         NEW x \in Requests
  PROVE  Effect(x)
  BY DEF TypeOK, MemType, StopRunningReads, Effect, Untouched, SameRun,
     HandsKept, TasksKept, killVars, dbVars

LEMMA SetKillEffect ==
  ASSUME TypeOK, NEW p \in Procs, NEW on \in BOOLEAN, SetKill(p, on),
         NEW x \in Requests
  PROVE  Effect(x)
  BY DEF TypeOK, MemType, SetKill, Effect, Untouched, SameRun, HandsKept,
     TasksKept, rowVars, dbVars

LEMMA ReconcileEffect ==
  ASSUME TypeOK, Reconcile,
         NEW x \in Requests
  PROVE  Effect(x)
  BY DEF TypeOK, RowType, Reconcile, ReconcileOrphans, Orphaned, Effect,
     Untouched, Moved, MovedByOthers, SameRun, HandsKept, TasksKept,
     killVars, memVars, dbVars

LEMMA SweepRunawayEffect ==
  ASSUME TypeOK, NEW r \in Requests, SweepRunaway(r),
         NEW x \in Requests
  PROVE  Effect(x)
  BY DEF TypeOK, MemType, DbType, SweepRunaway, StopUnchanged, Effect,
     Untouched, SameRun, HandsKept, TasksKept, killVars

\* Every step has one of the effects on every request.
LEMMA EffectStep ==
  ASSUME TypeOK, [Next]_vars, NEW x \in Requests
  PROVE  Effect(x)
<1>1. CASE UNCHANGED vars
  BY <1>1 DEF vars, rowVars, memVars, dbVars, Effect, Untouched, SameRun,
     HandsKept, TasksKept
<1>2. ASSUME NEW p \in Procs, NEW r \in Requests, Person(p, r)
      PROVE  Effect(x)
  BY <1>2, ValidateEffect, SubmitRejectedEffect, CreateRequestEffect,
     CheckKillSwitchEffect, ApproveEffect, RequestCancelEffect DEF Person
<1>3. ASSUME NEW p \in Procs, NEW r \in Requests, NotifyRaises(p, r) \/ Submit(p, r)
      PROVE  Effect(x)
  BY <1>3, NotifyRaisesEffect, SubmitEffect
<1>4. ASSUME NEW p \in Procs, NEW r \in Requests, Worker(p, r)
      PROVE  Effect(x)
  BY <1>4, RefuseEffect, ClearEffect, ClaimEffect,
     EscalateIncompatibleEffect, ConnectEffect, ConnectFailsEffect,
     CompleteEffect, SizeCapEffect, RaiseEffect, DeliverEffect,
     FallBackEffect, ChosenFailsEffect, HandleCanceledEffect,
     HandleDeniedEffect, HandleExceptionEffect DEF Worker
<1>5. ASSUME NEW r \in Requests, Row(r)
      PROVE  Effect(x)
  BY <1>5, DeclineEffect, ManualCloseEffect, WithdrawEffect,
     CancelPendingEffect, CancelScheduledEffect, ExpirePendingEffect DEF Row
<1>6. ASSUME NEW r \in Requests, Target(r)
      PROVE  Effect(x)
  BY <1>6, StatementEndsEffect, SessionEndsEffect DEF Target
<1>7. ASSUME NEW r \in Requests, BecomeDue(r) \/ Grow(r)
      PROVE  Effect(x)
  BY <1>7, BecomeDueEffect, GrowEffect
<1>8. ASSUME NEW k \in Stoppers, NEW r \in Requests, Stopping(k, r)
      PROVE  Effect(x)
  BY <1>8, ReadRowEffect, StopBreaksEffect, SignalCancelEffect,
     SignalLandsEffect, StopReturnsEffect DEF Stopping
<1>9. ASSUME NEW p \in Procs, Process(p)
      PROVE  Effect(x)
  BY <1>9, DrainEffect, ExitEffect, DrainTimeoutEffect, CrashEffect,
     BootEffect, RefreshCacheEffect, StopRunningReadsEffect, SetKillEffect
     DEF Process
<1>10. CASE Scheduler
  BY <1>10, DispatchDueEffect, ReconcileEffect, SweepRunawayEffect DEF
     Scheduler
<1>11. QED
  BY <1>1, <1>2, <1>3, <1>4, <1>5, <1>6, <1>7, <1>8, <1>9, <1>10 DEF Next

-----------------------------------------------------------------------------
(* The invariants and the theorems.                                         *)

\* The statuses of a request that nobody started.
Unstarted == {"absent", "pending", "changes_requested", "approved", "scheduled",
              "rejected", "cancelled"}

\* A form that passed validation has no row yet, and is in one handler only.
SubmissionInv(r) ==
  \A p \in Procs :
    hand[p][r] = "validated" =>
      /\ status[r] = "absent"
      /\ \A q \in Procs : hand[q][r] = "validated" => q = p

\* The claim is taken once, and everything on the target comes after it.
StartInv(r) ==
  /\ starts[r] <= 1
  /\ status[r] \in Unstarted => starts[r] = 0
  /\ status[r] \in {"executing", "awaiting_dba_manual", "completed"} => starts[r] = 1
  /\ starts[r] = 0 => session[r].at = "none" /\ applied[r] = 0

\* The task that is past the claim is the only one, and the row is still where
\* its worker can expect it.
OwnerInv(r) ==
  \A p \in Procs :
    /\ task[p][r].pc \in Owning =>
         /\ starts[r] = 1
         /\ status[r] \in {"executing", "failed", "completed"}
         /\ status[r] = "completed" =>
              \/ task[p][r].pc = "delivering"
              \/ task[p][r].pc = "ended" /\ task[p][r].out = "error"
         /\ \A q \in Procs : task[q][r].pc \in Owning => q = p
    /\ task[p][r].pc \in Owning \ {"running"} => session[r].at = "none"
    /\ task[p][r].pc \in {"notify", "handoff", "queued", "cleared"} =>
         status[r] \notin {"absent", "pending", "changes_requested", "scheduled",
                           "rejected"}
    /\ task[p][r].route # "primary" => ~Mutates(r)

\* A change is committed once: not while its worker is on the way to the target,
\* not while a session that could still commit it is open.
ChangeInv(r) ==
  /\ applied[r] <= 1
  /\ ~Mutates(r) => applied[r] = 0
  /\ session[r].at # "none" => applied[r] = 0
  /\ \A p \in Procs : task[p][r].pc \in {"claimed", "running"} => applied[r] = 0

RequestInv(r) == SubmissionInv(r) /\ StartInv(r) /\ OwnerInv(r) /\ ChangeInv(r)

\* The inductive invariant.
IInv == TypeOK /\ \A r \in Requests : RequestInv(r)

USE DEF Owning

\* Idle and fresh tasks have no route but the primary.
LEMMA IdleTaskFields ==
  /\ IdleTask.pc = "idle" /\ IdleTask.route = "primary"
  /\ \A pc \in PCs : Fresh(pc).pc = pc /\ Fresh(pc).route = "primary"
  BY DEF IdleTask, Fresh

\* Nothing has happened yet in an initial state.
LEMMA InitInv == Init => IInv
<1> SUFFICES ASSUME Init PROVE IInv
  OBVIOUS
<1>1. TypeOK
  <2>1. RowType
    BY KindsAssumption DEF Init, RowType, Status, Errors, Servers
  <2>2. KillType
    BY DEF Init, KillType
  <2>3. IdleStopper \in StopperType
    BY RecoveryAssumption DEF IdleStopper, StopperType, Servers
  <2>4. MemType
    BY <2>3, IdleTyped DEF Init, MemType
  <2>5. DbType
    BY DEF Init, DbType, SessionType, NoSession, Servers
  <2>6. QED
    BY <2>1, <2>2, <2>4, <2>5 DEF TypeOK
<1>2. ASSUME NEW r \in Requests PROVE RequestInv(r)
  BY IdleTaskFields DEF Init, RequestInv, SubmissionInv, StartInv, OwnerInv,
     ChangeInv, NoSession
<1>3. QED
  BY <1>1, <1>2 DEF IInv

\* A form that is taken in has no row until its own handler inserts it.
LEMMA SubmissionStep ==
  ASSUME TypeOK, NEW x \in Requests, RequestInv(x), Effect(x)
  PROVE  SubmissionInv(x)'
<1>1. CASE Untouched(x)
  BY <1>1 DEF Untouched, RequestInv, SubmissionInv, HandsKept
<1>2. CASE Moved(x)
  BY <1>2 DEF Moved, MovedByOthers, RequestInv, SubmissionInv, HandsKept
<1>3. CASE Validated(x)
  BY <1>3 DEF Validated, SubmissionInv
<1>4. CASE Created(x)
  BY <1>4 DEF Created, RequestInv, SubmissionInv, HandsKept
<1>5. CASE Released(x)
  BY <1>5 DEF Released, RequestInv, SubmissionInv, HandsKept
<1>6. CASE Cut(x)
  BY <1>6 DEF Cut, RequestInv, SubmissionInv, HandsKept
<1>7. ASSUME NEW p \in Procs, WorkerStep(p, x) PROVE SubmissionInv(x)'
  BY <1>7 DEF WorkerStep, Queued, Routed, Claimed, GivenUp, Escalated,
     Completed, Connected, Returned, Raised, Retried, RequestInv,
     SubmissionInv, OwnerInv, HandsKept
<1>8. QED
  BY <1>1, <1>2, <1>3, <1>4, <1>5, <1>6, <1>7 DEF Effect

\* Only the claim counts a start, and it leaves approved for good.
LEMMA StartStep ==
  ASSUME TypeOK, NEW x \in Requests, RequestInv(x), Effect(x)
  PROVE  StartInv(x)'
<1>1. CASE Untouched(x)
  BY <1>1 DEF Untouched, RequestInv, StartInv, SameRun
<1>2. CASE Moved(x)
  BY <1>2 DEF Moved, MovedByOthers, RequestInv, StartInv, SameRun, Unstarted
<1>3. CASE Validated(x)
  BY <1>3 DEF Validated, RequestInv, StartInv, SameRun
<1>4. CASE Created(x)
  BY <1>4 DEF Created, RequestInv, SubmissionInv, StartInv, SameRun,
     Unstarted
<1>5. CASE Released(x)
  BY <1>5 DEF Released, RequestInv, SubmissionInv, StartInv, SameRun,
     Unstarted
<1>6. CASE Cut(x)
  BY <1>6 DEF Cut, RequestInv, StartInv
<1>7. ASSUME NEW p \in Procs, WorkerStep(p, x) PROVE StartInv(x)'
  <2>1. CASE Queued(p, x)
    BY <2>1 DEF Queued, RequestInv, StartInv, SameRun
  <2>2. CASE Routed(p, x)
    BY <2>2 DEF Routed, RequestInv, StartInv, SameRun
  <2>3. CASE Claimed(p, x)
    BY <2>3 DEF Claimed, RequestInv, StartInv, Unstarted
  <2>4. CASE GivenUp(p, x)
    BY <2>4 DEF GivenUp, RequestInv, StartInv, SameRun, Unstarted
  <2>5. CASE Escalated(p, x)
    BY <2>5 DEF Escalated, RequestInv, StartInv, OwnerInv, SameRun,
       Unstarted
  <2>6. CASE Completed(p, x)
    BY <2>6 DEF Completed, RequestInv, StartInv, OwnerInv, SameRun,
       Unstarted
  <2>7. CASE Connected(p, x)
    BY <2>7 DEF Connected, RequestInv, StartInv, OwnerInv
  <2>8. CASE Returned(p, x)
    BY <2>8 DEF Returned, RequestInv, StartInv, OwnerInv
  <2>9. CASE Raised(p, x)
    BY <2>9 DEF Raised, RequestInv, StartInv, SameRun
  <2>10. CASE Retried(p, x)
    BY <2>10 DEF Retried, RequestInv, StartInv, SameRun
  <2>11. QED
    BY <1>7, <2>1, <2>2, <2>3, <2>4, <2>5, <2>6, <2>7, <2>8, <2>9, <2>10 DEF
       WorkerStep
<1>8. QED
  BY <1>1, <1>2, <1>3, <1>4, <1>5, <1>6, <1>7 DEF Effect

\* The claim needs an unstarted row, so the worker that succeeds is the only one.
LEMMA OwnerStep ==
  ASSUME TypeOK, NEW x \in Requests, RequestInv(x), Effect(x)
  PROVE  OwnerInv(x)'
<1>1. CASE Untouched(x)
  BY <1>1, IdleTaskFields DEF Untouched, RequestInv, OwnerInv, SameRun,
     TasksKept, Mutates, Effect
<1>2. CASE Moved(x)
  BY <1>2, IdleTaskFields DEF Moved, MovedByOthers, RequestInv, OwnerInv,
     SameRun, TasksKept, Mutates, Effect
<1>3. CASE Validated(x)
  BY <1>3, IdleTaskFields DEF Validated, RequestInv, OwnerInv, TasksKept,
     Mutates, Effect
<1>4. CASE Created(x)
  BY <1>4, IdleTaskFields DEF Created, RequestInv, SubmissionInv, OwnerInv,
     TasksKept, Mutates, Effect
<1>5. CASE Released(x)
  BY <1>5, IdleTaskFields DEF Released, RequestInv, SubmissionInv, OwnerInv,
     TaskTo, PCs, Mutates, Effect
<1>6. CASE Cut(x)
  BY <1>6, IdleTaskFields DEF Cut, RequestInv, OwnerInv, TasksKept, Mutates,
     Effect
<1>7. ASSUME NEW p \in Procs, WorkerStep(p, x) PROVE OwnerInv(x)'
  <2>1. CASE Queued(p, x)
    BY <2>1, IdleTaskFields DEF Queued, RequestInv, OwnerInv, SameRun,
       TaskTo, PCs, Mutates, Effect
  <2>2. CASE Routed(p, x)
    BY <2>2 DEF Routed, RequestInv, OwnerInv, SameRun, TaskTo, Mutates,
       Effect
  <2>3. CASE Claimed(p, x)
    BY <2>3 DEF Claimed, RequestInv, StartInv, OwnerInv, TaskTo, Unstarted,
       Mutates, Effect
  <2>4. CASE GivenUp(p, x)
    BY <2>4 DEF GivenUp, RequestInv, OwnerInv, SameRun, TaskTo, Mutates,
       Effect
  <2>5. CASE Escalated(p, x)
    BY <2>5 DEF Escalated, RequestInv, OwnerInv, TaskTo, Mutates, Effect
  <2>6. CASE Completed(p, x)
    BY <2>6 DEF Completed, RequestInv, OwnerInv, SameRun, TaskTo, Mutates,
       Effect
  <2>7. CASE Connected(p, x)
    BY <2>7 DEF Connected, RequestInv, OwnerInv, TaskTo, Mutates, Effect
  <2>8. CASE Returned(p, x)
    BY <2>8 DEF Returned, RequestInv, OwnerInv, TaskTo, Mutates, Effect
  <2>9. CASE Raised(p, x)
    BY <2>9 DEF Raised, RequestInv, OwnerInv, SameRun, TaskTo, Mutates,
       Effect
  <2>10. CASE Retried(p, x)
    BY <2>10 DEF Retried, RequestInv, OwnerInv, SameRun, TaskTo, Mutates,
       Effect
  <2>11. QED
    BY <1>7, <2>1, <2>2, <2>3, <2>4, <2>5, <2>6, <2>7, <2>8, <2>9, <2>10 DEF
       WorkerStep
<1>8. QED
  BY <1>1, <1>2, <1>3, <1>4, <1>5, <1>6, <1>7 DEF Effect

\* A change is committed by the end of its session, which is opened once.
LEMMA ChangeStep ==
  ASSUME TypeOK, NEW x \in Requests, RequestInv(x), Effect(x)
  PROVE  ChangeInv(x)'
<1>1. CASE Untouched(x)
  BY <1>1, IdleTaskFields DEF Untouched, RequestInv, ChangeInv, SameRun,
     TasksKept, Mutates, Effect
<1>2. CASE Moved(x)
  BY <1>2, IdleTaskFields DEF Moved, RequestInv, ChangeInv, SameRun,
     TasksKept, Mutates, Effect
<1>3. CASE Validated(x)
  BY <1>3, IdleTaskFields DEF Validated, RequestInv, ChangeInv, SameRun,
     TasksKept, Mutates, Effect
<1>4. CASE Created(x)
  BY <1>4, IdleTaskFields DEF Created, RequestInv, ChangeInv, SameRun,
     TasksKept, Mutates, Effect
<1>5. CASE Released(x)
  BY <1>5, IdleTaskFields DEF Released, RequestInv, ChangeInv, SameRun,
     TaskTo, PCs, Mutates, Effect
<1>6. CASE Cut(x)
  BY <1>6, IdleTaskFields DEF Cut, RequestInv, OwnerInv, ChangeInv,
     TasksKept, Mutates, Effect
<1>7. ASSUME NEW p \in Procs, WorkerStep(p, x) PROVE ChangeInv(x)'
  <2>1. CASE Queued(p, x)
    BY <2>1, IdleTaskFields DEF Queued, RequestInv, ChangeInv, SameRun,
       TaskTo, PCs, Mutates, Effect
  <2>2. CASE Routed(p, x)
    BY <2>2 DEF Routed, RequestInv, ChangeInv, SameRun, TaskTo, Mutates,
       Effect
  <2>3. CASE Claimed(p, x)
    BY <2>3 DEF Claimed, RequestInv, StartInv, ChangeInv, Unstarted
  <2>4. CASE GivenUp(p, x)
    BY <2>4 DEF GivenUp, RequestInv, ChangeInv, SameRun, TaskTo, Mutates,
       Effect
  <2>5. CASE Escalated(p, x)
    BY <2>5 DEF Escalated, RequestInv, ChangeInv, SameRun, TaskTo, Mutates,
       Effect
  <2>6. CASE Completed(p, x)
    BY <2>6 DEF Completed, RequestInv, ChangeInv, SameRun, TaskTo, Mutates,
       Effect
  <2>7. CASE Connected(p, x)
    BY <2>7 DEF Connected, RequestInv, ChangeInv
  <2>8. CASE Returned(p, x)
    BY <2>8 DEF Returned, RequestInv, OwnerInv, ChangeInv, TaskTo, Mutates,
       Effect
  <2>9. CASE Raised(p, x)
    BY <2>9 DEF Raised, RequestInv, ChangeInv, SameRun, TaskTo, Mutates,
       Effect
  <2>10. CASE Retried(p, x)
    BY <2>10 DEF Retried, RequestInv, OwnerInv, ChangeInv, SameRun
  <2>11. QED
    BY <1>7, <2>1, <2>2, <2>3, <2>4, <2>5, <2>6, <2>7, <2>8, <2>9, <2>10 DEF
       WorkerStep
<1>8. QED
  BY <1>1, <1>2, <1>3, <1>4, <1>5, <1>6, <1>7 DEF Effect

\* No effect leaves completed, rejected or cancelled: the unconditional writes are
\* an owner's, whose row OwnerInv says is not closed.
LEMMA ClosedStep ==
  ASSUME TypeOK, NEW x \in Requests, RequestInv(x), Effect(x)
  PROVE  status[x] \in {"completed", "rejected", "cancelled"} => status'[x] = status[x]
<1>1. CASE Untouched(x)
  BY <1>1 DEF Untouched
<1>2. CASE Moved(x)
  BY <1>2 DEF Moved, MovedByOthers
<1>3. CASE Validated(x)
  BY <1>3 DEF Validated
<1>4. CASE Created(x)
  BY <1>4 DEF Created, RequestInv, SubmissionInv
<1>5. CASE Released(x)
  BY <1>5 DEF Released, RequestInv, SubmissionInv
<1>6. CASE Cut(x)
  BY <1>6 DEF Cut
<1>7. ASSUME NEW p \in Procs, WorkerStep(p, x) PROVE status[x] \in {"completed", "rejected", "cancelled"} => status'[x] = status[x]
  <2>1. CASE Queued(p, x)
    BY <2>1 DEF Queued
  <2>2. CASE Routed(p, x)
    BY <2>2 DEF Routed
  <2>3. CASE Claimed(p, x)
    BY <2>3 DEF Claimed
  <2>4. CASE GivenUp(p, x)
    BY <2>4 DEF GivenUp
  <2>5. CASE Escalated(p, x)
    BY <2>5 DEF Escalated, RequestInv, OwnerInv
  <2>6. CASE Completed(p, x)
    BY <2>6 DEF Completed, RequestInv, OwnerInv
  <2>7. CASE Connected(p, x)
    BY <2>7 DEF Connected
  <2>8. CASE Returned(p, x)
    BY <2>8 DEF Returned
  <2>9. CASE Raised(p, x)
    BY <2>9 DEF Raised
  <2>10. CASE Retried(p, x)
    BY <2>10 DEF Retried
  <2>11. QED
    BY <1>7, <2>1, <2>2, <2>3, <2>4, <2>5, <2>6, <2>7, <2>8, <2>9, <2>10 DEF
       WorkerStep
<1>8. QED
  BY <1>1, <1>2, <1>3, <1>4, <1>5, <1>6, <1>7 DEF Effect

\* Every effect is a step of RequestContract on that request.
LEMMA ContractStep ==
  ASSUME TypeOK, NEW x \in Requests, RequestInv(x), Effect(x)
  PROVE  Contract!Stutter(x) \/ Contract!Move(x) \/ Contract!Start(x) \/ Contract!Apply(x)
<1>1. CASE Untouched(x)
  BY <1>1 DEF Untouched, Contract!Stutter, SameRun
<1>2. CASE Moved(x)
  BY <1>2 DEF Moved, MovedByOthers, Contract!Move, Contract!Waiting,
     Contract!Started, RequestInv, StartInv, SameRun, Unstarted
<1>3. CASE Validated(x)
  BY <1>3 DEF Validated, Contract!Stutter, SameRun
<1>4. CASE Created(x)
  BY <1>4 DEF Created, Contract!Move, Contract!Waiting, RequestInv,
     SubmissionInv, StartInv, SameRun, Unstarted
<1>5. CASE Released(x)
  BY <1>5 DEF Released, Contract!Stutter, Contract!Move, Contract!Waiting,
     RequestInv, SubmissionInv, StartInv, SameRun, Unstarted
<1>6. CASE Cut(x)
  BY <1>6 DEF Cut, TypeOK, RowType, DbType, Status, Contract!Stutter,
     Contract!Apply, RequestInv, StartInv, ChangeInv, Unstarted
<1>7. ASSUME NEW p \in Procs, WorkerStep(p, x) PROVE Contract!Stutter(x) \/ Contract!Move(x) \/ Contract!Start(x) \/ Contract!Apply(x)
  <2>1. CASE Queued(p, x)
    BY <2>1 DEF Queued, Contract!Stutter, SameRun
  <2>2. CASE Routed(p, x)
    BY <2>2 DEF Routed, Contract!Stutter, SameRun
  <2>3. CASE Claimed(p, x)
    BY <2>3 DEF Claimed, Contract!Start, RequestInv, StartInv, Unstarted
  <2>4. CASE GivenUp(p, x)
    BY <2>4 DEF GivenUp, TypeOK, RowType, Status, Contract!Stutter,
       Contract!Move, Contract!Waiting, Contract!Started, RequestInv,
       StartInv, OwnerInv, SameRun, Unstarted
  <2>5. CASE Escalated(p, x)
    BY <2>5 DEF Escalated, Contract!Move, Contract!Started, RequestInv,
       OwnerInv, SameRun
  <2>6. CASE Completed(p, x)
    BY <2>6 DEF Completed, Contract!Move, Contract!Started, RequestInv,
       OwnerInv, SameRun
  <2>7. CASE Connected(p, x)
    BY <2>7 DEF Connected, Contract!Stutter
  <2>8. CASE Returned(p, x)
    BY <2>8 DEF Returned, Contract!Stutter, Contract!Apply, RequestInv,
       OwnerInv, ChangeInv
  <2>9. CASE Raised(p, x)
    BY <2>9 DEF Raised, Contract!Stutter, SameRun
  <2>10. CASE Retried(p, x)
    BY <2>10 DEF Retried, Contract!Stutter, SameRun
  <2>11. QED
    BY <1>7, <2>1, <2>2, <2>3, <2>4, <2>5, <2>6, <2>7, <2>8, <2>9, <2>10 DEF
       WorkerStep
<1>8. QED
  BY <1>1, <1>2, <1>3, <1>4, <1>5, <1>6, <1>7 DEF Effect

\* IInv is kept by every step.
LEMMA InvStep ==
  ASSUME IInv, [Next]_vars
  PROVE  IInv'
<1>1. TypeOK'
  BY TypeStep DEF IInv
<1>2. ASSUME NEW x \in Requests
      PROVE  RequestInv(x)'
  <2>1. TypeOK /\ RequestInv(x) /\ Effect(x)
    BY EffectStep DEF IInv
  <2>2. QED
    BY <2>1, SubmissionStep, StartStep, OwnerStep, ChangeStep DEF RequestInv
<1>3. QED
  BY <1>1, <1>2 DEF IInv

-----------------------------------------------------------------------------
(* Who read what: a write from the MCP door is released by a person.        *)

ReviewInv(r) ==
  kind[r].mcp /\ Mutates(r) /\ (starts[r] > 0 \/ status[r] \in {"approved", "scheduled"})
    => decidedBy[r] = "human"

\* The decision stands, and nothing is released that was not.
ReviewKept(x) ==
  /\ decidedBy'[x] = decidedBy[x]
  /\ status'[x] \in {"approved", "scheduled"} => status[x] \in {"approved", "scheduled"}

\* Only the submission, an approval and a refusal write a decision, and nothing
\* else releases a request that nobody released.
LEMMA ReviewEffect ==
  ASSUME TypeOK, [Next]_vars, NEW x \in Requests
  PROVE  \/ ReviewKept(x)
         \/ decidedBy'[x] = "human"
         \/ /\ \E p \in Procs : hand[p][x] = "validated"
            /\ kind[x].mcp /\ Mutates(x) => status'[x] = "pending"
<1> USE DEF ReviewKept, TypeOK, RowType
<1>1. CASE UNCHANGED vars
  BY <1>1 DEF vars, rowVars
<1>2. ASSUME NEW p \in Procs, NEW r \in Requests, NEW s \in {"none", "future"}, NEW auto \in BOOLEAN,
             NEW old \in Requests \cup {NoRequest}, CreateRequest(p, r, s, auto, old)
      PROVE  \/ ReviewKept(x)
             \/ /\ \E q \in Procs : hand[q][x] = "validated"
                /\ kind[x].mcp /\ Mutates(x) => status'[x] = "pending"
  BY <1>2 DEF CreateRequest, SupersedeFrom, HumanOnly, Mutates
<1>3. ASSUME NEW p \in Procs, NEW r \in Requests, Approve(p, r)
      PROVE  ReviewKept(x) \/ decidedBy'[x] = "human"
  BY <1>3 DEF Approve
<1>4. ASSUME NEW p \in Procs, NEW r \in Requests,
             Validate(p, r) \/ SubmitRejected(p, r) \/ CheckKillSwitch(p, r) \/ RequestCancel(p, r)
      PROVE  ReviewKept(x)
  BY <1>4 DEF Validate, SubmitRejected, CheckKillSwitch, RequestCancel, StopUnchanged, rowVars
<1>5. ASSUME NEW p \in Procs, NEW r \in Requests, NotifyRaises(p, r) \/ Submit(p, r)
      PROVE  ReviewKept(x)
  BY <1>5 DEF NotifyRaises, Submit, rowVars
<1>6. ASSUME NEW p \in Procs, NEW r \in Requests, Worker(p, r)
      PROVE  ReviewKept(x)
  BY <1>6 DEF Worker, WorkerUnchanged, Fail, Escalate, Refuse, Clear, Claim, EscalateIncompatible,
     Connect, ConnectFails, Complete, SizeCap, Raise, Deliver, FallBack, ChosenFails, HandleCanceled,
     HandleDenied, HandleException
<1>7. ASSUME NEW r \in Requests, NEW s \in Status, Decline(r, s)
      PROVE  ReviewKept(x) \/ decidedBy'[x] = "human"
  BY <1>7 DEF Decline
<1>8. ASSUME NEW r \in Requests, NEW s \in Status,
             ManualClose(r, s) \/ Withdraw(r) \/ CancelPending(r) \/ CancelScheduled(r) \/ ExpirePending(r)
      PROVE  ReviewKept(x)
  BY <1>8 DEF ManualClose, Withdraw, CancelPending, CancelScheduled, ExpirePending, Close
<1>9. ASSUME NEW r \in Requests, Target(r) \/ BecomeDue(r) \/ Grow(r)
      PROVE  ReviewKept(x)
  BY <1>9 DEF Target, StatementEnds, WorkerUnchanged, SessionEnds, BecomeDue, Grow, rowVars
<1>10. ASSUME NEW k \in Stoppers, NEW r \in Requests, Stopping(k, r)
       PROVE  ReviewKept(x)
  BY <1>10 DEF Stopping, StopUnchanged, ReadRow, StopBreaks, SignalCancel, SignalLands, StopReturns
<1>11. ASSUME NEW p \in Procs, Process(p)
       PROVE  ReviewKept(x)
  BY <1>11 DEF Process, Drain, Exit, DrainTimeout, Crash, Boot, ReconcileOrphans, RefreshCache,
     StopRunningReads, SetKill, rowVars
<1>12. CASE Scheduler
  BY <1>12 DEF Scheduler, DispatchDue, Due, DispatchedTo, Reconcile, ReconcileOrphans, SweepRunaway, StopUnchanged
<1>13. QED
  BY <1>1, <1>2, <1>3, <1>4, <1>5, <1>6, <1>7, <1>8, <1>9, <1>10, <1>11, <1>12 DEF Next, Person, Row

\* Who starts a request found it approved.
LEMMA StartsAfterApproval ==
  ASSUME NEW x \in Requests, Effect(x)
  PROVE  starts'[x] = starts[x] \/ status[x] = "approved"
  BY DEF Effect, Untouched, Moved, Validated, Created, Released, Cut, WorkerStep, Queued, Routed,
     Claimed, GivenUp, Escalated, Completed, Connected, Returned, Raised, Retried, SameRun

LEMMA ReviewStep ==
  ASSUME IInv, [Next]_vars, NEW x \in Requests, ReviewInv(x)
  PROVE  ReviewInv(x)'
<1>1. Effect(x) /\ RequestInv(x) /\ TypeOK
  BY EffectStep DEF IInv
<1>2. kind'[x] = kind[x] /\ (starts'[x] = starts[x] \/ status[x] = "approved")
  BY <1>1, StartsAfterApproval DEF Effect
<1>3. CASE ReviewKept(x)
  BY <1>1, <1>2, <1>3 DEF ReviewInv, ReviewKept, Mutates, TypeOK, DbType
<1>4. CASE \E p \in Procs : hand[p][x] = "validated"
  <2>1. status[x] = "absent" /\ starts[x] = 0
    BY <1>1, <1>4 DEF RequestInv, SubmissionInv, StartInv, Unstarted
  <2>2. starts'[x] = 0
    BY <1>2, <2>1
  <2>3. QED
    BY <1>2, <1>3, <2>2, <1>1, ReviewEffect DEF ReviewInv, Mutates
<1>5. QED
  BY <1>1, <1>3, <1>4, ReviewEffect DEF ReviewInv

-----------------------------------------------------------------------------
(* What a worker knows of its change.                                       *)

\* A worker that saw its change committed, or its statements finish, is right, and
\* a completed change was committed unless a DBA closed it.
OutcomeInv(r) ==
  /\ \A p \in Procs :
       /\ task[p][r].committed => applied[r] = 1
       /\ task[p][r].pc = "ended" /\ task[p][r].out = "done" /\ Mutates(r) => applied[r] = 1
  /\ status[r] = "awaiting_dba_manual" => error[r] = "escalated"
  /\ status[r] = "completed" /\ Mutates(r) /\ error[r] # "escalated" => applied[r] = 1

\* What the worker knows stays as it is, or follows from a change committed now.
Learned(x) ==
  \A p \in Procs :
    /\ task'[p][x].committed => task[p][x].committed \/ applied'[x] = applied[x] + 1
    /\ task'[p][x].pc = "ended" /\ task'[p][x].out = "done" /\ Mutates(x) =>
         \/ task[p][x].pc = "ended" /\ task[p][x].out = "done"
         \/ applied'[x] = applied[x] + 1

\* How a row comes to its outcome.
Reported(x) ==
  \/ status'[x] = status[x] /\ error'[x] = error[x]
  \/ status'[x] \notin {"completed", "awaiting_dba_manual"}
  \/ status'[x] = "awaiting_dba_manual" /\ error'[x] = "escalated"
  \/ status[x] = "awaiting_dba_manual" /\ error'[x] = error[x]
  \/ /\ status'[x] = "completed"
     /\ \E p \in Procs :
          \/ task[p][x].pc = "ended" /\ task[p][x].out = "done" /\ error'[x] = error[x]
          \/ task[p][x].committed

\* A task that nobody holds knows nothing.
LEMMA FreshKnowsNothing ==
  /\ ~IdleTask.committed /\ IdleTask.pc # "ended"
  /\ \A pc \in PCs : ~Fresh(pc).committed /\ Fresh(pc).out # "done"
  BY DEF IdleTask, Fresh

LEMMA ReportedStep ==
  ASSUME TypeOK, [Next]_vars, NEW x \in Requests
  PROVE  Reported(x)
<1> USE DEF Reported, TypeOK, RowType
<1>1. CASE UNCHANGED vars
  BY <1>1 DEF vars, rowVars
<1>2. ASSUME NEW p \in Procs, NEW r \in Requests, Person(p, r) PROVE Reported(x)
  BY <1>2 DEF Person, Validate, SubmitRejected, CheckKillSwitch, RequestCancel, StopUnchanged,
     CreateRequest, SupersedeFrom, Approve, rowVars
<1>3. ASSUME NEW p \in Procs, NEW r \in Requests, NotifyRaises(p, r) \/ Submit(p, r)
      PROVE  Reported(x)
  BY <1>3 DEF NotifyRaises, Submit, rowVars
<1>4. ASSUME NEW p \in Procs, NEW r \in Requests, Worker(p, r) PROVE Reported(x)
  BY <1>4 DEF Worker, WorkerUnchanged, Fail, FailBlocked, Escalate, Refuse, Clear, Claim,
     EscalateIncompatible, Connect, ConnectFails, Ended, Complete, SizeCap, Raise, Deliver, FallBack,
     ChosenFails, HandleCanceled, HandleDenied, HandleException, AppliedForSure
<1>5. ASSUME NEW r \in Requests, Row(r) PROVE Reported(x)
  BY <1>5 DEF Row, Decline, ManualClose, Withdraw, CancelPending, CancelScheduled, ExpirePending, Close
<1>6. ASSUME NEW r \in Requests, Target(r) \/ BecomeDue(r) \/ Grow(r) PROVE Reported(x)
  BY <1>6 DEF Target, StatementEnds, WorkerUnchanged, SessionEnds, BecomeDue, Grow, rowVars
<1>7. ASSUME NEW k \in Stoppers, NEW r \in Requests, Stopping(k, r) PROVE Reported(x)
  BY <1>7 DEF Stopping, StopUnchanged, ReadRow, StopBreaks, SignalCancel, SignalLands, StopReturns,
     StopFailsFrom
<1>8. ASSUME NEW p \in Procs, Process(p) PROVE Reported(x)
  BY <1>8 DEF Process, Drain, Exit, DrainTimeout, Crash, Boot, ReconcileOrphans, Orphaned,
     RefreshCache, StopRunningReads, SetKill, rowVars
<1>9. CASE Scheduler
  BY <1>9 DEF Scheduler, DispatchDue, Due, DispatchedTo, Reconcile, ReconcileOrphans, Orphaned,
     SweepRunaway, StopUnchanged
<1>10. QED
  BY <1>1, <1>2, <1>3, <1>4, <1>5, <1>6, <1>7, <1>8, <1>9 DEF Next

\* A stored task that knows no more than the one before leaves all as it was.
LEMMA LearnedPut ==
  ASSUME TypeOK, NEW p \in Procs, NEW r \in Requests, NEW t, Put(p, r, t), NEW x \in Requests,
         t.committed => task[p][r].committed \/ applied'[r] = applied[r] + 1,
         t.pc = "ended" /\ t.out = "done" /\ Mutates(r) =>
           (task[p][r].pc = "ended" /\ task[p][r].out = "done") \/ applied'[r] = applied[r] + 1
  PROVE  Learned(x)
  BY DEF TypeOK, MemType, Put, Learned

LEMMA LearnedWorker ==
  ASSUME TypeOK, NEW p \in Procs, NEW r \in Requests, Worker(p, r), NEW x \in Requests
  PROVE  Learned(x)
<1>1. CASE Finish(p, r)
  <2> DEFINE t == [Fresh("over") EXCEPT !.committed = task[p][r].committed]
  <2>1. t.pc = "over" /\ t.committed = task[p][r].committed
    BY DEF Fresh, IdleTask
  <2>2. Put(p, r, t)
    BY <1>1 DEF Finish
  <2> HIDE DEF t
  <2>3. QED
    BY <2>1, <2>2, LearnedPut
<1>2. ASSUME NEW pc \in PCs, pc # "ended", Goto(p, r, pc) PROVE Learned(x)
  <2> DEFINE t == [task[p][r] EXCEPT !.pc = pc]
  <2>1. t.pc = pc /\ t.committed = task[p][r].committed
    BY TaskTyped DEF TaskType
  <2>2. Put(p, r, t)
    BY <1>2 DEF Goto
  <2> HIDE DEF t
  <2>3. QED
    BY <1>2, <2>1, <2>2, LearnedPut
<1>3. ASSUME NEW route \in Routes, Clear(p, r, route) PROVE Learned(x)
  <2> DEFINE t == [task[p][r] EXCEPT !.pc = "cleared", !.route = route]
  <2>1. t.pc = "cleared" /\ t.committed = task[p][r].committed
    BY TaskTyped DEF TaskType
  <2>2. Put(p, r, t)
    BY <1>3 DEF Clear
  <2> HIDE DEF t
  <2>3. QED
    BY <2>1, <2>2, LearnedPut
<1>4. ASSUME NEW out \in {"lost", "error"}, Put(p, r, [task[p][r] EXCEPT !.pc = "ended", !.out = out])
      PROVE  Learned(x)
  <2> DEFINE t == [task[p][r] EXCEPT !.pc = "ended", !.out = out]
  <2>1. t.out = out /\ out # "done" /\ t.committed = task[p][r].committed
    BY TaskTyped DEF TaskType
  <2>2. Put(p, r, t)
    BY <1>4
  <2> HIDE DEF t
  <2>3. QED
    BY <2>1, <2>2, LearnedPut
<1>5. CASE Put(p, r, Fresh("claimed"))
  BY <1>5, FreshKnowsNothing, LearnedPut DEF PCs
<1>6. QED
  BY <1>1, <1>2, <1>3, <1>4, <1>5 DEF Worker, Refuse, Claim, EscalateIncompatible, Connect,
     ConnectFails, Complete, SizeCap, Raise, Deliver, FallBack, ChosenFails, HandleCanceled,
     HandleDenied, HandleException, PCs

\* The statements tell their worker of a change that they have just committed.
LEMMA LearnedStatement ==
  ASSUME TypeOK, NEW p \in Procs, NEW r \in Requests, NEW out \in Outcomes \ {"none"},
         NEW landed \in BOOLEAN, NEW told \in BOOLEAN, StatementEnds(p, r, out, landed, told),
         NEW x \in Requests
  PROVE  Learned(x)
<1> DEFINE t == [task[p][r] EXCEPT !.pc = "ended", !.out = out, !.committed = told]
<1>1. t.out = out /\ t.committed = told
  BY TaskTyped DEF TaskType
<1>2. Put(p, r, t)
  BY DEF StatementEnds
<1> HIDE DEF t
<1>3. applied'[r] = IF landed THEN applied[r] + 1 ELSE applied[r]
  BY DEF StatementEnds, TypeOK, DbType
<1>4. (told => landed) /\ (out = "done" /\ Mutates(r) => landed)
  BY DEF StatementEnds
<1>5. QED
  BY <1>1, <1>2, <1>3, <1>4, LearnedPut

LEMMA LearnedStep ==
  ASSUME TypeOK, [Next]_vars, NEW x \in Requests
  PROVE  Learned(x)
<1>1. (\A p \in Procs : \/ task'[p][x] = task[p][x] \/ task'[p][x] = IdleTask
                        \/ \E pc \in PCs : task'[p][x] = Fresh(pc))
        => Learned(x)
  BY FreshKnowsNothing DEF Learned
<1> USE DEF TypeOK, MemType
<1>2. CASE UNCHANGED vars
  BY <1>1, <1>2 DEF vars, memVars
<1>3. ASSUME NEW p \in Procs, NEW r \in Requests, Person(p, r) PROVE Learned(x)
  BY <1>1, <1>3 DEF Person, Validate, SubmitRejected, CheckKillSwitch, RequestCancel, StopUnchanged,
     CreateRequest, Approve, Put, PCs
<1>4. ASSUME NEW p \in Procs, NEW r \in Requests, NotifyRaises(p, r) \/ Submit(p, r)
      PROVE  Learned(x)
  BY <1>1, <1>4 DEF NotifyRaises, Submit, Put, PCs
<1>5. ASSUME NEW p \in Procs, NEW r \in Requests, Worker(p, r) PROVE Learned(x)
  BY <1>5, LearnedWorker
<1>6. ASSUME NEW r \in Requests, Row(r) PROVE Learned(x)
  BY <1>1, <1>6 DEF Row, Decline, ManualClose, Withdraw, CancelPending, CancelScheduled, ExpirePending,
     Close, memVars
<1>7. ASSUME NEW r \in Requests, Target(r) \/ BecomeDue(r) \/ Grow(r) PROVE Learned(x)
  <2>1. CASE \E landed \in BOOLEAN : SessionEnds(r, landed)
    BY <1>1, <2>1 DEF SessionEnds, memVars
  <2>2. CASE BecomeDue(r) \/ Grow(r)
    BY <1>1, <2>2 DEF BecomeDue, Grow, memVars
  <2>3. QED
    BY <1>7, <2>1, <2>2, LearnedStatement DEF Target
<1>8. ASSUME NEW k \in Stoppers, NEW r \in Requests, Stopping(k, r) PROVE Learned(x)
  BY <1>1, <1>8 DEF Stopping, StopUnchanged, ReadRow, StopBreaks, SignalCancel, SignalLands, StopReturns
<1>9. ASSUME NEW p \in Procs, Process(p) PROVE Learned(x)
  BY <1>1, <1>9 DEF Process, Drain, Exit, DrainTimeout, Crash, ForgetMemory, Boot,
     RefreshCache, StopRunningReads, SetKill, memVars, PCs
<1>10. CASE Scheduler
  BY <1>1, <1>10, RecoveryAssumption DEF Scheduler, DispatchDue, Reconcile, SweepRunaway, StopUnchanged,
     memVars, PCs
<1>11. QED
  BY <1>2, <1>3, <1>4, <1>5, <1>6, <1>7, <1>8, <1>9, <1>10 DEF Next

LEMMA OutcomeStep ==
  ASSUME IInv, [Next]_vars, NEW x \in Requests, OutcomeInv(x)
  PROVE  OutcomeInv(x)'
<1>1. /\ TypeOK /\ RequestInv(x) /\ Effect(x)
      /\ Learned(x) /\ Reported(x) /\ RequestInv(x)'
  BY EffectStep, LearnedStep, ReportedStep, InvStep DEF IInv
<1>2. kind'[x] = kind[x]
  BY <1>1 DEF Effect
<1>3. applied[x] \in Nat /\ applied'[x] <= 1
      /\ (applied'[x] = applied[x] \/ applied'[x] = applied[x] + 1)
  BY <1>1 DEF TypeOK, DbType, RequestInv, ChangeInv, Effect, Untouched, Moved, Validated, Created,
     Released, Cut, WorkerStep, Queued, Routed, Claimed, GivenUp, Escalated, Completed, Connected,
     Returned, Raised, Retried, SameRun
<1>4. ASSUME NEW p \in Procs
      PROVE  /\ task'[p][x].committed => applied'[x] = 1
             /\ task'[p][x].pc = "ended" /\ task'[p][x].out = "done" /\ Mutates(x) => applied'[x] = 1
  BY <1>1, <1>3 DEF Learned, OutcomeInv
<1>5. status'[x] = "awaiting_dba_manual" => error'[x] = "escalated"
  BY <1>1 DEF Reported, OutcomeInv
<1>6. status'[x] = "completed" /\ Mutates(x) /\ error'[x] # "escalated" => applied'[x] = 1
  BY <1>1, <1>3 DEF Reported, OutcomeInv
<1>7. QED
  BY <1>2, <1>4, <1>5, <1>6 DEF OutcomeInv, Mutates

\* Every state of every run has the types the module declares.
THEOREM TypeCorrect == Spec => []TypeOK
<1>1. Init => TypeOK
  BY InitInv DEF IInv
<1>2. TypeOK /\ [Next]_vars => TypeOK'
  BY TypeStep
<1>3. QED
  BY <1>1, <1>2, PTL DEF Spec

\* The strengthening from which the properties follow is an invariant.
THEOREM Invariance == Spec => []IInv
<1>1. IInv /\ [Next]_vars => IInv'
  BY InvStep
<1>2. QED
  BY InitInv, <1>1, PTL DEF Spec

\* However many processes, restarts and duplicate submissions there are, a
\* request is claimed once, by one worker, and its change is committed once
\* (executor._run's claim).
THEOREM StartedOnce == Spec => []ExecutedAtMostOnce
<1>1. IInv => ExecutedAtMostOnce
  BY DEF IInv, RequestInv, StartInv, OwnerInv, ChangeInv, ExecutedAtMostOnce
<1>2. QED
  BY Invariance, <1>1, PTL

\* A request that is waiting, declined or withdrawn leaves no trace on the
\* target, whatever races with the withdrawal (cancellation.withdraw).
THEOREM UnstartedSafe == Spec => []UnstartedNeverRuns
<1>1. IInv => UnstartedNeverRuns
  <2> SUFFICES ASSUME IInv, NEW r \in Requests,
                      status[r] \notin {"executing", "awaiting_dba_manual",
                                       "completed", "failed"}
               PROVE  /\ \A p \in Procs : task[p][r].pc \notin Owning
                      /\ session[r].at = "none" /\ applied[r] = 0
    BY DEF UnstartedNeverRuns
  <2>1. status[r] \in Unstarted
    BY DEF IInv, TypeOK, RowType, Status, Unstarted
  <2>2. starts[r] = 0
    BY <2>1 DEF IInv, RequestInv, StartInv
  <2>3. QED
    BY <2>2 DEF IInv, RequestInv, StartInv, OwnerInv
<1>2. QED
  BY Invariance, <1>1, PTL

\* No step, of any actor, reopens a request that completed, was rejected or was
\* cancelled (_complete_* and _escalate_to_dba write without a condition).
THEOREM ClosedForGood == Spec => ClosedStaysClosed
<1>1. ASSUME IInv, [Next]_vars, NEW r \in Requests,
             status[r] \in {"completed", "rejected", "cancelled"}
      PROVE  status'[r] = status[r]
  BY <1>1, EffectStep, ClosedStep DEF IInv
<1>2. IInv /\ [Next]_vars =>
        [\A r \in Requests :
           status[r] \in {"completed", "rejected", "cancelled"} =>
             status'[r] = status[r]]_vars
  BY <1>1
<1>3. QED
  BY Invariance, <1>2, PTL DEF Spec, ClosedStaysClosed

\* Whatever waiver, standing or fingerprint applies, a write that came through the
\* MCP door is not released, and not run, before a person has read it.
THEOREM McpReviewed == Spec => []McpWritesReadByPerson
<1>1. Init => \A r \in Requests : ReviewInv(r)
  BY DEF Init, ReviewInv
<1>2. IInv /\ (\A r \in Requests : ReviewInv(r)) /\ [Next]_vars => (\A r \in Requests : ReviewInv(r))'
  BY ReviewStep
<1>3. (\A r \in Requests : ReviewInv(r)) => McpWritesReadByPerson
  BY DEF ReviewInv, McpWritesReadByPerson
<1>4. QED
  BY Invariance, <1>1, <1>2, <1>3, PTL DEF Spec

\* No order of stops, errors, retries, restarts and failed deliveries reports
\* success for a change that is not there, unless a DBA closed the request.
THEOREM CompletedIsApplied == Spec => []CompletedMeansApplied
<1>1. Init => \A r \in Requests : OutcomeInv(r)
  <2> SUFFICES ASSUME Init, NEW r \in Requests PROVE OutcomeInv(r)
    OBVIOUS
  <2>1. \A p \in Procs : task[p][r] = IdleTask
    BY DEF Init
  <2>2. \A p \in Procs : ~task[p][r].committed /\ task[p][r].pc # "ended"
    BY <2>1, FreshKnowsNothing
  <2>3. status[r] = "absent"
    BY DEF Init
  <2>4. QED
    BY <2>2, <2>3 DEF OutcomeInv
<1>2. IInv /\ (\A r \in Requests : OutcomeInv(r)) /\ [Next]_vars => (\A r \in Requests : OutcomeInv(r))'
  BY OutcomeStep
<1>3. (\A r \in Requests : OutcomeInv(r)) => CompletedMeansApplied
  BY DEF OutcomeInv, CompletedMeansApplied
<1>4. QED
  BY Invariance, <1>1, <1>2, <1>3, PTL DEF Spec

\* Once every process knows of the kill switch and no handler is past its check,
\* no step of any handler, boot or scheduler accepts, approves or dispatches.
THEOREM KillSwitchWorks == Spec => KillSwitchHolds
<1> DEFINE Kept(x) == status'[x] \in {"pending", "approved", "scheduled"} => status'[x] = status[x]
<1>1. ASSUME TypeOK, [Next]_vars, NEW x \in Requests,
             \A p \in Procs : cachedKill[p] /\ \A r \in Requests : hand[p][r] = "idle"
      PROVE  Kept(x)
  <2>0. status \in [Requests -> Status]
    BY <1>1 DEF TypeOK, RowType
  <2>1. CASE UNCHANGED vars
    BY <2>0, <2>1 DEF vars, rowVars
  <2>2. ASSUME NEW p \in Procs, NEW r \in Requests, Person(p, r) PROVE Kept(x)
    BY <1>1, <2>0, <2>2 DEF Person, Validate, SubmitRejected, CheckKillSwitch, RequestCancel, StopUnchanged,
       CreateRequest, Approve, rowVars
  <2>3. ASSUME NEW p \in Procs, NEW r \in Requests, NotifyRaises(p, r) \/ Submit(p, r) PROVE Kept(x)
    BY <2>0, <2>3 DEF NotifyRaises, Submit, rowVars
  <2>4. ASSUME NEW p \in Procs, NEW r \in Requests, Worker(p, r) PROVE Kept(x)
    BY <2>0, <2>4 DEF Worker, WorkerUnchanged, Fail, Escalate, Refuse, Clear, Claim, EscalateIncompatible,
       Connect, ConnectFails, Complete, SizeCap, Raise, Deliver, FallBack, ChosenFails, HandleCanceled,
       HandleDenied, HandleException
  <2>5. ASSUME NEW r \in Requests, Row(r) PROVE Kept(x)
    BY <2>0, <2>5 DEF Row, Decline, ManualClose, Withdraw, CancelPending, CancelScheduled, ExpirePending, Close
  <2>6. ASSUME NEW r \in Requests, Target(r) \/ BecomeDue(r) \/ Grow(r) PROVE Kept(x)
    BY <2>0, <2>6 DEF Target, StatementEnds, WorkerUnchanged, SessionEnds, BecomeDue, Grow, rowVars
  <2>7. ASSUME NEW k \in Stoppers, NEW r \in Requests, Stopping(k, r) PROVE Kept(x)
    BY <2>0, <2>7 DEF Stopping, StopUnchanged, ReadRow, StopBreaks, SignalCancel, SignalLands, StopReturns
  <2>8. ASSUME NEW p \in Procs, Process(p) PROVE Kept(x)
    BY <2>0, <2>8 DEF Process, Drain, Exit, DrainTimeout, Crash, Boot, ReconcileOrphans, RefreshCache,
       StopRunningReads, SetKill, rowVars
  <2>9. CASE Scheduler
    BY <1>1, <2>0, <2>9, RecoveryAssumption DEF Scheduler, DispatchDue, KillOff, Reconcile, ReconcileOrphans,
       SweepRunaway, StopUnchanged
  <2>10. QED
    BY <1>1, <2>1, <2>2, <2>3, <2>4, <2>5, <2>6, <2>7, <2>8, <2>9 DEF Next
<1>2. TypeOK /\ [Next]_vars =>
        [killSwitch /\ (\A p \in Procs : cachedKill[p] /\ \A r \in Requests : hand[p][r] = "idle")
           => \A r \in Requests :
                status'[r] \in {"pending", "approved", "scheduled"} => status'[r] = status[r]]_vars
  BY <1>1
<1>3. QED
  BY TypeCorrect, <1>2, PTL DEF Spec, KillSwitchHolds

\* The handlers, workers and sweeps together move a row only as RequestContract
\* allows.
THEOREM Refinement == Spec => ImplementsContract
<1>1. Init => Contract!Init
  BY DEF Init, Contract!Init
<1>2. IInv /\ [Next]_vars => [Contract!Next]_Contract!vars
  <2> SUFFICES ASSUME IInv, [Next]_vars PROVE Contract!Next
    OBVIOUS
  <2>1. ASSUME NEW x \in Requests
        PROVE  Contract!Stutter(x) \/ Contract!Move(x) \/ Contract!Start(x)
                 \/ Contract!Apply(x)
    BY EffectStep, ContractStep DEF IInv
  <2>2. TypeOK'
    BY TypeStep DEF IInv
  <2>3. QED
    BY <2>1, <2>2 DEF TypeOK, RowType, DbType, Status, Contract!Next,
       Contract!Status
<1>3. QED
  BY Invariance, <1>1, <1>2, PTL DEF Spec, ImplementsContract, Contract!Spec
=============================================================================
