-------------------------- MODULE RequestLifecycle --------------------------
(***************************************************************************)
(* The life of one row of the `requests` table, from submission to its     *)
(* settled state, and everything that writes it: the submit and decide     *)
(* handlers of the two QueryHub processes, the worker pool of each         *)
(* process (executor._run), the scheduler thread of the process that owns  *)
(* recovery, the Stop button, the kill switch, the runaway watchdog, the   *)
(* orphan reconciler, a crash, a graceful drain and boot recovery.         *)
(*                                                                         *)
(* The two processes share the control database only.  Each UPDATE of the  *)
(* code is one step here, with the WHERE clause as its guard; whatever the *)
(* code keeps in memory between two statements (a task of the pool, a      *)
(* handler that passed its kill-switch check, a cancel that is waiting for *)
(* its signal to land) is a variable that a crash of the process loses.    *)
(***************************************************************************)
EXTENDS Naturals

CONSTANTS
  Requests,     \* the request ids
  Procs,        \* the processes that execute: the Slack bot and the web API
  Recovery,     \* the one that runs boot recovery and the scheduler loop
  Kinds,        \* the statements submitted: [tier, single, mcp]
  SlackOn,      \* cfg.ENV.slack_enabled; off is the vanilla profile
  NoRequest,    \* "no request", for a submission that supersedes nothing
  Stoppers,     \* who stops running requests: "user", "watchdog" or both
  MaxRestarts,  \* bound: how often processes stop (drained or killed)
  MaxToggles    \* bound: how often the kill switch is set

ASSUME RecoveryAssumption == Recovery \in Procs
ASSUME NoRequestAssumption == NoRequest \notin Requests
ASSUME MaxRestartsAssumption == MaxRestarts \in Nat
ASSUME MaxTogglesAssumption == MaxToggles \in Nat
ASSUME StoppersAssumption == Stoppers \subseteq {"user", "watchdog"}
ASSUME SlackOnAssumption == SlackOn \in BOOLEAN

\* `single`: one main statement and no SET prelude on PostgreSQL, so the
\* statement runs in autocommit.  `mcp`: the request came through the MCP door.
KindType == [tier : {"ro", "rw", "ddl"}, single : BOOLEAN, mcp : BOOLEAN]

ASSUME KindsAssumption == Kinds \subseteq KindType

VARIABLES
  \* ---- the row, in the control database
  status,       \* requests.status; "absent" before the INSERT
  kind,         \* the statement, as query_safety classifies it
  sched,        \* requests.scheduled_for: none, in the future, or due
  decidedBy,    \* requests.decided_by_slack_id: nobody, AUTO, or a person
  error,        \* requests.error_message, by who wrote it
  backend,      \* backend_pid and executed_target_id: where a cancel aims
  cancelAsked,  \* requests.cancel_requested_at IS NOT NULL
  age,          \* now - executed_at: under the runaway limit, past it, past the lease
  \* ---- bot_config
  killSwitch,   \* bot_config.kill_switch
  toggles,      \* how many times the switch was set
  cachedKill,   \* what each process's config cache says of it (5 s TTL)
  \* ---- in the memory of each process
  proc,         \* up, draining or down
  hand,         \* a submit or approve handler between its check and its write
  task,         \* the request in this process: handed over, queued, running ...
  sweep,        \* this process still has to stop the running reads (kill on)
  stopper,      \* a stop_backend in progress, by who asked for it
  restarts,     \* how many times a process stopped
  \* ---- the target database
  session,      \* the backend that runs the request, and the signal it got
  applied,      \* how often the request's change was committed
  \* ---- history
  starts        \* how often a worker claimed the request

rowVars  == <<status, kind, sched, decidedBy, error, backend, cancelAsked, age>>
killVars == <<killSwitch, toggles, cachedKill>>
memVars  == <<proc, hand, task, sweep, stopper, restarts>>
dbVars   == <<session, applied, starts>>
vars     == <<rowVars, killVars, memVars, dbVars>>

-----------------------------------------------------------------------------
Status == {"absent", "pending", "changes_requested", "approved", "scheduled",
           "executing", "awaiting_dba_manual", "completed", "failed",
           "rejected", "cancelled"}

\* Who wrote error_message.  "not_run" is every refusal before the claim
\* ("Not run: ..."), "exec" a failure of the statement, "size" the result cap.
Errors == {"none", "not_run", "exec", "size", "stopped", "runaway", "orphaned",
           "escalated", "manual", "delivery"}

Servers  == {"none", "primary", "replica"}
Routes   == {"primary", "replica", "chosen"}   \* chosen: a super-admin's run_on
Outcomes == {"none", "done", "canceled", "denied", "lost", "error"}

PCs == {"idle", "notify", "handoff", "queued", "cleared", "claimed", "running",
        "ended", "delivering", "over"}

\* A worker past its claim: it owns the execution.
Owning == {"claimed", "running", "ended", "delivering"}

TaskType == [pc : PCs, route : Routes, out : Outcomes, committed : BOOLEAN]
IdleTask == [pc |-> "idle", route |-> "primary", out |-> "none",
             committed |-> FALSE]
Fresh(pc) == [IdleTask EXCEPT !.pc = pc]

StopperType == [pc  : {"idle", "reading", "aimed", "waiting", "decided"},
                by  : Procs,
                at  : Servers,
                out : {"none", "not_running", "cancelled", "terminated", "failed"}]
IdleStopper == [pc |-> "idle", by |-> Recovery, at |-> "none", out |-> "none"]

SessionType == [at : Servers, sig : {"none", "cancel", "terminate"}]
NoSession == [at |-> "none", sig |-> "none"]

RowType ==
  /\ status      \in [Requests -> Status]
  /\ kind        \in [Requests -> KindType]
  /\ sched       \in [Requests -> {"none", "future", "due"}]
  /\ decidedBy   \in [Requests -> {"none", "auto", "human"}]
  /\ error       \in [Requests -> Errors]
  /\ backend     \in [Requests -> Servers]
  /\ cancelAsked \in [Requests -> BOOLEAN]
  /\ age         \in [Requests -> 0..2]

KillType ==
  /\ killSwitch  \in BOOLEAN
  /\ toggles     \in Nat
  /\ cachedKill  \in [Procs -> BOOLEAN]

MemType ==
  /\ proc        \in [Procs -> {"up", "draining", "down"}]
  /\ hand        \in [Procs -> [Requests -> {"idle", "validated", "checked"}]]
  /\ task        \in [Procs -> [Requests -> TaskType]]
  /\ sweep       \in [Procs -> BOOLEAN]
  /\ stopper     \in [Stoppers -> [Requests -> StopperType]]
  /\ restarts    \in Nat

DbType ==
  /\ session     \in [Requests -> SessionType]
  /\ applied     \in [Requests -> Nat]
  /\ starts      \in [Requests -> Nat]

TypeOK == RowType /\ KillType /\ MemType /\ DbType

Mutates(r) == kind[r].tier # "ro"

Init ==
  /\ status      = [r \in Requests |-> "absent"]
  /\ kind        \in [Requests -> Kinds]
  /\ sched       = [r \in Requests |-> "none"]
  /\ decidedBy   = [r \in Requests |-> "none"]
  /\ error       = [r \in Requests |-> "none"]
  /\ backend     = [r \in Requests |-> "none"]
  /\ cancelAsked = [r \in Requests |-> FALSE]
  /\ age         = [r \in Requests |-> 0]
  /\ killSwitch  = FALSE
  /\ toggles     = 0
  /\ cachedKill  = [p \in Procs |-> FALSE]
  /\ proc        = [p \in Procs |-> "up"]
  /\ hand        = [p \in Procs |-> [r \in Requests |-> "idle"]]
  /\ task        = [p \in Procs |-> [r \in Requests |-> IdleTask]]
  /\ sweep       = [p \in Procs |-> FALSE]
  /\ stopper     = [k \in Stoppers |-> [r \in Requests |-> IdleStopper]]
  /\ restarts    = 0
  /\ session     = [r \in Requests |-> NoSession]
  /\ applied     = [r \in Requests |-> 0]
  /\ starts      = [r \in Requests |-> 0]

Put(p, r, t) == task' = [task EXCEPT ![p][r] = t]

-----------------------------------------------------------------------------
(* Submission: core_submit.validate_submission, create_request and          *)
(* dispatch_and_notify.                                                     *)

\* MUTANT: the kill switch is not asked for.
KillOffUnread(p) == TRUE

\* The kill switch is off as far as this process's cache knows.
KillOff(p) == ~cachedKill[p]

\* validate_submission lets the form through: the kill switch is off as far as
\* this process's cache knows, and the process is not draining.
Validate(p, r) ==
  /\ proc[p] = "up"
  /\ status[r] = "absent"
  /\ \A q \in Procs : hand[q][r] = "idle"
  /\ KillOff(p)
  /\ hand' = [hand EXCEPT ![p][r] = "validated"]
  /\ UNCHANGED <<rowVars, killVars, proc, task, sweep, stopper, restarts, dbVars>>

\* _recheck_open_limits found the user's limit or a duplicate reached meanwhile.
SubmitRejected(p, r) ==
  /\ hand[p][r] = "validated"
  /\ hand' = [hand EXCEPT ![p][r] = "idle"]
  /\ UNCHANGED <<rowVars, killVars, proc, task, sweep, stopper, restarts, dbVars>>

\* MUTANT: the MCP door's writes may use a waiver like everybody else's.
HumanOnlyForReads(r) == kind[r].mcp /\ ~Mutates(r)

\* A write that came through the MCP door must be read by a person.
HumanOnly(r) == kind[r].mcp /\ Mutates(r)

\* MUTANT: the original is withdrawn whatever became of it.
SupersedeFromAny(s) == s # "absent"

\* The WHERE clause under which an edited resubmission withdraws its original.
SupersedeFrom(s) == s = "pending"

\* create_request: one transaction inserts the row, already decided when a
\* waiver, a fingerprint match or a super-admin's standing applies (`auto`),
\* and withdraws the original `old` of an edited resubmission if it still waits.
CreateRequest(p, r, s, auto, old) ==
  /\ hand[p][r] = "validated"
  /\ auto => ~HumanOnly(r)
  /\ old # r
  /\ status' = [q \in Requests |->
       CASE q = r   -> IF ~auto THEN "pending"
                       ELSE IF s = "none" THEN "approved" ELSE "scheduled"
         [] q = old -> IF SupersedeFrom(status[q]) THEN "cancelled" ELSE status[q]
         [] OTHER   -> status[q]]
  /\ sched' = [sched EXCEPT ![r] = s]
  /\ decidedBy' = [decidedBy EXCEPT ![r] = IF auto THEN "auto" ELSE "none"]
  /\ hand' = [hand EXCEPT ![p][r] = "idle"]
  /\ IF auto /\ s = "none" THEN Put(p, r, Fresh("notify")) ELSE UNCHANGED task
  /\ UNCHANGED <<kind, error, backend, cancelAsked, age, killVars, proc, sweep,
                 stopper, restarts, dbVars>>

-----------------------------------------------------------------------------
(* Decision: core_decide.                                                   *)

\* require_kill_switch_off, before the transaction of an approval opens.
CheckKillSwitch(p, r) ==
  /\ proc[p] # "down"
  /\ status[r] = "pending"
  /\ hand[p][r] = "idle"
  /\ KillOff(p)
  /\ hand' = [hand EXCEPT ![p][r] = "checked"]
  /\ UNCHANGED <<rowVars, killVars, proc, task, sweep, stopper, restarts, dbVars>>

\* decide(approve): guarded by status = 'pending', so of two approvers one
\* writes and the other returns None.
Approve(p, r) ==
  /\ hand[p][r] = "checked"
  /\ hand' = [hand EXCEPT ![p][r] = "idle"]
  /\ \/ /\ status[r] = "pending"
        /\ status' = [status EXCEPT ![r] =
                        IF sched[r] = "future" THEN "scheduled" ELSE "approved"]
        /\ decidedBy' = [decidedBy EXCEPT ![r] = "human"]
        /\ IF sched[r] = "future" THEN UNCHANGED task
           ELSE Put(p, r, Fresh("notify"))
     \/ /\ status[r] # "pending"
        /\ UNCHANGED <<status, decidedBy, task>>
  /\ UNCHANGED <<kind, sched, error, backend, cancelAsked, age, killVars, proc,
                 sweep, stopper, restarts, dbVars>>

\* decide(reject) and decide(changes): no kill-switch check.
Decline(r, s) ==
  /\ s \in {"rejected", "changes_requested"}
  /\ status[r] = "pending"
  /\ status' = [status EXCEPT ![r] = s]
  /\ decidedBy' = [decidedBy EXCEPT ![r] = "human"]
  /\ UNCHANGED <<kind, sched, error, backend, cancelAsked, age, killVars,
                 memVars, dbVars>>

-----------------------------------------------------------------------------
(* Closing a request that has not started.                                  *)

Withdrawable == {"pending", "changes_requested", "approved", "scheduled"}

\* MUTANT: a running request may be withdrawn too.
WithdrawFromLoose(s) == s \in Withdrawable \cup {"executing"}

\* cancellation.withdraw's WHERE clause.
WithdrawFrom(s) == s \in Withdrawable

Close(r) ==
  /\ status' = [status EXCEPT ![r] = "cancelled"]
  /\ UNCHANGED <<kind, sched, decidedBy, error, backend, cancelAsked, age,
                 killVars, memVars, dbVars>>

Withdraw(r) == WithdrawFrom(status[r]) /\ Close(r)

\* The Cancel buttons of the Slack cards, the web's cancel of a scheduled
\* request, and the nightly expiry of pending requests.
CancelPending(r)   == status[r] = "pending" /\ Close(r)
CancelScheduled(r) == status[r] = "scheduled" /\ Close(r)
ExpirePending(r)   == status[r] = "pending" /\ Close(r)

-----------------------------------------------------------------------------
(* Handing over to the pool: executor.submit.                               *)

\* A Slack call between the decision's commit and executor.submit raises; the
\* row stays approved and nobody holds it.
NotifyRaises(p, r) ==
  /\ SlackOn
  /\ task[p][r].pc = "notify"
  /\ Put(p, r, IdleTask)
  /\ UNCHANGED <<rowVars, killVars, proc, hand, sweep, stopper, restarts, dbVars>>

\* executor.submit: queued, unless this process is draining.
Submit(p, r) ==
  /\ task[p][r].pc \in {"notify", "handoff"}
  /\ Put(p, r, IF proc[p] = "draining" THEN IdleTask ELSE Fresh("queued"))
  /\ UNCHANGED <<rowVars, killVars, proc, hand, sweep, stopper, restarts, dbVars>>

-----------------------------------------------------------------------------
(* One execution: executor._run.                                            *)

\* MUTANT: _fail overwrites whatever it finds.
FailBlockedNever(s) == FALSE

\* The statuses _fail leaves alone.
FailBlocked(s) == s \in {"completed", "rejected", "cancelled"}

\* executor._fail
Fail(r, why) ==
  /\ status' = [status EXCEPT ![r] = IF FailBlocked(@) THEN @ ELSE "failed"]
  /\ error'  = [error  EXCEPT ![r] = IF FailBlocked(status[r]) THEN @ ELSE why]

\* executor._escalate_to_dba: no condition on the status.
Escalate(r) ==
  /\ status' = [status EXCEPT ![r] = "awaiting_dba_manual"]
  /\ error'  = [error EXCEPT ![r] = "escalated"]

\* What every step of a worker leaves alone.
WorkerUnchanged ==
  UNCHANGED <<kind, sched, decidedBy, cancelAsked, killVars, proc, hand, sweep,
              stopper, restarts>>

Goto(p, r, pc) == Put(p, r, [task[p][r] EXCEPT !.pc = pc])

\* The worker returns; what it knew of a commit is kept for the properties.
Finish(p, r) ==
  Put(p, r, [Fresh("over") EXCEPT !.committed = task[p][r].committed])

\* A check before the claim refuses: the password is gone, the target is
\* missing, disabled or unwired, the statement is blocked, the requester lost
\* their access, a credential is missing, the chosen replica cannot run it.
Refuse(p, r) ==
  /\ task[p][r].pc = "queued"
  /\ Fail(r, "not_run")
  /\ Finish(p, r)
  /\ WorkerUnchanged /\ UNCHANGED <<backend, age, dbVars>>

\* Every check passes, and the request gets its route: only a read may go to a
\* replica, by the automatic rules or by a super-admin's choice.
Clear(p, r, route) ==
  /\ task[p][r].pc = "queued"
  /\ route # "primary" => kind[r].tier = "ro"
  /\ Put(p, r, [task[p][r] EXCEPT !.pc = "cleared", !.route = route])
  /\ WorkerUnchanged
  /\ UNCHANGED <<status, error, backend, age, dbVars>>

\* MUTANT: the claim as it was before: an executing row could be claimed again.
ClaimableOld(s) == s \in {"approved", "executing"}

\* The claim's WHERE clause.
Claimable(s) == s = "approved"

\* The claim, the single gate on execution.  Losing it is silent.
Claim(p, r) ==
  /\ task[p][r].pc = "cleared"
  /\ \/ /\ Claimable(status[r])
        /\ status' = [status EXCEPT ![r] = "executing"]
        /\ age'    = [age EXCEPT ![r] = 0]
        /\ starts' = [starts EXCEPT ![r] = @ + 1]
        /\ Goto(p, r, "claimed")
     \/ /\ ~Claimable(status[r])
        /\ Finish(p, r)
        /\ UNCHANGED <<status, age, starts>>
  /\ WorkerUnchanged /\ UNCHANGED <<error, backend, session, applied>>

\* Several statements, one of which cannot run in a transaction block.
EscalateIncompatible(p, r) ==
  /\ task[p][r].pc = "claimed"
  /\ ~kind[r].single
  /\ Escalate(r)
  /\ Finish(p, r)
  /\ WorkerUnchanged /\ UNCHANGED <<backend, age, dbVars>>

ServerOf(route) == IF route = "primary" THEN "primary" ELSE "replica"

\* The connection opens and the pid of its backend is recorded, best effort.
Connect(p, r, pid) ==
  /\ task[p][r].pc = "claimed"
  /\ pid \in {"none", ServerOf(task[p][r].route)}
  /\ session' = [session EXCEPT ![r] =
                   [at |-> ServerOf(task[p][r].route), sig |-> "none"]]
  /\ backend' = [backend EXCEPT ![r] = pid]
  /\ Goto(p, r, "running")
  /\ WorkerUnchanged /\ UNCHANGED <<status, error, age, applied, starts>>

ConnectFails(p, r) ==
  /\ task[p][r].pc = "claimed"
  /\ Put(p, r, [task[p][r] EXCEPT !.pc = "ended", !.out = "lost"])
  /\ WorkerUnchanged
  /\ UNCHANGED <<status, error, backend, age, dbVars>>

\* The statements come back: finished (a change is committed), cancelled by a
\* timeout or a signal, refused for lack of privilege, cut off with the
\* connection, or failed otherwise.  Cut off or failed, the change may have been
\* committed all the same (`landed`); the worker knows of it (`told`) only in
\* autocommit, where on_committed runs as soon as the statement returns.
StatementEnds(p, r, out, landed, told) ==
  /\ task[p][r].pc = "running"
  /\ out = "done" => landed = Mutates(r) /\ told = (landed /\ kind[r].single)
  /\ out \in {"canceled", "denied"} => ~landed
  /\ out = "lost" => ~told
  /\ landed => Mutates(r)
  /\ told => landed /\ kind[r].single
  /\ session' = [session EXCEPT ![r] = NoSession]
  /\ applied' = [applied EXCEPT ![r] = IF landed THEN @ + 1 ELSE @]
  /\ Put(p, r, [task[p][r] EXCEPT !.pc = "ended", !.out = out,
                                  !.committed = told])
  /\ WorkerUnchanged /\ UNCHANGED <<status, error, backend, age, starts>>

Ended(p, r, out) == task[p][r].pc = "ended" /\ task[p][r].out = out

\* _finalize and the _complete_* functions: the UPDATE has no condition on the
\* status; the Slack delivery comes after its commit.
Complete(p, r) ==
  /\ Ended(p, r, "done")
  /\ status' = [status EXCEPT ![r] = "completed"]
  /\ Goto(p, r, "delivering")
  /\ WorkerUnchanged /\ UNCHANGED <<error, backend, age, dbVars>>

\* _finalize: the result is over the size limit.
SizeCap(p, r) ==
  /\ Ended(p, r, "done")
  /\ Fail(r, "size")
  /\ Finish(p, r)
  /\ WorkerUnchanged /\ UNCHANGED <<backend, age, dbVars>>

\* _finalize raises before its completion commits, a Slack call after it does,
\* or an OperationalError is not one a replica is left for.
Raise(p, r) ==
  /\ \/ Ended(p, r, "done")
     \/ task[p][r].pc = "delivering" /\ SlackOn
     \/ Ended(p, r, "lost") /\ (task[p][r].route = "primary" \/ cancelAsked[r])
  /\ Put(p, r, [task[p][r] EXCEPT !.pc = "ended", !.out = "error"])
  /\ WorkerUnchanged /\ UNCHANGED <<status, error, backend, age, dbVars>>

Deliver(p, r) ==
  /\ task[p][r].pc = "delivering"
  /\ Finish(p, r)
  /\ WorkerUnchanged /\ UNCHANGED <<status, error, backend, age, dbVars>>

\* _fall_back_to_primary: the replica failed the read for a reason of its own.
FallBack(p, r) ==
  /\ Ended(p, r, "lost")
  /\ task[p][r].route = "replica" /\ ~cancelAsked[r]
  /\ Put(p, r, Fresh("claimed"))
  /\ backend' = [backend EXCEPT ![r] = "none"]
  /\ WorkerUnchanged /\ UNCHANGED <<status, error, age, dbVars>>

\* _fail_on_chosen_replica: a chosen replica has no second attempt.
ChosenFails(p, r) ==
  /\ Ended(p, r, "lost")
  /\ task[p][r].route = "chosen" /\ ~cancelAsked[r]
  /\ Fail(r, "exec")
  /\ Finish(p, r)
  /\ WorkerUnchanged /\ UNCHANGED <<backend, age, dbVars>>

\* except QueryCanceled
HandleCanceled(p, r) ==
  /\ Ended(p, r, "canceled")
  /\ Fail(r, "exec")
  /\ Finish(p, r)
  /\ WorkerUnchanged /\ UNCHANGED <<backend, age, dbVars>>

\* except InsufficientPrivilege: a DBA takes over a DDL request.
HandleDenied(p, r) ==
  /\ Ended(p, r, "denied")
  /\ IF kind[r].tier = "ddl" THEN Escalate(r) ELSE Fail(r, "exec")
  /\ Finish(p, r)
  /\ WorkerUnchanged /\ UNCHANGED <<backend, age, dbVars>>

\* The statuses the ordering guard of the generic handler leaves alone.
KeptOnError(s) ==
  s \in {"completed", "rejected", "cancelled", "awaiting_dba_manual"}

\* MUTANT: the handler does not ask whether the change was committed.
AppliedForSureLoose(p, r) == Mutates(r) /\ status[r] = "executing"

\* The worker saw its change committed, and the row is still the worker's.
AppliedForSure(p, r) == task[p][r].committed /\ status[r] = "executing"

\* except Exception: the handler reads the status (which may fail), then leaves
\* the row, completes it with a delivery warning, or fails it.  Between its read
\* and its write others can only move the row from executing to failed, which
\* the guards of both writes answer as a later read would, so one step it is.
HandleException(p, r, readable) ==
  /\ Ended(p, r, "error")
  /\ \/ /\ readable /\ KeptOnError(status[r])
        /\ UNCHANGED <<status, error>>
     \/ /\ readable /\ AppliedForSure(p, r)
        /\ status' = [status EXCEPT ![r] = "completed"]
        /\ error'  = [error EXCEPT ![r] = "delivery"]
     \/ /\ ~ (readable /\ KeptOnError(status[r]))
        /\ ~ (readable /\ AppliedForSure(p, r))
        /\ Fail(r, "exec")
  /\ Finish(p, r)
  /\ WorkerUnchanged /\ UNCHANGED <<backend, age, dbVars>>

\* manual_runs.close: an admin closes an escalated request.
ManualClose(r, s) ==
  /\ s \in {"completed", "failed"}
  /\ status[r] = "awaiting_dba_manual"
  /\ status' = [status EXCEPT ![r] = s]
  /\ error'  = [error EXCEPT ![r] = IF s = "failed" THEN "manual" ELSE @]
  /\ UNCHANGED <<kind, sched, decidedBy, backend, cancelAsked, age, killVars,
                 memVars, dbVars>>

-----------------------------------------------------------------------------
(* Stopping a running request: cancellation.stop_backend and its callers.   *)

\* What a stop in progress leaves alone.
StopUnchanged ==
  UNCHANGED <<kind, sched, decidedBy, backend, age, killVars, proc, hand, task,
              sweep, restarts, applied, starts>>

Stop(k, r, s) == stopper' = [stopper EXCEPT ![k][r] = s]

\* cancel: the Stop button. request_cancel records the ask on an executing row.
RequestCancel(p, r) ==
  /\ "user" \in Stoppers
  /\ proc[p] # "down"
  /\ status[r] = "executing"
  /\ stopper["user"][r].pc = "idle"
  /\ cancelAsked' = [cancelAsked EXCEPT ![r] = TRUE]
  /\ Stop("user", r, [IdleStopper EXCEPT !.pc = "reading", !.by = p])
  /\ StopUnchanged /\ UNCHANGED <<status, error, session>>

\* The scheduler thread is between two sweeps: a runaway sweep blocks it.
SchedulerFree ==
  /\ proc[Recovery] = "up"
  /\ "watchdog" \in Stoppers =>
       \A r \in Requests : stopper["watchdog"][r].pc = "idle"

\* sweep_runaways picks an execution past execution_runaway_sec.
SweepRunaway(r) ==
  /\ "watchdog" \in Stoppers
  /\ SchedulerFree
  /\ status[r] = "executing" /\ age[r] >= 1
  /\ Stop("watchdog", r, [IdleStopper EXCEPT !.pc = "reading"])
  /\ StopUnchanged /\ UNCHANGED <<status, error, cancelAsked, session>>

\* stop_backend reads the row: where the backend is, if the row says so.
ReadRow(k, r) ==
  LET s == stopper[k][r] IN
  /\ s.pc = "reading"
  /\ Stop(k, r,
       IF status[r] # "executing"
         THEN [s EXCEPT !.pc = "decided", !.out = "not_running"]
       ELSE IF backend[r] = "none"
         THEN [s EXCEPT !.pc = "decided", !.out = "failed"]
       ELSE [s EXCEPT !.pc = "aimed", !.at = backend[r]])
  /\ StopUnchanged /\ UNCHANGED <<status, error, cancelAsked, session>>

\* No login, no connection to the target, or the connection breaks.
StopBreaks(k, r) ==
  /\ stopper[k][r].pc \in {"aimed", "waiting"}
  /\ Stop(k, r, [stopper[k][r] EXCEPT !.pc = "decided", !.out = "failed"])
  /\ StopUnchanged /\ UNCHANGED <<status, error, cancelAsked, session>>

\* _matches_this_request, then pg_cancel_backend.
SignalCancel(k, r) ==
  LET s == stopper[k][r] IN
  /\ s.pc = "aimed"
  /\ \/ /\ session[r].at = s.at
        /\ session' = [session EXCEPT ![r].sig = IF @ = "none" THEN "cancel" ELSE @]
        /\ Stop(k, r, [s EXCEPT !.pc = "waiting"])
     \/ /\ session[r].at # s.at
        /\ Stop(k, r, [s EXCEPT !.pc = "decided", !.out = "not_running"])
        /\ UNCHANGED session
  /\ StopUnchanged /\ UNCHANGED <<status, error, cancelAsked>>

\* The poll after the cancel: it landed, or cancel_escalate_sec passed and
\* pg_terminate_backend is sent.
SignalLands(k, r) ==
  LET s == stopper[k][r] IN
  /\ s.pc = "waiting"
  /\ \/ /\ session[r].at # s.at
        /\ Stop(k, r, [s EXCEPT !.pc = "decided", !.out = "cancelled"])
        /\ UNCHANGED session
     \/ /\ session[r].at = s.at
        /\ session' = [session EXCEPT ![r].sig = "terminate"]
        /\ Stop(k, r, [s EXCEPT !.pc = "decided", !.out = "terminated"])
  /\ StopUnchanged /\ UNCHANGED <<status, error, cancelAsked>>

\* MUTANT: the Stop button's UPDATE loses its status condition.
StopFailsFromAny(s) == TRUE

\* cancellation._fail_request's WHERE clause.
StopFailsFrom(s) == s = "executing"

\* The caller's _fail_request: a user's stop only when a signal reached the
\* backend, the watchdog's whatever stop_backend said.
StopReturns(k, r) ==
  LET s == stopper[k][r]
      fails == /\ k = "watchdog" \/ s.out \in {"cancelled", "terminated"}
               /\ StopFailsFrom(status[r])
  IN
  /\ s.pc = "decided"
  /\ status' = [status EXCEPT ![r] = IF fails THEN "failed" ELSE @]
  /\ error'  = [error EXCEPT ![r] =
                  IF ~fails THEN @ ELSE IF k = "user" THEN "stopped" ELSE "runaway"]
  /\ Stop(k, r, IdleStopper)
  /\ StopUnchanged /\ UNCHANGED <<cancelAsked, session>>

-----------------------------------------------------------------------------
(* The kill switch.                                                         *)

\* set_kill and /sql kill: the switch, and this process's own cache.
SetKill(p, on) ==
  /\ proc[p] # "down"
  /\ killSwitch # on /\ toggles < MaxToggles
  /\ killSwitch' = on
  /\ toggles' = toggles + 1
  /\ cachedKill' = [cachedKill EXCEPT ![p] = on]
  /\ sweep' = [sweep EXCEPT ![p] = on]
  /\ UNCHANGED <<rowVars, proc, hand, task, stopper, restarts, dbVars>>

\* stop_running_reads: a cancel of every running read.
StopRunningReads(p) ==
  LET reads == {r \in Requests : status[r] = "executing" /\ kind[r].tier = "ro"}
  IN
  /\ sweep[p]
  /\ sweep' = [sweep EXCEPT ![p] = FALSE]
  /\ cancelAsked' = [r \in Requests |-> cancelAsked[r] \/ r \in reads]
  /\ stopper' = [k \in Stoppers |-> [r \in Requests |->
       IF k = "user" /\ r \in reads /\ stopper[k][r].pc = "idle"
       THEN [IdleStopper EXCEPT !.pc = "reading", !.by = p] ELSE stopper[k][r]]]
  /\ UNCHANGED <<status, kind, sched, decidedBy, error, backend, age, killVars,
                 proc, hand, task, restarts, dbVars>>

\* The cached value expires and the next reader fetches it again.
RefreshCache(p) ==
  /\ proc[p] # "down"
  /\ cachedKill[p] # killSwitch
  /\ cachedKill' = [cachedKill EXCEPT ![p] = killSwitch]
  /\ UNCHANGED <<rowVars, killSwitch, toggles, memVars, dbVars>>

-----------------------------------------------------------------------------
(* The scheduler loop of the process that owns recovery.                    *)

\* MUTANT: the dispatch as it was before: it wrote 'executing' itself.
DispatchedToOld == "executing"

\* MUTANT: a status the enumeration does not have.
DispatchedToUnknown == "dispatched"

\* The status dispatch_due gives a due row: only the claim writes 'executing'.
DispatchedTo == "approved"

\* MUTANT: only what a person approved is dispatched.
DueIfDecided(r) ==
  status[r] = "scheduled" /\ sched[r] = "due" /\ decidedBy[r] = "human"

\* scheduled_for <= NOW()
Due(r) == status[r] = "scheduled" /\ sched[r] = "due"

\* dispatch_due: every due row in one transaction, then submit for each.
DispatchDue ==
  LET due == {r \in Requests : Due(r)} IN
  /\ SchedulerFree
  /\ KillOff(Recovery)
  /\ due # {}
  /\ status' = [r \in Requests |-> IF r \in due THEN DispatchedTo ELSE status[r]]
  /\ task' = [task EXCEPT ![Recovery] =
       [r \in Requests |-> IF r \in due THEN Fresh("handoff") ELSE @[r]]]
  /\ UNCHANGED <<kind, sched, decidedBy, error, backend, cancelAsked, age,
                 killVars, proc, hand, sweep, stopper, restarts, dbVars>>

\* MUTANT: the lease is compared the wrong way round at its boundary.
OrphanedNever(r) == status[r] = "executing" /\ age[r] > 2

\* Executing for longer than execution_lease_sec.
Orphaned(r) == status[r] = "executing" /\ age[r] >= 2

\* reconcile_orphaned_executing
ReconcileOrphans ==
  /\ status' = [r \in Requests |-> IF Orphaned(r) THEN "failed" ELSE status[r]]
  /\ error'  = [r \in Requests |->
                  IF Orphaned(r) /\ error[r] = "none" THEN "orphaned" ELSE error[r]]

Reconcile ==
  /\ SchedulerFree
  /\ \E r \in Requests : Orphaned(r)
  /\ ReconcileOrphans
  /\ UNCHANGED <<kind, sched, decidedBy, backend, cancelAsked, age, killVars,
                 memVars, dbVars>>

-----------------------------------------------------------------------------
(* A process stops and starts.                                              *)

\* SIGTERM, or uvicorn's shutdown hook: lifecycle.begin_drain.
Drain(p) ==
  /\ proc[p] = "up" /\ restarts < MaxRestarts
  /\ proc' = [proc EXCEPT ![p] = "draining"]
  /\ restarts' = restarts + 1
  /\ UNCHANGED <<rowVars, killVars, hand, task, sweep, stopper, dbVars>>

\* What is gone with the process's memory.
ForgetMemory(p) ==
  /\ proc' = [proc EXCEPT ![p] = "down"]
  /\ hand' = [hand EXCEPT ![p] = [r \in Requests |-> "idle"]]
  /\ task' = [task EXCEPT ![p] = [r \in Requests |-> IdleTask]]
  /\ sweep' = [sweep EXCEPT ![p] = FALSE]
  /\ stopper' = [k \in Stoppers |-> [r \in Requests |->
       IF stopper[k][r].by = p THEN IdleStopper ELSE stopper[k][r]]]

InPool == Owning \cup {"queued", "cleared"}

\* executor.shutdown(wait=True) returns once the pool is empty.
Exit(p) ==
  /\ proc[p] = "draining"
  /\ \A r \in Requests : task[p][r].pc \notin InPool
  /\ ForgetMemory(p)
  /\ UNCHANGED <<rowVars, killVars, restarts, dbVars>>

\* The service manager's stop timeout ends a drain that takes too long.
DrainTimeout(p) ==
  /\ proc[p] = "draining"
  /\ \E r \in Requests : task[p][r].pc \in InPool
  /\ ForgetMemory(p)
  /\ UNCHANGED <<rowVars, killVars, restarts, dbVars>>

\* A crash: killed, out of memory, power loss.
Crash(p) ==
  /\ proc[p] = "up" /\ restarts < MaxRestarts
  /\ restarts' = restarts + 1
  /\ ForgetMemory(p)
  /\ UNCHANGED <<rowVars, killVars, dbVars>>

\* MUTANT: boot recovery looks for interrupted rows instead of waiting ones.
ResubmittedOld(s) == s = "executing"

\* The rows boot recovery hands to the pool again.
Resubmitted(s) == s = "approved"

\* The service manager starts the process again. The one that owns recovery
\* reconciles orphans and hands every approved row to its own empty pool.
Boot(p) ==
  /\ proc[p] = "down"
  /\ proc' = [proc EXCEPT ![p] = "up"]
  /\ cachedKill' = [cachedKill EXCEPT ![p] = killSwitch]
  /\ \/ /\ p = Recovery
        /\ ReconcileOrphans
        /\ task' = [task EXCEPT ![p] =
             [r \in Requests |-> IF Resubmitted(status[r])
                                 THEN Fresh("queued") ELSE @[r]]]
     \/ /\ p # Recovery
        /\ UNCHANGED <<status, error, task>>
  /\ UNCHANGED <<kind, sched, decidedBy, backend, cancelAsked, age, killSwitch,
                 toggles, hand, sweep, stopper, restarts, dbVars>>

-----------------------------------------------------------------------------
(* The clock, and the target once its client is gone.                       *)

\* A scheduled time comes, while somebody may still read it.
BecomeDue(r) ==
  /\ sched[r] = "future" /\ status[r] \in {"pending", "scheduled"}
  /\ sched' = [sched EXCEPT ![r] = "due"]
  /\ UNCHANGED <<status, kind, decidedBy, error, backend, cancelAsked, age,
                 killVars, memVars, dbVars>>

\* An execution passes execution_runaway_sec, then execution_lease_sec.
Grow(r) ==
  /\ status[r] = "executing" /\ age[r] < 2
  /\ age' = [age EXCEPT ![r] = @ + 1]
  /\ UNCHANGED <<status, kind, sched, decidedBy, error, backend, cancelAsked,
                 killVars, memVars, dbVars>>

\* A backend whose client died ends by itself; an autocommit change in flight
\* may still be committed, a transaction never is.
SessionEnds(r, landed) ==
  /\ session[r].at # "none"
  /\ \A p \in Procs : task[p][r].pc # "running"
  /\ landed => Mutates(r) /\ kind[r].single
  /\ session' = [session EXCEPT ![r] = NoSession]
  /\ applied' = [applied EXCEPT ![r] = IF landed THEN @ + 1 ELSE @]
  /\ UNCHANGED <<rowVars, killVars, memVars, starts>>

-----------------------------------------------------------------------------
Worker(p, r) ==
  \/ Refuse(p, r)
  \/ \E route \in Routes : Clear(p, r, route)
  \/ Claim(p, r)
  \/ EscalateIncompatible(p, r)
  \/ \E pid \in Servers : Connect(p, r, pid)
  \/ ConnectFails(p, r)
  \/ Complete(p, r) \/ SizeCap(p, r) \/ Raise(p, r) \/ Deliver(p, r)
  \/ FallBack(p, r) \/ ChosenFails(p, r)
  \/ HandleCanceled(p, r) \/ HandleDenied(p, r)
  \/ \E readable \in BOOLEAN : HandleException(p, r, readable)

Target(r) ==
  \/ \E p \in Procs, out \in Outcomes \ {"none"}, landed, told \in BOOLEAN :
       StatementEnds(p, r, out, landed, told)
  \/ \E landed \in BOOLEAN : SessionEnds(r, landed)

Stopping(k, r) ==
  ReadRow(k, r) \/ StopBreaks(k, r) \/ SignalCancel(k, r) \/ SignalLands(k, r)
    \/ StopReturns(k, r)

Person(p, r) ==
  \/ Validate(p, r) \/ SubmitRejected(p, r)
  \/ \E s \in {"none", "future"}, auto \in BOOLEAN,
        old \in Requests \cup {NoRequest} : CreateRequest(p, r, s, auto, old)
  \/ CheckKillSwitch(p, r) \/ Approve(p, r)
  \/ RequestCancel(p, r)

Row(r) ==
  \/ \E s \in Status : Decline(r, s) \/ ManualClose(r, s)
  \/ Withdraw(r) \/ CancelPending(r) \/ CancelScheduled(r) \/ ExpirePending(r)

Process(p) ==
  \/ Drain(p) \/ Exit(p) \/ DrainTimeout(p) \/ Crash(p) \/ Boot(p)
  \/ RefreshCache(p) \/ StopRunningReads(p)
  \/ \E on \in BOOLEAN : SetKill(p, on)

Scheduler == DispatchDue \/ Reconcile \/ \E r \in Requests : SweepRunaway(r)

Next ==
  \/ \E p \in Procs, r \in Requests :
       Person(p, r) \/ NotifyRaises(p, r) \/ Submit(p, r) \/ Worker(p, r)
  \/ \E r \in Requests : Row(r) \/ Target(r) \/ BecomeDue(r) \/ Grow(r)
  \/ \E k \in Stoppers, r \in Requests : Stopping(k, r)
  \/ \E p \in Procs : Process(p)
  \/ Scheduler

Spec == Init /\ [][Next]_vars

\* Threads run, the service manager restarts what stopped and ends a drain that
\* hangs, the scheduler loop ticks, the clock runs, a cached value expires, and
\* a backend told to terminate goes. Nothing is assumed of people, nor that a
\* statement ends by itself: one blocked in ClientWrite does not.
Fairness ==
  /\ \A p \in Procs, r \in Requests :
       WF_vars(Submit(p, r)) /\ WF_vars(Worker(p, r))
  /\ \A k \in Stoppers, r \in Requests : WF_vars(Stopping(k, r))
  /\ \A p \in Procs :
       /\ WF_vars(Exit(p) \/ DrainTimeout(p)) /\ WF_vars(Boot(p))
       /\ WF_vars(RefreshCache(p)) /\ WF_vars(StopRunningReads(p))
  /\ WF_vars(DispatchDue) /\ WF_vars(Reconcile)
  /\ \A r \in Requests :
       /\ WF_vars(SweepRunaway(r))
       /\ WF_vars(BecomeDue(r)) /\ WF_vars(Grow(r))
       /\ WF_vars(Target(r) /\ session[r].sig = "terminate")

FairSpec == Spec /\ Fairness

-----------------------------------------------------------------------------
(* Properties.                                                              *)

\* At most one worker gets past the claim, over all processes, restarts and
\* second submissions of the same request, and a request's change is committed
\* at most once, whatever is retried (executor._run's claim, 769-807).
ExecutedAtMostOnce ==
  \A r \in Requests :
    /\ starts[r] <= 1 /\ applied[r] <= 1
    /\ \A p, q \in Procs :
         task[p][r].pc \in Owning /\ task[q][r].pc \in Owning => p = q

\* A request that is waiting, declined or withdrawn is not being executed, has
\* no session on the target and changed nothing: withdraw's promise that losing
\* its race is never "a request that is `cancelled` in the table while a query
\* runs against production" (cancellation.withdraw).
UnstartedNeverRuns ==
  \A r \in Requests :
    status[r] \notin {"executing", "awaiting_dba_manual", "completed", "failed"} =>
      /\ \A p \in Procs : task[p][r].pc \notin Owning
      /\ session[r].at = "none" /\ applied[r] = 0

\* A completed change is one that was committed: no order of stops, errors and
\* delivery failures reports success for a change that is not there, unless a
\* DBA closed it by hand (_complete_*, _complete_with_delivery_warning).
CompletedMeansApplied ==
  \A r \in Requests :
    status[r] = "completed" /\ Mutates(r) /\ error[r] # "escalated" =>
      applied[r] = 1

\* Nothing that came through the MCP door with a write in it gets past review
\* without a person (create_request, 844-850).
McpWritesReadByPerson ==
  \A r \in Requests :
    kind[r].mcp /\ Mutates(r) /\ (starts[r] > 0 \/ status[r] \in {"approved", "scheduled"})
      => decidedBy[r] = "human"

\* A request that completed, was rejected or was cancelled never changes its
\* status again, although _complete_* and _escalate_to_dba write without a
\* condition and a second worker, a stop or a sweep may hold a stale view.
ClosedStaysClosed ==
  [][\A r \in Requests :
       status[r] \in {"completed", "rejected", "cancelled"} =>
         status'[r] = status[r]]_vars

\* Once every process knows that the kill switch is on and no handler is past its
\* check, nobody accepts work: no form becomes a row, no row is approved, scheduled
\* or dispatched, by any handler, boot or scheduler tick (the switch's promise in
\* validate_submission, require_kill_switch_off and dispatch_due).
KillSwitchHolds ==
  [][killSwitch /\ (\A p \in Procs : cachedKill[p] /\ \A r \in Requests : hand[p][r] = "idle")
       => \A r \in Requests :
            status'[r] \in {"pending", "approved", "scheduled"} => status'[r] = status[r]]_vars

\* Every execution is settled: a row never stays 'executing' for good, whether
\* its worker hangs, its process dies or its stop cannot reach the target
\* (reconcile_orphaned_executing, sweep_runaways).
ExecutionSettles ==
  \A r \in Requests : status[r] = "executing" ~> status[r] # "executing"

\* An approved request is picked up, refused or withdrawn: it does not wait for
\* ever (resubmit_approved_on_boot).
ApprovedPickedUp ==
  \A r \in Requests : status[r] = "approved" ~> status[r] # "approved"

\* Once the kill switch stays off, a scheduled request is dispatched or cancelled
\* (dispatch_due: "They flow through naturally once kill switch returns to off").
ScheduledDispatched ==
  <>[]~killSwitch =>
    \A r \in Requests : status[r] = "scheduled" ~> status[r] # "scheduled"

\* The row moves only as RequestContract allows: no execution that is not
\* preceded by an approval, one start, one change.
Contract ==
  INSTANCE RequestContract WITH
    Requests <- Requests, status <- status, starts <- starts, applied <- applied
ImplementsContract == Contract!Spec

-----------------------------------------------------------------------------
(* What the code's comments say of it, and the code does not do.            *)

\* "The switch is on before this runs, so no new query starts while it works"
\* (kill_switch.stop_running_reads).
NoStartWhileSweeping ==
  [][(\E p \in Procs : sweep[p]) => starts' = starts]_vars

\* "the atomic claim and execution-time re-authorization in _run make
\* re-submission idempotent" (executor.resubmit_approved_on_boot): a request
\* that was started never reads "Not run: ...".
ResubmissionIdempotent ==
  \A r \in Requests : starts[r] > 0 => error[r] # "not_run"

\* "The change IS applied, so record the row 'completed' - never 'failed'"
\* (executor._complete_with_delivery_warning): a worker that saw its autocommit
\* change return never leaves the row failed.
CommittedNeverFailed ==
  \A p \in Procs, r \in Requests :
    task[p][r].pc = "over" /\ task[p][r].committed => status[r] # "failed"

\* "it stays 'approved' and the next process start will run it"
\* (executor.submit): after a process starts, some pool holds every approved row.
StartPicksUpApproved ==
  [][\A p \in Procs, r \in Requests :
       proc[p] = "down" /\ proc'[p] = "up" /\ status'[r] = "approved" =>
         \E q \in Procs : task'[q][r].pc # "idle"]_vars

\* "a timeout or a cancel: not retried" (replicas.is_fallback_error): once the
\* watchdog stopped a request, no new session is opened for it.
RunawayNotRerun ==
  [][\A r \in Requests :
       error[r] = "runaway" /\ session[r].at = "none" =>
         session'[r].at = "none"]_vars

\* "the remedy has to reach the actual backend rather than only rewrite the
\* row" (cancellation.sweep_runaways).
RunawayReached ==
  \A r \in Requests :
    error[r] = "runaway" => session[r].at = "none" \/ session[r].sig # "none"

=============================================================================
