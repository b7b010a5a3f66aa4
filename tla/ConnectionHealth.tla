--------------------------- MODULE ConnectionHealth ---------------------------
(***************************************************************************)
(* The check of the connections on a timer (connection_health.py).         *)
(*                                                                         *)
(* Runs of the scheduled job read the whole table, check what is due and   *)
(* store each result as it arrives.  One run holds an advisory lock; it    *)
(* may die.  Meanwhile admins enable, disable and look.                    *)
(*                                                                         *)
(* Abstracted: the check of a target is one answer; its error and latency  *)
(* are left out; the check is on and excludes no engine.                   *)
(***************************************************************************)
EXTENDS Naturals

CONSTANTS
  Targets,
  Runs,         \* runs of the job, of which two may be started together
  Interval,     \* connection_health_interval_sec less the allowance
  MaxTime       \* bound: moments

\* Assumed of the constants where the module is instantiated.
ConnectionHealthAssumption == {Interval, MaxTime} \subseteq Nat

VARIABLES
  now,
  enabled,      \* target_servers.enabled
  row,          \* connection_health
  run,          \* what each run is doing, and what it has read
  trouble       \* when the failures that were stored began, Never without any

vars == <<now, enabled, row, run, trouble>>

Time   == 0..MaxTime
Never  == MaxTime + 1
Row    == [known : BOOLEAN, ok : BOOLEAN, checked : Time, since : Time \cup {Never}]
Absent == [known |-> FALSE, ok |-> FALSE, checked |-> 0, since |-> Never]
Off    == [held |-> FALSE, read |-> [t \in Targets |-> Absent], todo |-> {}]

TypeOK ==
  /\ now \in Time
  /\ enabled \subseteq Targets
  /\ row \in [Targets -> Row]
  /\ \A t \in Targets : row[t].known => (row[t].ok <=> row[t].since = Never)
  /\ run \in [Runs -> [held : BOOLEAN, read : [Targets -> Row], todo : SUBSET Targets]]
  /\ trouble \in [Targets -> Time \cup {Never}]

Init ==
  /\ now = 0
  /\ enabled = {}
  /\ row = [t \in Targets |-> Absent]
  /\ run = [r \in Runs |-> Off]
  /\ trouble = [t \in Targets |-> Never]

\* Mutant: two runs may overlap.
LockFreeAlways == TRUE

LockFree == \A r \in Runs : ~run[r].held

Due(t) == ~row[t].known \/ now >= row[t].checked + Interval

Gone == {t \in Targets : t \notin enabled /\ row[t].known}

\* run_lock, load, plan and the deletion of what is out of scope.
Start(r) ==
  /\ ~run[r].held /\ LockFree
  /\ run' = [run EXCEPT ![r] = [held |-> TRUE, read |-> row, todo |-> {t \in enabled : Due(t)}]]
  /\ row' = [t \in Targets |-> IF t \in Gone THEN Absent ELSE row[t]]
  /\ trouble' = [t \in Targets |-> IF t \in Gone THEN Never ELSE trouble[t]]
  /\ UNCHANGED <<now, enabled>>

\* next_failing_since
NextFailingSince(prev, ok) ==
  CASE ok                                            -> Never
    [] ~ok /\ prev.known /\ ~prev.ok /\ prev.since # Never -> prev.since
    [] OTHER                                         -> now

\* A check that takes too long is a failure.
Save(r, t, ok) ==
  /\ t \in run[r].todo
  /\ row' = [row EXCEPT ![t] = [known |-> TRUE, ok |-> ok, checked |-> now,
                                since |-> NextFailingSince(run[r].read[t], ok)]]
  /\ trouble' = [trouble EXCEPT ![t] = IF ok THEN Never ELSE IF @ = Never THEN now ELSE @]
  /\ run' = [run EXCEPT ![r].todo = @ \ {t}]
  /\ UNCHANGED <<now, enabled>>

\* The result is not stored.
Lose(r, t) ==
  /\ t \in run[r].todo
  /\ run' = [run EXCEPT ![r].todo = @ \ {t}]
  /\ UNCHANGED <<now, enabled, row, trouble>>

\* The run ends, or dies: its session, and the lock with it.
End(r) ==
  /\ run[r].held
  /\ run' = [run EXCEPT ![r] = Off]
  /\ UNCHANGED <<now, enabled, row, trouble>>

Toggle(t) ==
  /\ enabled' = IF t \in enabled THEN enabled \ {t} ELSE enabled \cup {t}
  /\ UNCHANGED <<now, row, run, trouble>>

Tick ==
  /\ now < MaxTime
  /\ now' = now + 1
  /\ UNCHANGED <<enabled, row, run, trouble>>

Next ==
  \/ \E r \in Runs :
       \/ Start(r)
       \/ \E t \in Targets : Lose(r, t) \/ \E ok \in BOOLEAN : Save(r, t, ok)
       \/ End(r)
  \/ \E t \in Targets : Toggle(t)
  \/ Tick

Spec == Init /\ [][Next]_vars

(***************************************************************************)
(* Properties.                                                             *)
(***************************************************************************)
\* The list shows when a connection really began to fail: the first failure that
\* was stored since its last answer, whatever runs died or overlapped
\* (connection_health.next_failing_since).
FailingSinceTrue == \A t \in Targets : row[t].known => row[t].since = trouble[t]

=============================================================================
