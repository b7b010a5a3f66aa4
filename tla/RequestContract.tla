--------------------------- MODULE RequestContract ---------------------------
(***************************************************************************)
(* What QueryHub promises of a request, whoever writes its row: the        *)
(* statuses it may go through, that it is started at most once, and that   *)
(* its change reaches the target only after it was started, once.          *)
(*                                                                         *)
(* One step may move several requests: a scheduler tick dispatches a batch,*)
(* an edited resubmission withdraws its original.  RequestLifecycle        *)
(* implements this specification.                                          *)
(***************************************************************************)
EXTENDS Naturals

CONSTANT Requests

VARIABLES
  status,   \* requests.status; "absent" before the INSERT
  starts,   \* how often an execution was started
  applied   \* how often the change was committed on the target

vars == <<status, starts, applied>>

Status == {"absent", "pending", "changes_requested", "approved", "scheduled",
           "executing", "awaiting_dba_manual", "completed", "failed",
           "rejected", "cancelled"}

\* Before anything ran: submitted (already decided or not), decided, withdrawn,
\* dispatched, or refused just before it would have run.
Waiting ==
  ({"absent"} \X {"pending", "approved", "scheduled"}) \cup
  ({"pending"} \X {"approved", "scheduled", "rejected", "changes_requested"}) \cup
  ({"pending", "changes_requested", "approved", "scheduled"} \X {"cancelled"}) \cup
  ({"scheduled"} \X {"approved"}) \cup
  ({"approved"} \X {"failed"})

\* Once started: a verdict.  "failed" may be a stop's or a sweep's, which the
\* worker does not wait for: its own verdict may still replace it.
Started ==
  ({"executing"} \X {"completed", "failed", "awaiting_dba_manual"}) \cup
  ({"awaiting_dba_manual"} \X {"completed", "failed"}) \cup
  ({"failed"} \X {"completed", "awaiting_dba_manual"})

Init ==
  /\ status  = [r \in Requests |-> "absent"]
  /\ starts  = [r \in Requests |-> 0]
  /\ applied = [r \in Requests |-> 0]

Stutter(r) ==
  /\ status'[r] = status[r] /\ starts'[r] = starts[r] /\ applied'[r] = applied[r]

Move(r) ==
  /\ \/ starts[r] = 0 /\ <<status[r], status'[r]>> \in Waiting
     \/ starts[r] = 1 /\ <<status[r], status'[r]>> \in Started
  /\ starts'[r] = starts[r] /\ applied'[r] = applied[r]

Start(r) ==
  /\ status[r] = "approved" /\ starts[r] = 0
  /\ status'[r] = "executing" /\ starts'[r] = 1
  /\ applied'[r] = applied[r]

Apply(r) ==
  /\ status[r] \in {"executing", "failed", "awaiting_dba_manual", "completed"}
  /\ starts[r] = 1 /\ applied[r] = 0
  /\ applied'[r] = 1
  /\ status'[r] = status[r] /\ starts'[r] = starts[r]

Next ==
  /\ \A r \in Requests : Stutter(r) \/ Move(r) \/ Start(r) \/ Apply(r)
  /\ status'  \in [Requests -> Status]
  /\ starts'  \in [Requests -> Nat]
  /\ applied' \in [Requests -> Nat]

Spec == Init /\ [][Next]_vars
=============================================================================
