-------------------------------- MODULE DbPool --------------------------------
(***************************************************************************)
(* The pool of connections to the control database, and its connection     *)
(* again after a failure (db.py).                                          *)
(*                                                                         *)
(* Threads ask for the pool; the first that finds none connects, for at    *)
(* most some seconds, and the others wait for it.  A pool that is open     *)
(* mends its own connections, so the model ends there.                     *)
(***************************************************************************)
EXTENDS Naturals

CONSTANTS
  Threads,
  Cooldown,     \* RETRY_COOLDOWN_SEC, at least one moment like the others
  RetryWait,    \* RETRY_WAIT_SEC
  FirstWait     \* _FIRST_WAIT_SEC

\* Assumed of the constants where the module is instantiated.
DbPoolAssumption ==
  {Cooldown, RetryWait, FirstWait} \subseteq Nat /\ 1 <= Cooldown /\ RetryWait <= FirstWait

VARIABLES
  up,           \* the control database answers
  pool,         \* _pool: none, open, or one that psycopg_pool has closed
  failed,       \* the age of _connect_failed_at, Long when it is None or older
  thread,       \* what each thread does
  waited,       \* how long each thread has been asking
  trying        \* how long the attempt that runs has taken

vars == <<up, pool, failed, thread, waited, trying>>

Long == Cooldown
Tries == {"first", "retry"}

TypeOK ==
  /\ up \in BOOLEAN
  /\ pool \in {"none", "open", "closed"}
  /\ failed \in [known : BOOLEAN, age : 0..Long]
  /\ thread \in [Threads -> {"idle", "ask", "over"} \cup Tries]
  /\ waited \in [Threads -> Nat] /\ trying \in 0..FirstWait

Init ==
  /\ up = FALSE
  /\ pool = "none"
  /\ failed = [known |-> FALSE, age |-> Long]
  /\ thread = [t \in Threads |-> "idle"]
  /\ waited = [t \in Threads |-> 0] /\ trying = 0

\* _init_lock is held by the thread that connects.
Locked == \E t \in Threads : thread[t] \in Tries

Set(t, step) == thread' = [thread EXCEPT ![t] = step]
Answer(t)    == Set(t, "over") /\ waited' = [waited EXCEPT ![t] = 0]

\* A query, at most one of a thread in each moment; with a pool it is not this
\* module's.
Ask(t) ==
  /\ thread[t] = "idle" /\ pool = "none"
  /\ Set(t, "ask")
  /\ UNCHANGED <<up, pool, failed, waited, trying>>

Cool == failed.known /\ failed.age < Cooldown

CanEnsure(t) == thread[t] = "ask" /\ ~Locked

\* _ensure_pool, under the lock: another thread has connected meanwhile, the
\* query fails at once, or the thread connects itself.
Ensure(t) ==
  /\ CanEnsure(t)
  /\ IF pool # "none" \/ Cool
     THEN Answer(t) /\ UNCHANGED trying
     ELSE Set(t, IF failed.known THEN "retry" ELSE "first") /\ trying' = 0 /\ UNCHANGED waited
  /\ UNCHANGED <<up, pool, failed>>

\* Mutant: a retry has no limit of its own, and the pool's is longer.
WaitOfPool(t) == FirstWait + 1

WaitOf(t) == IF thread[t] = "first" THEN FirstWait ELSE RetryWait

\* Mutant: the pool that did not come up is kept.
FailedPoolKept == "closed"

FailedPool == "none"

\* init_pool: pool.wait comes back, or raises when its time is over.
Connect(t) ==
  /\ thread[t] \in Tries
  /\ \/ up /\ pool' = "open" /\ failed' = [known |-> FALSE, age |-> Long]
     \/ ~up /\ trying = WaitOf(t)
        /\ pool' = FailedPool /\ failed' = [known |-> TRUE, age |-> 0]
  /\ Answer(t) /\ trying' = 0
  /\ UNCHANGED up

DatabaseChange ==
  /\ up' = ~up
  /\ UNCHANGED <<pool, failed, thread, waited, trying>>

\* A thread that can take the lock takes it, and a wait ends when it is over.
Tick ==
  /\ \A t \in Threads : ~CanEnsure(t) /\ (thread[t] \in Tries => trying < WaitOf(t))
  /\ failed' = [failed EXCEPT !.age = IF @ < Long THEN @ + 1 ELSE @]
  /\ waited' = [t \in Threads |-> IF thread[t] \in {"idle", "over"} THEN 0 ELSE waited[t] + 1]
  /\ thread' = [t \in Threads |-> IF thread[t] = "over" THEN "idle" ELSE thread[t]]
  /\ trying' = IF Locked THEN trying + 1 ELSE 0
  /\ UNCHANGED <<up, pool>>

Thread(t) == Ask(t) \/ Ensure(t) \/ Connect(t)

Next == (\E t \in Threads : Thread(t)) \/ DatabaseChange \/ Tick

\* Queries come, time passes, and a thread that can go on does.
Fairness == WF_vars(Tick) /\ \A t \in Threads : WF_vars(Thread(t))

Spec == Init /\ [][Next]_vars /\ Fairness

(***************************************************************************)
(* Properties.                                                             *)
(***************************************************************************)
\* No thread asks for longer than one attempt may take, be it its own or
\* another's: it never waits for one and then makes another (db.py: "a
\* busy outage does not pile every worker thread onto a connect that cannot
\* work").
OneWait == \A t \in Threads : waited[t] <= FirstWait

\* Once the database stays up, the process gets its pool (db.py: "The process
\* must not stay broken until someone restarts it").
Recovers == <>[]up => <>(pool = "open")
=============================================================================
