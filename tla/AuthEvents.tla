----------------------------- MODULE AuthEvents -----------------------------
(***************************************************************************)
(* The outbox of authorization changes: a trigger captures every change of *)
(* an authorization table, and a poller turns the rows into direct         *)
(* messages.  The bot and the web API may each run a poller.               *)
(*                                                                         *)
(* A pass is one transaction: it locks the first rows nobody else has      *)
(* locked, builds every message, sends one message to each person for all  *)
(* that concerns them, and then marks its rows.  The messages go out       *)
(* before the commit: a process that dies in between leaves the rows as    *)
(* they were.                                                              *)
(***************************************************************************)
EXTENDS Naturals, FiniteSets

CONSTANTS
  Events,       \* row ids: the sequence hands them out, commits may come in any order
  People,
  Pollers,
  Kind,         \* what an event is about
  Subject,      \* the person a personal event is about
  Limit,        \* rows of a pass
  MaxAttempts,  \* _MAX_ATTEMPTS
  MaxMoves,     \* changes of the team
  MaxCrashes,
  NoPass

Kinds == {"person", "team", "quiet", "bad", "nobody"}

\* Assumed of the constants where the module is instantiated.
OutboxAssumption ==
  /\ Events \subseteq Nat /\ IsFiniteSet(Events)
  /\ Kind \in [Events -> Kinds] /\ Subject \in [Events -> People]
  /\ Limit \in Nat \ {0} /\ MaxAttempts \in Nat \ {0}
  /\ MaxMoves \in Nat /\ MaxCrashes \in Nat
  /\ NoPass \notin [batch : SUBSET Events, audience : UNION {[b -> SUBSET People] : b \in SUBSET Events},
                    left : SUBSET People, failed : SUBSET People]

VARIABLES
  row,      \* auth_event_outbox
  team,     \* the members of the team that team events are about
  pass,     \* the open transaction of each poller
  told,     \* <<event, person>>: the message reached the person
  moves, crashes

vars == <<row, team, pass, told, moves, crashes>>

RowState == [state: {"absent", "pending", "processed"}, attempts: 0..MaxAttempts]

TypeOK ==
  /\ row \in [Events -> RowState]
  /\ team \subseteq People
  /\ \A p \in Pollers :
       pass[p] = NoPass \/
         /\ pass[p].batch \in SUBSET Events
         /\ pass[p].audience \in [pass[p].batch -> SUBSET People]
         /\ pass[p].left \subseteq People /\ pass[p].failed \subseteq People
  /\ told \subseteq Events \X People
  /\ moves \in 0..MaxMoves /\ crashes \in 0..MaxCrashes

Init ==
  /\ row = [e \in Events |-> [state |-> "absent", attempts |-> 0]]
  /\ team \in SUBSET People
  /\ pass = [p \in Pollers |-> NoPass]
  /\ told = {} /\ moves = 0 /\ crashes = 0

(***************************************************************************)
(* The writers.                                                            *)
(***************************************************************************)
Capture(e) ==
  /\ row[e].state = "absent"
  /\ row' = [row EXCEPT ![e].state = "pending"]
  /\ UNCHANGED <<team, pass, told, moves, crashes>>

Move(u) ==
  /\ moves < MaxMoves /\ moves' = moves + 1
  /\ team' = IF u \in team THEN team \ {u} ELSE team \cup {u}
  /\ UNCHANGED <<row, pass, told, crashes>>

(***************************************************************************)
(* A pass.                                                                 *)
(***************************************************************************)
Locked == UNION {pass[p].batch : p \in {x \in Pollers : pass[x] # NoPass}}

\* ORDER BY id LIMIT ... FOR UPDATE SKIP LOCKED.
\* Mutant: without SKIP LOCKED and without the lock.
BatchOfAny ==
  LET open == {e \in Events : row[e].state = "pending"}
  IN {e \in open : Cardinality({f \in open : f < e}) < Limit}

Batch ==
  LET open == {e \in Events : row[e].state = "pending"} \ Locked
  IN {e \in open : Cardinality({f \in open : f < e}) < Limit}

\* build_notifications: the people an event is for, as they are now.  A person
\* without a Slack identity leaves a note for nobody.
Audience(e) == CASE Kind[e] = "person" -> {Subject[e]}
                 [] Kind[e] = "team"   -> team
                 [] OTHER              -> {}

Read(p) ==
  /\ pass[p] = NoPass
  /\ Batch # {}
  /\ pass' = [pass EXCEPT ![p] =
       [batch    |-> Batch,
        audience |-> [e \in Batch |-> Audience(e)],
        left     |-> UNION {Audience(e) : e \in Batch},
        failed   |-> {}]]
  /\ UNCHANGED <<row, team, told, moves, crashes>>

For(p, u) == {e \in pass[p].batch : u \in pass[p].audience[e]}

Send(p, u) ==
  /\ pass[p] # NoPass /\ u \in pass[p].left
  /\ pass' = [pass EXCEPT ![p].left = @ \ {u}]
  /\ told' = told \cup (For(p, u) \X {u})
  /\ UNCHANGED <<row, team, moves, crashes>>

SendFails(p, u) ==
  /\ pass[p] # NoPass /\ u \in pass[p].left
  /\ pass' = [pass EXCEPT ![p].left = @ \ {u}, ![p].failed = @ \cup {u}]
  /\ UNCHANGED <<row, team, told, moves, crashes>>

Failed(p, e) == Kind[e] = "bad" \/ pass[p].audience[e] \cap pass[p].failed # {}

\* No note at all: nothing a person could see.
Quiet(p, e) == Kind[e] = "quiet" \/ (Kind[e] = "team" /\ pass[p].audience[e] = {})

Sent(p, e) == pass[p].audience[e] \ pass[p].failed # {}

\* _fail: one more attempt, and at the last one the row is given up.
Charged(r) == [attempts |-> r.attempts + 1,
               state    |-> IF r.attempts + 1 >= MaxAttempts THEN "processed" ELSE "pending"]

Done(r) == [attempts |-> r.attempts + 1, state |-> "processed"]

\* Mutant: who was reached is asked before who was not.
MarkedIfReached(p, e) ==
  IF Quiet(p, e) \/ Sent(p, e) THEN Done(row[e])
  ELSE IF Failed(p, e) THEN Charged(row[e])
  ELSE row[e]

\* Mutant: giving up is left to a person.
MarkedNeverParked(p, e) ==
  IF Failed(p, e) THEN [row[e] EXCEPT !.attempts = IF @ + 1 < MaxAttempts THEN @ + 1 ELSE @]
  ELSE IF Quiet(p, e) \/ Sent(p, e) THEN Done(row[e])
  ELSE row[e]

\* Failed for anybody: retried whole.  Sent to everybody, or nothing to send:
\* done.  A row whose only note is for nobody is none of the three.
Marked(p, e) ==
  IF Failed(p, e) THEN Charged(row[e])
  ELSE IF Quiet(p, e) \/ Sent(p, e) THEN Done(row[e])
  ELSE row[e]

Commit(p) ==
  /\ pass[p] # NoPass /\ pass[p].left = {}
  /\ row' = [e \in Events |-> IF e \in pass[p].batch THEN Marked(p, e) ELSE row[e]]
  /\ pass' = [pass EXCEPT ![p] = NoPass]
  /\ UNCHANGED <<team, told, moves, crashes>>

\* The process dies, or the transaction's connection does.
Crash(p) ==
  /\ pass[p] # NoPass
  /\ crashes < MaxCrashes /\ crashes' = crashes + 1
  /\ pass' = [pass EXCEPT ![p] = NoPass]
  /\ UNCHANGED <<row, team, told, moves>>

Pass(p) ==
  \/ Read(p)
  \/ \E u \in People : Send(p, u) \/ SendFails(p, u)
  \/ Commit(p)

Next ==
  \/ \E e \in Events : Capture(e)
  \/ \E u \in People : Move(u)
  \/ \E p \in Pollers : Pass(p) \/ Crash(p)

Spec == Init /\ [][Next]_vars

\* The poller is a loop that nothing but the death of its process ends
\* (poll_loop), and its process is started again.
Fairness == \A p \in Pollers : WF_vars(Pass(p))

FairSpec == Spec /\ Fairness

(***************************************************************************)
(* Properties.                                                             *)
(***************************************************************************)
Settles(e) == row'[e].state = "processed" /\ row[e].state # "processed"

\* A row leaves the queue only when everyone it was for has been told, over all
\* of its attempts, or when its attempts are used up: a partial failure, a crash
\* and another poller never make a message disappear (process_pending: "one
\* that failed for ANY of them is retried whole").
ToldOrGivenUp ==
  [][\A p \in Pollers : \A e \in Events :
       Settles(e) /\ pass[p] # NoPass /\ e \in pass[p].batch
         => \/ {e} \X pass[p].audience[e] \subseteq told
            \/ row'[e].attempts = MaxAttempts]_vars

\* Nobody is told the same thing twice but after a failed attempt or a dead
\* process: two pollers never send one row (process_pending: "a concurrent run
\* can't double-send").
RepeatsHaveACause ==
  [][\A p \in Pollers : \A u \in People :
       pass[p] # NoPass /\ pass'[p] # NoPass /\ u \in pass[p].left \ pass'[p].left
         => \A e \in For(p, u) : <<e, u>> \in told => row[e].attempts > 0 \/ crashes > 0]_vars

\* What is captured is settled in the end: sent, found to be quiet, or given up
\* (process_pending, _fail; "rows failing repeatedly are parked").
EveryRowSettles == \A e \in Events : row[e].state = "pending" ~> row[e].state = "processed"

\* A row nobody can be told about does not keep the others from being sent
\* (auth_events.py:15, "so a bad row can't wedge the queue").
BadRowsDoNotWedge ==
  \A e \in Events : Kind[e] = "person" /\ row[e].state = "pending" ~> row[e].state = "processed"
=============================================================================
