----------------------------- MODULE ReplicaRouting -----------------------------
(***************************************************************************)
(* Where the read-only requests of one person run: on the primary or on a  *)
(* read replica, by the automatic rules or by a super-admin's choice       *)
(* (replicas.py; its callers in executor._run).                            *)
(*                                                                         *)
(* Several workers of one process share the cache of health checks.  The   *)
(* primary's log is the sequence of its commits, with their times; a       *)
(* replica has replayed a part of it.  Replicas stop replaying and are     *)
(* promoted when they like; one that is away is a check or a read that     *)
(* fails.                                                                  *)
(*                                                                         *)
(* Abstracted: routing is on, the target is PostgreSQL and the statement   *)
(* reads nothing about its server; the grants stand.                       *)
(***************************************************************************)
EXTENDS Naturals, Sequences, FiniteSets

CONSTANTS
  Replicas,     \* 1..n: the enabled replicas, in the order of their ids
  Workers,      \* threads that run the person's reads
  Window,       \* replica_read_your_writes_minutes
  MaxLag,       \* replica_max_lag_seconds
  Ttl,          \* replica_health_ttl_seconds
  MaxProbe,     \* _CONNECT_TIMEOUT_SEC and _PROBE_TIMEOUT_MS
  MaxRun,       \* the longest run of a write (query_timeout_sec)
  MaxCommits,   \* bound: commits on the primary
  MaxTime       \* bound: moments

\* Assumed of the constants where the module is instantiated.
ReplicaRoutingAssumption ==
  /\ IsFiniteSet(Replicas) /\ Replicas = 1..Cardinality(Replicas)
  /\ {Window, MaxLag, Ttl, MaxProbe, MaxRun, MaxCommits, MaxTime} \subseteq Nat

VARIABLES
  now,
  log,      \* the primary's commits
  write,    \* when the person's running write started, Never when none runs
  started,  \* requests.executed_at of the person's last write
  replica,  \* the servers
  cache,    \* _health: the last check of each replica
  work      \* what each worker does

vars == <<now, log, write, started, replica, cache, work>>

Never   == MaxTime + 1
Time    == 0..MaxTime
Primary == 0
Server  == [pos : 0..MaxCommits, recovering : BOOLEAN]
Check   == [at : Time \cup {Never}, ok : BOOLEAN]
Unchecked == [at |-> Never, ok |-> FALSE]

\* `at` is a candidate while a worker chooses, and then the server it runs on;
\* `since` is when it began to choose; `lsn` and `took` belong to a probe.
Idle == [step |-> "idle", chosen |-> FALSE, at |-> Primary, since |-> 0, lsn |-> 0, took |-> 0]
Work == [step : {"idle", "choose", "probe", "run"}, chosen : BOOLEAN,
         at : Replicas \cup {Primary}, since : Time, lsn : 0..MaxCommits, took : Time]

TypeOK ==
  /\ now \in Time
  /\ log \in UNION {[1..n -> [own : BOOLEAN, at : Time]] : n \in 0..MaxCommits}
  /\ write \in Time \cup {Never} /\ started \in Time \cup {Never}
  /\ replica \in [Replicas -> Server]
  /\ cache \in [Replicas -> Check]
  /\ work \in [Workers -> Work]

Init ==
  /\ now = 0 /\ log = <<>> /\ write = Never /\ started = Never
  /\ replica = [r \in Replicas |-> [pos |-> 0, recovering |-> TRUE]]
  /\ cache = [r \in Replicas |-> Unchecked]
  /\ work = [w \in Workers |-> Idle]

(***************************************************************************)
(* The servers.                                                            *)
(***************************************************************************)
StartWrite ==
  /\ write = Never
  /\ write' = now /\ started' = now
  /\ UNCHANGED <<now, log, replica, cache, work>>

Commit(own) ==
  /\ Len(log) < MaxCommits
  /\ log' = Append(log, [own |-> own, at |-> now])
  /\ IF own THEN write # Never /\ write' = Never ELSE UNCHANGED write
  /\ UNCHANGED <<now, started, replica, cache, work>>

Change(r, server) ==
  /\ replica' = [replica EXCEPT ![r] = server]
  /\ UNCHANGED <<now, log, write, started, cache, work>>

Replay(r)  == replica[r].recovering /\ replica[r].pos < Len(log)
              /\ Change(r, [replica[r] EXCEPT !.pos = @ + 1])
Promote(r) == replica[r].recovering /\ Change(r, [replica[r] EXCEPT !.recovering = FALSE])

(***************************************************************************)
(* Choosing.                                                               *)
(***************************************************************************)
Fresh(w) == [work[w] EXCEPT !.lsn = 0, !.took = 0]

Set(w, step, new) == work' = [work EXCEPT ![w] = [new EXCEPT !.step = step]]

\* Mutant: the window is measured from the wrong end.
WroteRecentlyNot == started # Never /\ started + Window <= now

WroteRecently == Window > 0 /\ started # Never /\ started + Window > now

\* choose: rule 4, and then the first candidate.
Choose(w) ==
  /\ work[w] = Idle
  /\ IF WroteRecently \/ Replicas = {}
     THEN Set(w, "run", [Idle EXCEPT !.since = now])
     ELSE Set(w, "choose", [Idle EXCEPT !.since = now, !.at = 1])
  /\ UNCHANGED <<now, log, write, started, replica, cache>>

\* A super-admin names a replica; no rule but its own check applies.
ChooseOne(w, r) ==
  /\ work[w] = Idle
  /\ Set(w, "choose", [Idle EXCEPT !.at = r, !.chosen = TRUE])
  /\ UNCHANGED <<now, log, write, started, replica, cache>>

\* An unhealthy candidate leaves the next one, and at last the primary; the
\* request of a super-admin fails instead.
Judged(w, ok) ==
  IF ok THEN Set(w, "run", Fresh(w))
  ELSE IF work[w].chosen THEN Set(w, "idle", Idle)
  ELSE IF work[w].at + 1 \in Replicas THEN Set(w, "choose", [Fresh(w) EXCEPT !.at = @ + 1])
  ELSE Set(w, "run", [Fresh(w) EXCEPT !.at = Primary])

\* Mutant: a check is trusted until the replica fails a read.
TrustedOn(r) == cache[r].at # Never

Trusted(r) == cache[r].at # Never /\ now < cache[r].at + Ttl

\* health: one check serves every worker for a while.
Hit(w) ==
  /\ work[w].step = "choose" /\ ~work[w].chosen /\ Trusted(work[w].at)
  /\ Judged(w, cache[work[w].at].ok)
  /\ UNCHANGED <<now, log, write, started, replica, cache>>

\* _probe reads the primary's position first.
ProbePrimary(w) ==
  /\ work[w].step = "choose" /\ (work[w].chosen \/ ~Trusted(work[w].at))
  /\ Set(w, "probe", [work[w] EXCEPT !.lsn = IF work[w].chosen THEN 0 ELSE Len(log), !.took = now])
  /\ UNCHANGED <<now, log, write, started, replica, cache>>

CaughtUp(w, r) == replica[r].pos >= work[w].lsn

\* What a replica says of itself: that it is still a replica, and the age of
\* the last commit it replayed unless it has replayed what the primary had.
Healthy(w, r) ==
  /\ replica[r].recovering
  /\ \/ work[w].chosen
     \/ CaughtUp(w, r)
     \/ replica[r].pos > 0 /\ log[replica[r].pos].at + MaxLag >= now

\* Either server may be unreachable.  The answer is stamped when it is stored,
\* over whatever another worker has stored meanwhile; the check of a chosen
\* replica is not stored.
ProbeReplica(w) ==
  /\ work[w].step = "probe"
  /\ \E ok \in {FALSE, Healthy(w, work[w].at)} :
       /\ cache' = IF work[w].chosen THEN cache ELSE [cache EXCEPT ![work[w].at] = [at |-> now, ok |-> ok]]
       /\ Judged(w, ok)
  /\ UNCHANGED <<now, log, write, started, replica>>

(***************************************************************************)
(* Running.                                                                *)
(***************************************************************************)
Run(w) ==
  /\ work[w].step = "run"
  /\ Set(w, "idle", Idle)
  /\ UNCHANGED <<now, log, write, started, replica, cache>>

\* is_fallback_error: the replica is away, or cancels the read to go on
\* replaying.  It is not asked again for a while; the read runs on the primary,
\* or fails when somebody chose the replica.
ReplicaFails(w) ==
  /\ work[w].step = "run" /\ work[w].at # Primary
  /\ cache' = [cache EXCEPT ![work[w].at] = [at |-> now, ok |-> FALSE]]
  /\ IF work[w].chosen THEN Set(w, "idle", Idle) ELSE Set(w, "run", [work[w] EXCEPT !.at = Primary])
  /\ UNCHANGED <<now, log, write, started, replica>>

\* A probe ends within its timeouts and a write within its own.
Tick ==
  /\ now < MaxTime
  /\ \A w \in Workers : work[w].step = "probe" => now < work[w].took + MaxProbe
  /\ write # Never => now < write + MaxRun
  /\ now' = now + 1
  /\ UNCHANGED <<log, write, started, replica, cache, work>>

Next ==
  \/ StartWrite
  \/ \E own \in BOOLEAN : Commit(own)
  \/ \E r \in Replicas : Replay(r) \/ Promote(r)
  \/ \E w \in Workers :
       \/ Choose(w)
       \/ \E r \in Replicas : ChooseOne(w, r)
       \/ Hit(w)
       \/ ProbePrimary(w)
       \/ ProbeReplica(w)
       \/ Run(w)
       \/ ReplicaFails(w)
  \/ Tick

Spec == Init /\ [][Next]_vars

(***************************************************************************)
(* Properties.                                                             *)
(***************************************************************************)
\* The reads that the automatic rules have sent to a replica, and the commits
\* that such a read misses if it runs now.
Routed    == {w \in Workers : work[w].step = "run" /\ ~work[w].chosen /\ work[w].at # Primary}
Missed(w) == {log[i] : i \in (replica[work[w].at].pos + 1)..Len(log)}

\* An answer misses no commit that was older, when its server was chosen, than
\* the allowed lag and the time a check is trusted and may take, whatever the
\* replicas did meanwhile and whichever worker checked (replicas.py, rule 5).
StalenessBounded ==
  \A w \in Routed : \A c \in Missed(w) : c.at + MaxLag + Ttl + MaxProbe >= work[w].since

\* A person reads back what their own write changed (replicas.py, rule 4: "a
\* SELECT that checks an UPDATE the same person just ran reads it back, instead
\* of a replica that may not have it yet").
ReadsOwnWrites ==
  \A w \in Routed : \A c \in Missed(w) : c.own => c.at >= work[w].since

=============================================================================
