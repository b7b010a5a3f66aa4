-------------------------- MODULE ReplicaRoutingProofs --------------------------
(***************************************************************************)
(* Theorems about ReplicaRouting, for any replicas, workers and timeouts,  *)
(* and about its composition with WebSessions in MCWebSessions.            *)
(*                                                                         *)
(* What a replica has not replayed only grows by commits that are younger  *)
(* than every check made so far, so that what a check has found, of the    *)
(* age of the oldest commit that is missing, stays true of the replica.    *)
(* A person reads back their own write because that age is shorter than    *)
(* what is left of the window when the longest write has ended.            *)
(***************************************************************************)
EXTENDS MCWebSessions, WebSessionsProofs, FiniteSetTheorems

(***************************************************************************)
(* The inductive invariant.                                                *)
(***************************************************************************)
\* Of the commits after position p none is older than x, less m.
Late(p, m, x) == \A i \in DOMAIN log : i > p => log[i].at + m >= x

\* The person's own writes were over by s, or had been for long.
Settled(s) == \A i \in DOMAIN log : log[i].own /\ log[i].at < s => log[i].at + WriteWindow <= s + MaxRun

\* Commits are in the order of their times, and a replica replays only them.
LogInv ==
  /\ \A i, j \in DOMAIN log : i <= j => log[i].at <= log[j].at
  /\ \A i \in DOMAIN log : log[i].at <= clock
  /\ \A r \in Replicas : replica[r].pos <= Len(log)

\* A write ends within its time, and the last one to start is the last to end.
WriteInv ==
  /\ started # Reads!Never => started <= clock
  /\ write # Reads!Never => write = started /\ clock <= write + MaxRun
  /\ \A i \in DOMAIN log : log[i].own => started # Reads!Never /\ log[i].at <= started + MaxRun

\* A good check was true, and is, of what was missing when it was made.
CacheInv(r) ==
  cache[r].at # Reads!Never =>
    cache[r].at <= clock /\ (cache[r].ok => Late(replica[r].pos, MaxLag + MaxProbe, cache[r].at))

\* What a worker knows of the server it has come to.
WorkInv(k) ==
  /\ k.since <= clock
  /\ k.step \in {"choose", "probe"} => k.at \in Replicas
  /\ k.step = "probe" =>
       /\ k.took <= clock /\ clock <= k.took + MaxProbe
       /\ ~k.chosen => Late(k.lsn, 0, k.took)
  /\ ~k.chosen /\ k.at # Reads!Primary => Settled(k.since)
  /\ k.step = "run" /\ ~k.chosen /\ k.at # Reads!Primary =>
       Late(replica[k.at].pos, MaxLag + Ttl + MaxProbe, k.since)

ReadsInv ==
  /\ Reads!TypeOK
  /\ LogInv
  /\ WriteInv
  /\ \A r \in Replicas : CacheInv(r)
  /\ \A w \in Workers : WorkInv(work[w])

(***************************************************************************)
(* Lemmas about the constants, the records and the log.                    *)
(***************************************************************************)
LEMMA ReadsNumbers ==
  /\ WriteWindow \in Nat /\ MaxLag \in Nat /\ Ttl \in Nat /\ MaxProbe \in Nat /\ MaxRun \in Nat
  /\ MaxCommits \in Nat /\ ReadTime \in Nat /\ Reads!Never \in Nat /\ Reads!Never \notin Reads!Time
  /\ Replicas \subseteq Nat \ {0} /\ (Replicas # {} => 1 \in Replicas)
<1>1. IsFiniteSet(Replicas) /\ Replicas = 1..Cardinality(Replicas)
  <2>1. Reads!IsFiniteSet(Replicas) => IsFiniteSet(Replicas)
    BY DEF IsFiniteSet, Reads!IsFiniteSet
  <2>2. Reads!Cardinality(Replicas) = Cardinality(Replicas)
    BY DEF Cardinality, Reads!Cardinality
  <2>3. QED
    BY <2>1, <2>2, ReadsAssumption DEF Reads!ReplicaRoutingAssumption
<1>2. PICK n \in Nat : Replicas = 1..n
  BY <1>1, FS_CardinalityType
<1>3. QED
  BY <1>2, ReadsAssumption DEF Reads!ReplicaRoutingAssumption, Reads!Never, Reads!Time

Steps     == {"idle", "choose", "probe", "run"}
Places    == Replicas \cup {Reads!Primary}
Positions == 0..MaxCommits

LEMMA ReadsNames ==
  /\ "idle" \in Steps /\ "choose" \in Steps /\ "probe" \in Steps /\ "run" \in Steps
  /\ Reads!Primary \in Places /\ (\A r \in Replicas : r \in Places) /\ 0 \in Positions /\ 0 \in Reads!Time
  BY ReadsNumbers DEF Steps, Places, Positions, Reads!Time

To(k, s)         == [k EXCEPT !.step = s]
On(k, a)         == [k EXCEPT !.at = a]
Probing(k, l, t) == [k EXCEPT !.lsn = l, !.took = t]

LEMMA SetStep ==
  ASSUME NEW k \in Reads!Work, NEW s \in Steps
  PROVE  /\ To(k, s) \in Reads!Work /\ To(k, s).step = s /\ To(k, s).chosen = k.chosen /\ To(k, s).at = k.at
         /\ To(k, s).since = k.since /\ To(k, s).lsn = k.lsn /\ To(k, s).took = k.took
  BY DEF Reads!Work, Steps, To

LEMMA SetAt ==
  ASSUME NEW k \in Reads!Work, NEW a \in Places
  PROVE  On(k, a) \in Reads!Work /\ On(k, a).at = a /\ On(k, a).chosen = k.chosen /\ On(k, a).since = k.since
  BY DEF Reads!Work, Places, On

LEMMA SetProbe ==
  ASSUME NEW k \in Reads!Work, NEW l \in Positions, NEW t \in Reads!Time
  PROVE  /\ Probing(k, l, t) \in Reads!Work /\ Probing(k, l, t).lsn = l /\ Probing(k, l, t).took = t
         /\ Probing(k, l, t).chosen = k.chosen /\ Probing(k, l, t).at = k.at
         /\ Probing(k, l, t).since = k.since
  BY DEF Reads!Work, Positions, Probing

LEMMA IdleWork ==
  /\ Reads!Idle \in Reads!Work /\ Reads!Idle.at = Reads!Primary /\ Reads!Idle.since = 0
  /\ Reads!Idle.step = "idle" /\ ~Reads!Idle.chosen
  BY ReadsNumbers DEF Reads!Idle, Reads!Work, Reads!Time

Entry == [own : BOOLEAN, at : Reads!Time]

LEMMA LogFacts ==
  ASSUME Reads!TypeOK
  PROVE  /\ log \in Seq(Entry) /\ Len(log) \in 0..MaxCommits /\ DOMAIN log = 1..Len(log)
         /\ \A i \in DOMAIN log : log[i].own \in BOOLEAN /\ log[i].at \in Nat
         /\ clock \in Nat /\ clock <= ReadTime
<1>1. PICK n \in 0..MaxCommits : log \in [1..n -> Entry]
  BY DEF Reads!TypeOK, Entry
<1>2. n \in Nat /\ log \in Seq(Entry)
  BY <1>1, SeqDef, ReadsNumbers
<1>3. Len(log) = n /\ DOMAIN log = 1..n
  BY <1>1, <1>2, LenProperties
<1>4. \A i \in DOMAIN log : log[i] \in Entry
  BY <1>1, <1>3
<1>5. QED
  BY <1>2, <1>3, <1>4, ReadsNumbers DEF Entry, Reads!Time, Reads!TypeOK

\* One more commit, at this moment.
LEMMA LogGrows ==
  ASSUME Reads!TypeOK, Len(log) < MaxCommits, NEW c \in Entry, log' = Append(log, c)
  PROVE  /\ log' \in UNION {[1..n -> Entry] : n \in 0..MaxCommits}
         /\ Len(log') = Len(log) + 1 /\ DOMAIN log' = 1..(Len(log) + 1)
         /\ \A i \in DOMAIN log : log'[i] = log[i]
         /\ log'[Len(log) + 1] = c
<1>1. log \in Seq(Entry) /\ Len(log) \in Nat /\ DOMAIN log = 1..Len(log)
  BY LogFacts, ReadsNumbers
<1>2. /\ log' \in Seq(Entry) /\ Len(log') = Len(log) + 1
      /\ \A i \in 1..Len(log) : log'[i] = log[i]
      /\ log'[Len(log) + 1] = c
  BY <1>1, AppendProperties
<1>3. log' \in [1..Len(log') -> Entry] /\ DOMAIN log' = 1..Len(log')
  BY <1>2, LenProperties
<1>4. Len(log') \in 0..MaxCommits
  BY <1>1, <1>2, ReadsNumbers
<1>5. QED
  BY <1>1, <1>2, <1>3, <1>4

\* What holds of the commits a position misses holds of a later position's.
LEMMA LateAfter ==
  ASSUME Reads!TypeOK, NEW p \in Nat, NEW q \in Nat, p <= q, NEW m, NEW x, Late(p, m, x)
  PROVE  Late(q, m, x)
<1>1. DOMAIN log \subseteq Nat
  BY LogFacts
<1>2. QED
  BY <1>1 DEF Late

LEMMA LateGrows ==
  ASSUME Reads!TypeOK, Len(log) < MaxCommits, NEW c \in Entry, c.at = clock,
         log' = Append(log, c), NEW p, NEW m \in Nat, NEW x \in Nat, x <= clock + m, Late(p, m, x)
  PROVE  Late(p, m, x)'
<1>1. /\ DOMAIN log' = 1..(Len(log) + 1) /\ DOMAIN log = 1..Len(log) /\ Len(log) \in Nat
      /\ \A i \in DOMAIN log : log'[i] = log[i]
      /\ log'[Len(log) + 1] = c
  BY LogGrows, LogFacts, ReadsNumbers
<1>2. ASSUME NEW i \in DOMAIN log', i > p PROVE log'[i].at + m >= x
  <2>1. CASE i \in DOMAIN log
    BY <1>1, <1>2, <2>1 DEF Late
  <2>2. CASE i = Len(log) + 1
    BY <1>1, <2>2
  <2>3. QED
    BY <1>1, <2>1, <2>2
<1>3. QED
  BY <1>2 DEF Late

(***************************************************************************)
(* The servers and time.                                                   *)
(***************************************************************************)
LEMMA ReadsInit == Reads!Init => ReadsInv
<1> SUFFICES ASSUME Reads!Init PROVE ReadsInv
  OBVIOUS
<1>1. log = <<>> /\ Len(log) = 0 /\ DOMAIN log = {}
  BY DEF Reads!Init
<1>2. log \in [1..0 -> Entry]
  BY <1>1
<1>3. log \in UNION {[1..n -> Entry] : n \in 0..MaxCommits}
  BY <1>2, ReadsNumbers
<1>4. Reads!TypeOK
  <2>1. 0 \in Reads!Time /\ 0 \in 0..MaxCommits
    BY ReadsNumbers DEF Reads!Time
  <2>2. clock \in Reads!Time /\ write \in Reads!Time \cup {Reads!Never}
        /\ started \in Reads!Time \cup {Reads!Never}
    BY <2>1 DEF Reads!Init
  <2>3. replica \in [Replicas -> Reads!Server]
    <3>1. [pos |-> 0, recovering |-> TRUE] \in Reads!Server
      BY <2>1 DEF Reads!Server
    <3>2. QED
      BY <3>1 DEF Reads!Init
  <2>4. cache \in [Replicas -> Reads!Check]
    <3>1. Reads!Unchecked \in Reads!Check
      BY DEF Reads!Unchecked, Reads!Check
    <3>2. QED
      BY <3>1 DEF Reads!Init
  <2>5. work \in [Workers -> Reads!Work]
    BY IdleWork DEF Reads!Init
  <2>6. QED
    BY <1>3, <2>2, <2>3, <2>4, <2>5 DEF Reads!TypeOK, Entry
<1>5. \A w \in Workers : work[w] = Reads!Idle
  BY DEF Reads!Init
<1>6. clock = 0 /\ \A w \in Workers : WorkInv(work[w])
  BY <1>5, IdleWork DEF Reads!Init, WorkInv
<1>7. QED
  BY <1>1, <1>4, <1>6 DEF Reads!Init, ReadsInv, LogInv, WriteInv, CacheInv, Reads!Unchecked

LEMMA StartWriteKeeps ==
  ASSUME ReadsInv, Reads!StartWrite
  PROVE  ReadsInv'
<1>1. write' = clock /\ started' = clock /\ UNCHANGED <<clock, log, replica, cache, work>>
  BY DEF Reads!StartWrite
<1>2. Reads!TypeOK'
  BY <1>1 DEF ReadsInv, Reads!TypeOK
<1>3. clock \in Nat /\ \A i \in DOMAIN log : log[i].at \in Nat /\ log[i].at <= clock
  BY LogFacts DEF ReadsInv, LogInv
<1>4. clock # Reads!Never
  BY ReadsNumbers DEF ReadsInv, Reads!TypeOK
<1>5. WriteInv'
  BY <1>1, <1>3, <1>4, ReadsNumbers DEF WriteInv
<1>6. LogInv' /\ (\A r \in Replicas : CacheInv(r)') /\ (\A w \in Workers : WorkInv(work[w])')
  BY <1>1 DEF ReadsInv, LogInv, CacheInv, WorkInv, Late, Settled
<1>7. QED
  BY <1>2, <1>5, <1>6 DEF ReadsInv

LEMMA CommitKeeps ==
  ASSUME ReadsInv, NEW own \in BOOLEAN, Reads!Commit(own)
  PROVE  ReadsInv'
<1>0. clock \in Reads!Time /\ clock \in Nat
  BY LogFacts DEF ReadsInv, Reads!TypeOK
<1>1. PICK c \in Entry : c = [own |-> own, at |-> clock] /\ c.own = own /\ c.at = clock
  <2>1. [own |-> own, at |-> clock] \in Entry
    BY <1>0 DEF Entry
  <2>2. QED
    BY <2>1
<1>2. /\ Len(log) < MaxCommits /\ log' = Append(log, c)
      /\ own => write # Reads!Never /\ write' = Reads!Never
      /\ ~own => write' = write
      /\ UNCHANGED <<clock, started, replica, cache, work>>
  BY <1>1 DEF Reads!Commit
<1>3. Reads!TypeOK
  BY DEF ReadsInv
<1>4. /\ log' \in UNION {[1..n -> Entry] : n \in 0..MaxCommits}
      /\ Len(log') = Len(log) + 1 /\ DOMAIN log' = 1..(Len(log) + 1)
      /\ \A i \in DOMAIN log : log'[i] = log[i]
      /\ log'[Len(log) + 1] = c
  BY <1>2, <1>3, LogGrows
<1>5. /\ Len(log) \in Nat /\ DOMAIN log = 1..Len(log)
      /\ \A i \in DOMAIN log : log[i].at \in Nat /\ log[i].at <= clock
  BY <1>3, LogFacts, ReadsNumbers DEF ReadsInv, LogInv
<1>6. Reads!TypeOK'
  BY <1>2, <1>3, <1>4 DEF Reads!TypeOK, Entry
<1>7. LogInv'
  <2>1. \A i, j \in DOMAIN log' : i <= j => log'[i].at <= log'[j].at
    BY <1>0, <1>1, <1>4, <1>5 DEF ReadsInv, LogInv
  <2>2. \A i \in DOMAIN log' : log'[i].at <= clock
    BY <1>0, <1>1, <1>4, <1>5
  <2>3. \A r \in Replicas : replica[r].pos <= Len(log) + 1
    <3>1. \A r \in Replicas : replica[r].pos \in Nat /\ replica[r].pos <= Len(log)
      BY <1>3, ReadsNumbers DEF Reads!TypeOK, Reads!Server, ReadsInv, LogInv
    <3>2. QED
      BY <1>5, <3>1
  <2>4. QED
    BY <1>2, <1>4, <2>1, <2>2, <2>3 DEF LogInv
<1>8. WriteInv'
  <2>1. own => started # Reads!Never /\ clock <= started + MaxRun
    BY <1>2 DEF ReadsInv, WriteInv
  <2>2. \A i \in DOMAIN log' : log'[i].own => started # Reads!Never /\ log'[i].at <= started + MaxRun
    BY <1>1, <1>4, <1>5, <2>1 DEF ReadsInv, WriteInv
  <2>3. QED
    BY <1>2, <2>2 DEF ReadsInv, WriteInv
<1>9. ASSUME NEW r \in Replicas PROVE CacheInv(r)'
  <2>1. PICK p, x : p = replica[r].pos /\ x = cache[r].at
    OBVIOUS
  <2>2. x # Reads!Never => x \in Nat
    BY <1>3, <2>1, ReadsNumbers DEF Reads!TypeOK, Reads!Check, Reads!Time
  <2>3. x # Reads!Never => x <= clock /\ (cache[r].ok => Late(p, MaxLag + MaxProbe, x))
    BY <2>1 DEF ReadsInv, CacheInv
  <2>4. x # Reads!Never /\ cache[r].ok => Late(p, MaxLag + MaxProbe, x)'
    BY <1>0, <1>1, <1>2, <1>3, <2>2, <2>3, LateGrows, ReadsNumbers
  <2>5. QED
    BY <1>2, <2>1, <2>3, <2>4 DEF CacheInv
<1>10. ASSUME NEW w \in Workers PROVE WorkInv(work[w])'
  <2>1. PICK k \in Reads!Work : k = work[w]
    BY <1>3 DEF Reads!TypeOK
  <2>2. WorkInv(k) /\ k.since \in Nat /\ k.took \in Nat
    BY <2>1, ReadsNumbers DEF ReadsInv, Reads!Work, Reads!Time
  <2>3. k.step = "probe" /\ ~k.chosen => Late(k.lsn, 0, k.took)'
    BY <1>0, <1>1, <1>2, <1>3, <2>2, LateGrows DEF WorkInv
  <2>4. Settled(k.since) => Settled(k.since)'
    BY <1>0, <1>1, <1>4, <1>5, <2>2 DEF Settled, WorkInv
  <2>5. PICK p : p = replica[k.at].pos
    OBVIOUS
  <2>6. k.since <= clock + (MaxLag + Ttl + MaxProbe)
    BY <1>0, <2>2, ReadsNumbers DEF WorkInv
  <2>7. Late(p, MaxLag + Ttl + MaxProbe, k.since) => Late(p, MaxLag + Ttl + MaxProbe, k.since)'
    <3>1. PICK m \in Nat : m = MaxLag + Ttl + MaxProbe
      BY ReadsNumbers
    <3>2. Late(p, m, k.since) => Late(p, m, k.since)'
      BY <1>1, <1>2, <1>3, <2>2, <2>6, <3>1, LateGrows
    <3>3. QED
      BY <3>1, <3>2
  <2>8. WorkInv(k)'
    BY <1>2, <2>2, <2>3, <2>4, <2>5, <2>7 DEF WorkInv
  <2>9. QED
    BY <1>2, <2>1, <2>8
<1>11. QED
  BY <1>6, <1>7, <1>8, <1>9, <1>10 DEF ReadsInv

\* A replica replays, or is promoted.
LEMMA ChangeKeeps ==
  ASSUME ReadsInv, NEW r \in Replicas, Reads!Replay(r) \/ Reads!Promote(r)
  PROVE  ReadsInv'
<1>0. Reads!TypeOK /\ replica[r] \in Reads!Server /\ Len(log) \in Nat /\ Len(log) <= MaxCommits
  BY LogFacts, ReadsNumbers DEF ReadsInv, Reads!TypeOK
<1>1. PICK s \in Reads!Server : /\ Reads!Change(r, s) /\ replica[r].pos <= s.pos /\ s.pos <= Len(log)
  <2>1. CASE Reads!Replay(r)
    <3>1. [replica[r] EXCEPT !.pos = @ + 1] \in Reads!Server /\ [replica[r] EXCEPT !.pos = @ + 1].pos = replica[r].pos + 1
      BY <1>0, <2>1, ReadsNumbers DEF Reads!Replay, Reads!Server
    <3>2. QED
      BY <1>0, <2>1, <3>1, ReadsNumbers DEF Reads!Replay, Reads!Server
  <2>2. CASE Reads!Promote(r)
    <3>1. [replica[r] EXCEPT !.recovering = FALSE] \in Reads!Server
          /\ [replica[r] EXCEPT !.recovering = FALSE].pos = replica[r].pos
      BY <1>0 DEF Reads!Server
    <3>2. QED
      BY <1>0, <2>2, <3>1, ReadsNumbers DEF Reads!Promote, Reads!Server, ReadsInv, LogInv
  <2>3. QED
    BY <2>1, <2>2
<1>2. replica' = [replica EXCEPT ![r] = s] /\ UNCHANGED <<clock, log, write, started, cache, work>>
  BY <1>1 DEF Reads!Change
<1>3. Reads!TypeOK'
  BY <1>0, <1>2 DEF Reads!TypeOK
<1>4. \A q \in Replicas : replica[q].pos \in Nat /\ replica'[q].pos \in Nat /\ replica[q].pos <= replica'[q].pos
  <2>1. \A q \in Replicas : replica[q] \in Reads!Server /\ replica'[q] = IF q = r THEN s ELSE replica[q]
    BY <1>0, <1>2 DEF Reads!TypeOK
  <2>2. \A x \in Reads!Server : x.pos \in Nat
    BY ReadsNumbers DEF Reads!Server
  <2>3. QED
    BY <1>1, <2>1, <2>2
<1>5. LogInv'
  BY <1>0, <1>1, <1>2 DEF ReadsInv, LogInv, Reads!TypeOK
<1>6. ASSUME NEW q \in Replicas, NEW m, NEW x, Late(replica[q].pos, m, x)
      PROVE  Late(replica[q].pos, m, x)'
  <2>1. PICK p \in Nat, n \in Nat : p = replica[q].pos /\ n = replica'[q].pos /\ p <= n
    BY <1>4
  <2>2. Late(n, m, x)
    BY <1>0, <1>6, <2>1, LateAfter
  <2>3. QED
    BY <1>2, <2>1, <2>2 DEF Late
<1>7. ASSUME NEW q \in Replicas PROVE CacheInv(q)'
  <2>1. PICK x : x = cache[q].at
    OBVIOUS
  <2>2. x # Reads!Never => x <= clock /\ (cache[q].ok => Late(replica[q].pos, MaxLag + MaxProbe, x))
    BY <2>1 DEF ReadsInv, CacheInv
  <2>3. x # Reads!Never /\ cache[q].ok => Late(replica[q].pos, MaxLag + MaxProbe, x)'
    BY <1>6, <2>2
  <2>4. QED
    BY <1>2, <2>1, <2>2, <2>3 DEF CacheInv
<1>8. ASSUME NEW w \in Workers PROVE WorkInv(work[w])'
  <2>1. PICK k \in Reads!Work : k = work[w]
    BY <1>0 DEF Reads!TypeOK
  <2>2. WorkInv(k)
    BY <2>1 DEF ReadsInv
  <2>3. k.at # Reads!Primary => k.at \in Replicas
    BY DEF Reads!Work
  <2>4. k.step = "run" /\ ~k.chosen /\ k.at # Reads!Primary => Late(replica[k.at].pos, MaxLag + Ttl + MaxProbe, k.since)'
    BY <1>6, <2>2, <2>3 DEF WorkInv
  <2>5. WorkInv(k)'
    BY <1>2, <2>2, <2>4 DEF WorkInv, Late, Settled
  <2>6. QED
    BY <1>2, <2>1, <2>5
<1>9. QED
  BY <1>2, <1>3, <1>5, <1>7, <1>8 DEF ReadsInv, WriteInv

LEMMA ReadsTick ==
  ASSUME ReadsInv, Reads!Tick
  PROVE  ReadsInv'
<1>1. /\ clock < ReadTime /\ clock' = clock + 1
      /\ \A w \in Workers : work[w].step = "probe" => clock < work[w].took + MaxProbe
      /\ write # Reads!Never => clock < write + MaxRun
      /\ UNCHANGED <<log, write, started, replica, cache, work>>
  BY DEF Reads!Tick
<1>2. Reads!TypeOK /\ clock \in Nat /\ \A i \in DOMAIN log : log[i].at \in Nat
  BY LogFacts DEF ReadsInv
<1>3. Reads!TypeOK'
  BY <1>1, <1>2, ReadsNumbers DEF Reads!TypeOK, Reads!Time
<1>4. LogInv'
  BY <1>1, <1>2 DEF ReadsInv, LogInv
<1>5. /\ started \in Nat /\ write \in Nat
      /\ \A r \in Replicas : cache[r].at \in Nat
      /\ \A w \in Workers : work[w].since \in Nat /\ work[w].took \in Nat
  BY <1>2, ReadsNumbers DEF Reads!TypeOK, Reads!Check, Reads!Work, Reads!Time
<1>6. WriteInv'
  BY <1>1, <1>2, <1>5, ReadsNumbers DEF ReadsInv, WriteInv
<1>7. \A r \in Replicas : CacheInv(r)'
  BY <1>1, <1>2, <1>5 DEF ReadsInv, CacheInv, Late
<1>8. ASSUME NEW w \in Workers PROVE WorkInv(work[w])'
  <2>1. PICK k \in Reads!Work : k = work[w] /\ k.since \in Nat /\ k.took \in Nat
    BY <1>2, <1>5 DEF Reads!TypeOK
  <2>2. WorkInv(k) /\ (k.step = "probe" => clock < k.took + MaxProbe)
    BY <1>1, <2>1 DEF ReadsInv
  <2>3. WorkInv(k)'
    BY <1>1, <1>2, <2>1, <2>2, ReadsNumbers DEF WorkInv, Late, Settled
  <2>4. QED
    BY <1>1, <2>1, <2>3
<1>9. QED
  BY <1>3, <1>4, <1>6, <1>7, <1>8 DEF ReadsInv

(***************************************************************************)
(* The workers.                                                            *)
(***************************************************************************)
\* Worker w comes to k; what was checked may be stored.
LEMMA WorkerMoves ==
  ASSUME ReadsInv, NEW w \in Workers, NEW k \in Reads!Work, WorkInv(k), work' = [work EXCEPT ![w] = k],
         UNCHANGED <<clock, log, write, started, replica>>,
         cache' \in [Replicas -> Reads!Check], \A r \in Replicas : CacheInv(r)'
  PROVE  ReadsInv'
<1>1. Reads!TypeOK'
  BY DEF ReadsInv, Reads!TypeOK
<1>2. WorkInv(k)'
  BY DEF WorkInv, Late, Settled
<1>3. ASSUME NEW v \in Workers PROVE WorkInv(work[v])'
  <2>1. CASE v = w
    BY <1>2, <2>1 DEF ReadsInv, Reads!TypeOK
  <2>2. CASE v # w
    <3>1. PICK x : x = work[v] /\ x = work'[v]
      BY <2>2 DEF ReadsInv, Reads!TypeOK
    <3>2. WorkInv(x)'
      BY <3>1 DEF ReadsInv, WorkInv, Late, Settled
    <3>3. QED
      BY <3>1, <3>2
  <2>3. QED
    BY <2>1, <2>2
<1>4. QED
  BY <1>1, <1>3 DEF ReadsInv, LogInv, WriteInv

LEMMA CacheKept ==
  ASSUME ReadsInv, UNCHANGED <<clock, log, replica, cache>>
  PROVE  cache' \in [Replicas -> Reads!Check] /\ \A r \in Replicas : CacheInv(r)'
  BY DEF ReadsInv, Reads!TypeOK, CacheInv, Late

\* Before the automatic rules look for a replica, the person's writes have settled.
LEMMA SettledNow ==
  ASSUME ReadsInv, ~Reads!WroteRecently
  PROVE  Settled(clock)
<1>1. clock \in Nat /\ \A i \in DOMAIN log : log[i].at \in Nat /\ log[i].at <= clock
  BY LogFacts DEF ReadsInv, LogInv
<1>2. started \in Nat
  BY ReadsNumbers DEF ReadsInv, Reads!TypeOK, Reads!Time
<1>3. WriteWindow = 0 \/ started = Reads!Never \/ started + WriteWindow <= clock
  BY <1>1, <1>2, ReadsNumbers DEF Reads!WroteRecently
<1>4. QED
  BY <1>1, <1>2, <1>3, ReadsNumbers DEF Settled, ReadsInv, WriteInv

LEMMA ChooseKeeps ==
  ASSUME ReadsInv, NEW w \in Workers, Reads!Choose(w)
  PROVE  ReadsInv'
<1>0. clock \in Reads!Time /\ clock \in Nat
  BY LogFacts DEF ReadsInv, Reads!TypeOK
<1>1. UNCHANGED <<clock, log, write, started, replica, cache>>
  BY DEF Reads!Choose
<1>2. PICK k \in Reads!Work : WorkInv(k) /\ work' = [work EXCEPT ![w] = k]
  <2>1. CASE Reads!WroteRecently \/ Replicas = {}
    <3> DEFINE k == [[Reads!Idle EXCEPT !.since = clock] EXCEPT !.step = "run"]
    <3>1. k \in Reads!Work /\ k.since = clock /\ k.step = "run" /\ k.at = Reads!Primary
      BY <1>0, IdleWork DEF Reads!Idle, Reads!Work
    <3>2. work' = [work EXCEPT ![w] = k]
      BY <2>1 DEF Reads!Choose, Reads!Set
    <3> HIDE DEF k
    <3>3. WorkInv(k)
      BY <1>0, <3>1 DEF WorkInv
    <3>4. QED
      BY <3>1, <3>2, <3>3
  <2>2. CASE ~(Reads!WroteRecently \/ Replicas = {})
    <3> DEFINE k == [[Reads!Idle EXCEPT !.since = clock, !.at = 1] EXCEPT !.step = "choose"]
    <3>1. 1 \in Replicas
      BY <2>2, ReadsNumbers
    <3>2. k \in Reads!Work /\ k.since = clock /\ k.step = "choose" /\ k.at = 1
      BY <1>0, <3>1, ReadsNumbers, IdleWork DEF Reads!Idle, Reads!Work, Reads!Time
    <3>3. work' = [work EXCEPT ![w] = k]
      BY <2>2 DEF Reads!Choose, Reads!Set
    <3> HIDE DEF k
    <3>4. Settled(clock)
      BY <2>2, SettledNow
    <3>5. WorkInv(k)
      BY <1>0, <3>1, <3>2, <3>4 DEF WorkInv
    <3>6. QED
      BY <3>2, <3>3, <3>5
  <2>3. QED
    BY <2>1, <2>2
<1>3. QED
  BY <1>1, <1>2, CacheKept, WorkerMoves

LEMMA ChooseOneKeeps ==
  ASSUME ReadsInv, NEW w \in Workers, NEW r \in Replicas, Reads!ChooseOne(w, r)
  PROVE  ReadsInv'
<1>1. clock \in Nat
  BY LogFacts DEF ReadsInv
<1> DEFINE k == [[Reads!Idle EXCEPT !.at = r, !.chosen = TRUE] EXCEPT !.step = "choose"]
<1>2. k \in Reads!Work /\ k.since = 0 /\ k.step = "choose" /\ k.at = r /\ k.chosen
  BY ReadsNumbers, IdleWork DEF Reads!Idle, Reads!Work, Reads!Time
<1>3. work' = [work EXCEPT ![w] = k] /\ UNCHANGED <<clock, log, write, started, replica, cache>>
  BY DEF Reads!ChooseOne, Reads!Set
<1> HIDE DEF k
<1>4. WorkInv(k)
  BY <1>1, <1>2 DEF WorkInv
<1>5. QED
  BY <1>2, <1>3, <1>4, CacheKept, WorkerMoves

\* A worker that is idle knows nothing.
LEMMA IdleInv ==
  ASSUME ReadsInv
  PROVE  WorkInv(To(Reads!Idle, "idle")) /\ To(Reads!Idle, "idle") \in Reads!Work
<1>1. clock \in Nat
  BY LogFacts DEF ReadsInv
<1>2. PICK i \in Reads!Work : i = Reads!Idle /\ i.at = Reads!Primary /\ i.since = 0 /\ ~i.chosen
  BY IdleWork
<1>3. PICK k \in Reads!Work : k = To(i, "idle") /\ k.step = "idle" /\ k.at = i.at /\ k.since = i.since
  BY SetStep, ReadsNames
<1>4. WorkInv(k)
  BY <1>1, <1>2, <1>3 DEF WorkInv
<1>5. QED
  BY <1>2, <1>3, <1>4

\* A worker has the answer about its candidate, which is good of what is missing.
LEMMA JudgedWork ==
  ASSUME ReadsInv, NEW w \in Workers, work[w].step \in {"choose", "probe"},
         NEW ok \in BOOLEAN, Reads!Judged(w, ok),
         ok /\ ~work[w].chosen => Late(replica[work[w].at].pos, MaxLag + Ttl + MaxProbe, work[w].since)
  PROVE  \E k \in Reads!Work : WorkInv(k) /\ work' = [work EXCEPT ![w] = k]
<1>1. PICK j \in Reads!Work : j = work[w] /\ WorkInv(j)
  BY DEF ReadsInv, Reads!TypeOK
<1>2. PICK f \in Reads!Work : f = Reads!Fresh(w) /\ f.chosen = j.chosen /\ f.at = j.at /\ f.since = j.since
  <2>1. PICK f \in Reads!Work : /\ f = Probing(j, 0, 0)
                          /\ f.chosen = j.chosen /\ f.at = j.at /\ f.since = j.since
    BY SetProbe, ReadsNames
  <2>2. f = Reads!Fresh(w)
    BY <1>1, <2>1 DEF Reads!Fresh, Probing
  <2>3. QED
    BY <2>1, <2>2
<1>3. j.at \in Replicas /\ j.at # Reads!Primary
  BY <1>1, ReadsNumbers DEF WorkInv, Reads!Primary
<1>4. CASE ok
  <2>1. PICK k \in Reads!Work : /\ k = To(f, "run")
                          /\ k.step = "run" /\ k.chosen = j.chosen /\ k.at = j.at /\ k.since = j.since
    <3>1. PICK k \in Reads!Work : /\ k = To(f, "run")
                            /\ k.step = "run" /\ k.chosen = f.chosen /\ k.at = f.at /\ k.since = f.since
      BY SetStep, ReadsNames
    <3>2. QED
      BY <1>2, <3>1
  <2>2. work' = [work EXCEPT ![w] = k]
    BY <1>2, <1>4, <2>1 DEF Reads!Judged, Reads!Set, To
  <2>3. WorkInv(k)
    BY <1>1, <1>3, <1>4, <2>1 DEF WorkInv
  <2>4. QED
    BY <2>2, <2>3
<1>5. CASE ~ok /\ j.chosen
  BY <1>1, <1>5, IdleInv DEF Reads!Judged, Reads!Set, To
<1>6. CASE ~ok /\ ~j.chosen /\ j.at + 1 \in Replicas
  <2>1. PICK g \in Reads!Work : /\ g = On(f, j.at + 1)
                          /\ g.chosen = f.chosen /\ g.at = j.at + 1 /\ g.since = f.since
    BY <1>2, <1>6, SetAt, ReadsNames
  <2>2. PICK k \in Reads!Work : /\ k = To(g, "choose")
                          /\ k.step = "choose" /\ k.chosen = j.chosen /\ k.at = j.at + 1 /\ k.since = j.since
    <3>1. PICK k \in Reads!Work : /\ k = To(g, "choose")
                            /\ k.step = "choose" /\ k.chosen = g.chosen /\ k.at = g.at /\ k.since = g.since
      BY SetStep, ReadsNames
    <3>2. QED
      BY <1>2, <2>1, <3>1
  <2>3. g = [Reads!Fresh(w) EXCEPT !.at = @ + 1]
    BY <1>2, <2>1 DEF On
  <2>4. work' = [work EXCEPT ![w] = k]
    BY <1>1, <1>6, <2>2, <2>3 DEF Reads!Judged, Reads!Set, To
  <2>5. WorkInv(k)
    BY <1>1, <1>3, <1>6, <2>2 DEF WorkInv
  <2>6. QED
    BY <2>4, <2>5
<1>7. CASE ~ok /\ ~j.chosen /\ j.at + 1 \notin Replicas
  <2>1. PICK g \in Reads!Work : /\ g = On(f, Reads!Primary)
                          /\ g.chosen = f.chosen /\ g.at = Reads!Primary /\ g.since = f.since
    BY <1>2, SetAt, ReadsNames
  <2>2. PICK k \in Reads!Work : /\ k = To(g, "run")
                          /\ k.step = "run" /\ k.at = Reads!Primary /\ k.since = j.since
    <3>1. PICK k \in Reads!Work : /\ k = To(g, "run") /\ k.step = "run" /\ k.at = g.at /\ k.since = g.since
      BY SetStep, ReadsNames
    <3>2. QED
      BY <1>2, <2>1, <3>1
  <2>3. work' = [work EXCEPT ![w] = k]
    BY <1>1, <1>2, <1>7, <2>1, <2>2 DEF Reads!Judged, Reads!Set, To, On
  <2>4. WorkInv(k)
    BY <1>1, <2>2 DEF WorkInv
  <2>5. QED
    BY <2>3, <2>4
<1>8. QED
  BY <1>1, <1>4, <1>5, <1>6, <1>7

\* A check that is trusted is younger than Ttl.
LEMMA HitKeeps ==
  ASSUME ReadsInv, NEW w \in Workers, Reads!Hit(w)
  PROVE  ReadsInv'
<1>1. /\ work[w].step = "choose" /\ ~work[w].chosen /\ Reads!Trusted(work[w].at)
      /\ Reads!Judged(w, cache[work[w].at].ok)
      /\ UNCHANGED <<clock, log, write, started, replica, cache>>
  BY DEF Reads!Hit
<1>2. PICK j \in Reads!Work : j = work[w] /\ WorkInv(j) /\ j.at \in Replicas
  BY <1>1 DEF ReadsInv, Reads!TypeOK, WorkInv
<1>3. PICK c \in Reads!Check : c = cache[j.at]
  BY <1>2 DEF ReadsInv, Reads!TypeOK
<1>4. c.at # Reads!Never /\ clock < c.at + Ttl /\ c.at \in Nat /\ c.ok \in BOOLEAN
  BY <1>1, <1>2, <1>3, ReadsNumbers DEF Reads!Trusted, Reads!Check, Reads!Time
<1>5. clock \in Nat /\ j.since \in Nat /\ j.since <= clock /\ \A i \in DOMAIN log : log[i].at \in Nat
  BY <1>2, LogFacts, ReadsNumbers DEF ReadsInv, WorkInv, Reads!Work, Reads!Time
<1>6. c.ok => Late(replica[j.at].pos, MaxLag + Ttl + MaxProbe, j.since)
  <2>1. c.ok => Late(replica[j.at].pos, MaxLag + MaxProbe, c.at)
    BY <1>2, <1>3, <1>4 DEF ReadsInv, CacheInv
  <2>2. QED
    BY <1>4, <1>5, <2>1, ReadsNumbers DEF Late
<1>7. \E k \in Reads!Work : WorkInv(k) /\ work' = [work EXCEPT ![w] = k]
  BY <1>1, <1>2, <1>3, <1>4, <1>6, JudgedWork
<1>8. QED
  BY <1>1, <1>7, CacheKept, WorkerMoves

LEMMA ProbePrimaryKeeps ==
  ASSUME ReadsInv, NEW w \in Workers, Reads!ProbePrimary(w)
  PROVE  ReadsInv'
<1>0. clock \in Nat /\ clock \in Reads!Time /\ Len(log) \in 0..MaxCommits /\ 0 \in 0..MaxCommits /\ DOMAIN log = 1..Len(log)
  BY LogFacts, ReadsNumbers DEF ReadsInv, Reads!TypeOK
<1>1. PICK j \in Reads!Work : j = work[w] /\ WorkInv(j) /\ j.step = "choose" /\ j.at \in Replicas
  BY DEF ReadsInv, Reads!TypeOK, WorkInv, Reads!ProbePrimary
<1>2. PICK l \in Positions : l = IF j.chosen THEN 0 ELSE Len(log)
  BY <1>0 DEF Positions
<1>3. PICK g \in Reads!Work : /\ g = Probing(j, l, clock)
                        /\ g.chosen = j.chosen /\ g.at = j.at /\ g.since = j.since /\ g.lsn = l /\ g.took = clock
  BY <1>0, SetProbe
<1>4. PICK k \in Reads!Work : /\ k = To(g, "probe")
                        /\ k.step = "probe" /\ k.chosen = j.chosen /\ k.at = j.at /\ k.since = j.since
                        /\ k.lsn = l /\ k.took = clock
  <2>1. PICK k \in Reads!Work : /\ k = To(g, "probe")
                          /\ k.step = "probe" /\ k.chosen = g.chosen /\ k.at = g.at /\ k.since = g.since
                          /\ k.lsn = g.lsn /\ k.took = g.took
    BY SetStep, ReadsNames
  <2>2. QED
    BY <1>3, <2>1
<1>5. work' = [work EXCEPT ![w] = k] /\ UNCHANGED <<clock, log, write, started, replica, cache>>
  BY <1>1, <1>2, <1>3, <1>4 DEF Reads!ProbePrimary, Reads!Set, To, Probing
<1>6. ~k.chosen => Late(k.lsn, 0, k.took)
  <2>1. Len(log) \in Nat
    BY <1>0, ReadsNumbers
  <2>2. \A i \in DOMAIN log : ~(i > Len(log))
    BY <1>0, <2>1
  <2>3. ~k.chosen => k.lsn = Len(log)
    BY <1>2, <1>4
  <2>4. Late(Len(log), 0, clock)
    BY <2>2 DEF Late
  <2>5. QED
    BY <1>4, <2>3, <2>4
<1>7. WorkInv(k)
  BY <1>0, <1>1, <1>4, <1>6, ReadsNumbers DEF WorkInv
<1>8. QED
  BY <1>5, <1>7, CacheKept, WorkerMoves

\* What a probe finds good misses nothing older than lag and probe.
LEMMA ProbeFinds ==
  ASSUME ReadsInv, NEW w \in Workers, work[w].step = "probe", ~work[w].chosen,
         Reads!Healthy(w, work[w].at)
  PROVE  Late(replica[work[w].at].pos, MaxLag + MaxProbe, clock)
<1>1. PICK j \in Reads!Work : j = work[w] /\ WorkInv(j) /\ j.at \in Replicas /\ j.took \in Nat /\ j.lsn \in Nat
  BY ReadsNumbers DEF ReadsInv, Reads!TypeOK, WorkInv, Reads!Work, Reads!Time
<1>2. PICK p \in Nat : p = replica[j.at].pos /\ p <= Len(log)
  <2>1. replica[j.at] \in Reads!Server
    BY <1>1 DEF ReadsInv, Reads!TypeOK
  <2>2. replica[j.at].pos \in Nat
    BY <2>1, ReadsNumbers DEF Reads!Server
  <2>3. QED
    BY <1>1, <2>2 DEF ReadsInv, LogInv
<1>3. clock \in Nat /\ DOMAIN log = 1..Len(log) /\ Len(log) \in Nat /\ \A i \in DOMAIN log : log[i].at \in Nat
  BY LogFacts, ReadsNumbers DEF ReadsInv
<1>a. PICK m \in Nat, b \in Nat : m = MaxLag /\ b = MaxProbe
  BY ReadsNumbers
<1>4. CASE p >= j.lsn
  <2>1. Late(j.lsn, 0, j.took) /\ clock <= j.took + MaxProbe
    BY <1>1 DEF WorkInv
  <2>2. ASSUME NEW i \in DOMAIN log, i > p PROVE log[i].at + (MaxLag + MaxProbe) >= clock
    <3>1. i > j.lsn /\ log[i].at \in Nat
      BY <1>1, <1>2, <1>3, <1>4, <2>2
    <3>2. log[i].at + 0 >= j.took
      BY <2>1, <3>1 DEF Late
    <3>3. PICK a \in Nat, t \in Nat : a = log[i].at /\ t = j.took
      BY <1>1, <3>1
    <3>4. a >= t /\ clock <= t + b
      BY <1>a, <2>1, <3>2, <3>3
    <3>5. a + (m + b) >= clock
      BY <1>3, <3>4
    <3>6. QED
      BY <1>a, <3>3, <3>5
  <2>3. QED
    BY <1>1, <1>2, <2>2 DEF Late
<1>5. CASE p > 0 /\ log[p].at + MaxLag >= clock
  <2>1. \A i \in DOMAIN log : i > p => log[p].at <= log[i].at
    BY <1>2, <1>3, <1>5 DEF ReadsInv, LogInv
  <2>2. log[p].at \in Nat
    BY <1>2, <1>3, <1>5
  <2>3. ASSUME NEW i \in DOMAIN log, i > p PROVE log[i].at + (MaxLag + MaxProbe) >= clock
    <3>1. log[p].at <= log[i].at /\ log[i].at \in Nat
      BY <1>3, <2>1, <2>3
    <3>2. PICK a \in Nat, t \in Nat : a = log[i].at /\ t = log[p].at
      BY <2>2, <3>1
    <3>3. t <= a /\ t + m >= clock
      BY <1>a, <1>5, <3>1, <3>2
    <3>4. a + (m + b) >= clock
      BY <1>3, <3>3
    <3>5. QED
      BY <1>a, <3>2, <3>4
  <2>4. QED
    BY <1>1, <1>2, <2>3 DEF Late
<1>6. QED
  BY <1>1, <1>2, <1>4, <1>5 DEF Reads!Healthy, Reads!CaughtUp

LEMMA ProbeReplicaKeeps ==
  ASSUME ReadsInv, NEW w \in Workers, Reads!ProbeReplica(w)
  PROVE  ReadsInv'
<1>1. PICK j \in Reads!Work : j = work[w] /\ WorkInv(j) /\ j.step = "probe" /\ j.at \in Replicas
  BY DEF ReadsInv, Reads!TypeOK, WorkInv, Reads!ProbeReplica
<1>2. PICK ok \in BOOLEAN :
        /\ ok => Reads!Healthy(w, j.at)
        /\ cache' = IF j.chosen THEN cache ELSE [cache EXCEPT ![j.at] = [at |-> clock, ok |-> ok]]
        /\ Reads!Judged(w, ok)
        /\ UNCHANGED <<clock, log, write, started, replica>>
  <2>1. Reads!Healthy(w, j.at) \in BOOLEAN
    BY DEF Reads!Healthy
  <2>2. QED
    BY <1>1, <2>1 DEF Reads!ProbeReplica
<1>3. clock \in Nat /\ clock \in Reads!Time /\ j.since \in Nat /\ j.since <= clock /\ \A i \in DOMAIN log : log[i].at \in Nat
  <2>1. clock \in Nat /\ clock \in Reads!Time /\ \A i \in DOMAIN log : log[i].at \in Nat
    BY LogFacts DEF ReadsInv, Reads!TypeOK
  <2>2. j.since \in Nat
    BY ReadsNumbers DEF Reads!Work, Reads!Time
  <2>3. QED
    BY <1>1, <2>1, <2>2 DEF WorkInv
<1>4. ok /\ ~j.chosen => Late(replica[j.at].pos, MaxLag + MaxProbe, clock)
  BY <1>1, <1>2, ProbeFinds
<1>5. ok /\ ~j.chosen => Late(replica[j.at].pos, MaxLag + Ttl + MaxProbe, j.since)
  BY <1>3, <1>4, ReadsNumbers DEF Late
<1>6. PICK k \in Reads!Work : WorkInv(k) /\ work' = [work EXCEPT ![w] = k]
  BY <1>1, <1>2, <1>5, JudgedWork
<1>7. cache' \in [Replicas -> Reads!Check] /\ \A r \in Replicas : CacheInv(r)'
  <2>1. CASE j.chosen
    BY <1>2, <2>1, CacheKept
  <2>2. CASE ~j.chosen
    <3>1. PICK c \in Reads!Check : c = [at |-> clock, ok |-> ok] /\ c.at = clock /\ c.ok = ok
      <4>1. [at |-> clock, ok |-> ok] \in Reads!Check
        BY <1>3 DEF Reads!Check
      <4>2. QED
        BY <4>1
    <3>2. cache' = [cache EXCEPT ![j.at] = c]
      BY <1>2, <2>2, <3>1
    <3>3. cache' \in [Replicas -> Reads!Check] /\ \A r \in Replicas : cache'[r] = IF r = j.at THEN c ELSE cache[r]
      BY <3>2 DEF ReadsInv, Reads!TypeOK
    <3>4. ASSUME NEW r \in Replicas, r = j.at PROVE CacheInv(r)'
      BY <1>2, <1>3, <1>4, <2>2, <3>1, <3>3, <3>4 DEF CacheInv, Late
    <3>5. ASSUME NEW r \in Replicas, r # j.at PROVE CacheInv(r)'
      BY <1>2, <3>3, <3>5 DEF ReadsInv, CacheInv, Late
    <3>6. QED
      BY <3>3, <3>4, <3>5
  <2>3. QED
    BY <2>1, <2>2
<1>8. QED
  BY <1>2, <1>6, <1>7, WorkerMoves

LEMMA RunKeeps ==
  ASSUME ReadsInv, NEW w \in Workers, Reads!Run(w)
  PROVE  ReadsInv'
<1>1. /\ work' = [work EXCEPT ![w] = To(Reads!Idle, "idle")]
      /\ UNCHANGED <<clock, log, write, started, replica, cache>>
  BY DEF Reads!Run, Reads!Set, To
<1>2. QED
  BY <1>1, IdleInv, CacheKept, WorkerMoves

LEMMA ReplicaFailsKeeps ==
  ASSUME ReadsInv, NEW w \in Workers, Reads!ReplicaFails(w)
  PROVE  ReadsInv'
<1>0. clock \in Reads!Time /\ clock \in Nat
  BY LogFacts DEF ReadsInv, Reads!TypeOK
<1>1. PICK j \in Reads!Work : j = work[w] /\ WorkInv(j) /\ j.at \in Replicas
  BY DEF ReadsInv, Reads!TypeOK, Reads!ReplicaFails, Reads!Work
<1>2. PICK c \in Reads!Check : c = [at |-> clock, ok |-> FALSE] /\ c.at = clock /\ ~c.ok
  <2>1. [at |-> clock, ok |-> FALSE] \in Reads!Check
    BY <1>0 DEF Reads!Check
  <2>2. QED
    BY <2>1
<1>3. cache' = [cache EXCEPT ![j.at] = c] /\ UNCHANGED <<clock, log, write, started, replica>>
  BY <1>1, <1>2 DEF Reads!ReplicaFails
<1>4. cache' \in [Replicas -> Reads!Check] /\ \A r \in Replicas : cache'[r] = IF r = j.at THEN c ELSE cache[r]
  BY <1>3 DEF ReadsInv, Reads!TypeOK
<1>5. \A r \in Replicas : CacheInv(r)'
  BY <1>0, <1>2, <1>3, <1>4 DEF ReadsInv, CacheInv, Late
<1>6. PICK k \in Reads!Work : WorkInv(k) /\ work' = [work EXCEPT ![w] = k]
  <2>1. CASE j.chosen
    BY <1>1, <2>1, IdleInv DEF Reads!ReplicaFails, Reads!Set, To
  <2>2. CASE ~j.chosen
    <3>1. PICK g \in Reads!Work : g = On(j, Reads!Primary) /\ g.at = Reads!Primary /\ g.since = j.since
      BY SetAt, ReadsNames
    <3>2. PICK k \in Reads!Work : k = To(g, "run") /\ k.step = "run" /\ k.at = Reads!Primary /\ k.since = j.since
      <4>1. PICK k \in Reads!Work : k = To(g, "run") /\ k.step = "run" /\ k.at = g.at /\ k.since = g.since
        BY SetStep, ReadsNames
      <4>2. QED
        BY <3>1, <4>1
    <3>3. work' = [work EXCEPT ![w] = k]
      BY <1>1, <2>2, <3>1, <3>2 DEF Reads!ReplicaFails, Reads!Set, To, On
    <3>4. WorkInv(k)
      BY <1>1, <3>2 DEF WorkInv
    <3>5. QED
      BY <3>3, <3>4
  <2>3. QED
    BY <2>1, <2>2
<1>7. QED
  BY <1>3, <1>4, <1>5, <1>6, WorkerMoves

LEMMA ReadsStep ==
  ASSUME ReadsInv, [Reads!Next]_(Reads!vars)
  PROVE  ReadsInv'
<1>1. CASE Reads!StartWrite
  BY <1>1, StartWriteKeeps
<1>2. ASSUME NEW own \in BOOLEAN, Reads!Commit(own) PROVE ReadsInv'
  BY <1>2, CommitKeeps
<1>3. ASSUME NEW r \in Replicas, Reads!Replay(r) \/ Reads!Promote(r) PROVE ReadsInv'
  BY <1>3, ChangeKeeps
<1>4. ASSUME NEW w \in Workers,
             \/ Reads!Choose(w) \/ (\E r \in Replicas : Reads!ChooseOne(w, r)) \/ Reads!Hit(w) \/ Reads!ProbePrimary(w)
             \/ Reads!ProbeReplica(w) \/ Reads!Run(w) \/ Reads!ReplicaFails(w)
      PROVE  ReadsInv'
  BY <1>4, ChooseKeeps, ChooseOneKeeps, HitKeeps, ProbePrimaryKeeps, ProbeReplicaKeeps, RunKeeps, ReplicaFailsKeeps
<1>5. CASE Reads!Tick
  BY <1>5, ReadsTick
<1>6. CASE UNCHANGED (Reads!vars)
  BY <1>6 DEF Reads!vars, ReadsInv, Reads!TypeOK, LogInv, WriteInv, CacheInv, WorkInv, Late, Settled
<1>7. QED
  BY <1>1, <1>2, <1>3, <1>4, <1>5, <1>6 DEF Reads!Next

(***************************************************************************)
(* Theorems.                                                               *)
(***************************************************************************)
\* The strengthening from which the properties follow is an invariant.
THEOREM ReadsInvariance == Reads!Spec => []ReadsInv
<1>1. Reads!Init => ReadsInv
  BY ReadsInit
<1>2. ReadsInv /\ [Reads!Next]_(Reads!vars) => ReadsInv'
  BY ReadsStep
<1>3. QED
  BY <1>1, <1>2, PTL DEF Reads!Spec

\* However many workers share the checks, and whatever the replicas do, an answer
\* misses no commit older than lag, trust and probe together (replicas.py, rule 5).
THEOREM AnswersAreFresh == Reads!Spec => []StalenessBounded
<1>1. ReadsInv => StalenessBounded
  <2> SUFFICES ASSUME ReadsInv, NEW w \in Reads!Routed, NEW c \in Reads!Missed(w)
               PROVE  c.at + MaxLag + Ttl + MaxProbe >= work[w].since
    BY DEF StalenessBounded, Reads!StalenessBounded
  <2>1. PICK i \in (replica[work[w].at].pos + 1)..Len(log) : c = log[i]
    BY DEF Reads!Missed
  <2>2. PICK k \in Reads!Work : k = work[w] /\ WorkInv(k) /\ k.at \in Replicas /\ k.since \in Nat
    BY ReadsNumbers DEF Reads!Routed, ReadsInv, Reads!TypeOK, Reads!Work, Reads!Time
  <2>3. replica[k.at].pos \in Nat
    BY <2>2, ReadsNumbers DEF ReadsInv, Reads!TypeOK, Reads!Server
  <2>4. i \in DOMAIN log /\ i > replica[k.at].pos /\ log[i].at \in Nat
    <3>1. DOMAIN log = 1..Len(log) /\ Len(log) \in Nat /\ \A n \in DOMAIN log : log[n].at \in Nat
      BY LogFacts, ReadsNumbers DEF ReadsInv
    <3>2. i \in (replica[k.at].pos + 1)..Len(log)
      BY <2>1, <2>2
    <3>3. i \in DOMAIN log /\ i > replica[k.at].pos
      BY <2>3, <3>1, <3>2
    <3>4. QED
      BY <3>1, <3>3
  <2>5. Late(replica[k.at].pos, MaxLag + Ttl + MaxProbe, k.since)
    BY <2>2 DEF Reads!Routed, WorkInv
  <2>6. QED
    BY <2>1, <2>2, <2>4, <2>5, ReadsNumbers DEF Late
<1>2. QED
  BY ReadsInvariance, <1>1, PTL

\* A person reads back their own write where the window is longer than the
\* longest write, the lag, the trust in a check and the check together
\* (replicas.py, rule 4; the run v_defaults shows that it must be).
THEOREM OwnWritesAreRead ==
  ASSUME MaxRun + MaxLag + Ttl + MaxProbe < WriteWindow
  PROVE  Reads!Spec => []ReadsOwnWrites
<1>1. ReadsInv => ReadsOwnWrites
  <2> SUFFICES ASSUME ReadsInv, NEW w \in Reads!Routed, NEW c \in Reads!Missed(w), c.own
               PROVE  c.at >= work[w].since
    BY DEF ReadsOwnWrites, Reads!ReadsOwnWrites
  <2>1. PICK i \in (replica[work[w].at].pos + 1)..Len(log) : c = log[i]
    BY DEF Reads!Missed
  <2>2. PICK k \in Reads!Work : k = work[w] /\ WorkInv(k) /\ k.at \in Replicas /\ k.since \in Nat
    BY ReadsNumbers DEF Reads!Routed, ReadsInv, Reads!TypeOK, Reads!Work, Reads!Time
  <2>3. replica[k.at].pos \in Nat
    BY <2>2, ReadsNumbers DEF ReadsInv, Reads!TypeOK, Reads!Server
  <2>4. i \in DOMAIN log /\ i > replica[k.at].pos /\ log[i].at \in Nat
    <3>1. DOMAIN log = 1..Len(log) /\ Len(log) \in Nat /\ \A n \in DOMAIN log : log[n].at \in Nat
      BY LogFacts, ReadsNumbers DEF ReadsInv
    <3>2. i \in (replica[k.at].pos + 1)..Len(log)
      BY <2>1, <2>2
    <3>3. i \in DOMAIN log /\ i > replica[k.at].pos
      BY <2>3, <3>1, <3>2
    <3>4. QED
      BY <3>1, <3>3
  <2>5. Late(replica[k.at].pos, MaxLag + Ttl + MaxProbe, k.since) /\ Settled(k.since)
    BY <2>2 DEF Reads!Routed, WorkInv
  <2>6. log[i].at + (MaxLag + Ttl + MaxProbe) >= k.since
    BY <2>4, <2>5 DEF Late
  <2>7. log[i].at < k.since => log[i].at + WriteWindow <= k.since + MaxRun
    BY <2>1, <2>4, <2>5 DEF Settled
  <2>8. PICK a \in Nat, s \in Nat : a = log[i].at /\ s = k.since
    BY <2>2, <2>4
  <2>9. PICK m \in Nat : m = MaxLag + Ttl + MaxProbe
    BY ReadsNumbers
  <2>10. PICK n \in Nat : n = MaxRun
    BY ReadsNumbers
  <2>11. PICK d \in Nat : d = WriteWindow
    BY ReadsNumbers
  <2>12. n + m < d
    <3>1. MaxRun + (MaxLag + Ttl + MaxProbe) < WriteWindow
      BY ReadsNumbers
    <3>2. QED
      BY <3>1, <2>9, <2>10, <2>11
  <2>13. a + m >= s /\ (a < s => a + d <= s + n)
    BY <2>6, <2>7, <2>8, <2>9, <2>10, <2>11
  <2>14. a >= s
    BY <2>12, <2>13
  <2>15. QED
    BY <2>1, <2>2, <2>8, <2>14
<1>2. QED
  BY ReadsInvariance, <1>1, PTL

(***************************************************************************)
(* The composition: one part moves, and each behaves as it does alone.     *)
(***************************************************************************)
\* The behaviours of the composition are behaviours of each part, so that what
\* holds of a part holds in the composition.
LEMMA PartsOfSessions == MCSpec => Spec /\ Reads!Spec
<1>1. MCInit => Init /\ Reads!Init
  BY DEF MCInit
<1>2. [MCNext]_<<part, vars, readVars>> => [Next]_vars
  BY DEF MCNext
<1>3. [MCNext]_<<part, vars, readVars>> => [Reads!Next]_(Reads!vars)
  BY DEF MCNext, readVars, Reads!vars
<1>4. QED
  BY <1>1, <1>2, <1>3, PTL DEF MCSpec, Spec, Reads!Spec

\* Every reachable state of the two parts has the declared types.
THEOREM SessionsTyped == MCSpec => []TypesOK
<1>1. ReadsInv => Reads!TypeOK
  BY DEF ReadsInv
<1>2. TypeOK /\ Reads!TypeOK => TypesOK
  BY DEF TypesOK
<1>3. QED
  BY <1>1, <1>2, PartsOfSessions, TypeCorrect, ReadsInvariance, PTL

\* What the run of the composition checks of its parts, and the bound on guesses, holds
\* of the composition for any values of the constants. That one reads one's own writes
\* is stated apart, above: it needs a window longer than an answer may lag behind.
THEOREM SessionsSafe ==
  MCSpec => /\ []CookieIsKnown /\ []AccessEndsWithEntry /\ []GuessesBounded
            /\ GraceEnds /\ []StalenessBounded
  BY PartsOfSessions, TokenIsKnown, EntryEndsAccess, GuessesAreBounded, GraceIsAnchored,
     AnswersAreFresh
=============================================================================
