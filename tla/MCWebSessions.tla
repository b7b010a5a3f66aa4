--------------------------- MODULE MCWebSessions ---------------------------
(***************************************************************************)
(* One person in a browser: their sign-ins (WebSessions) and where their   *)
(* reads run (ReplicaRouting).  In each behaviour one part moves and the   *)
(* other rests, so that one run checks both.                               *)
(***************************************************************************)
EXTENDS WebSessions, TLC

CONSTANTS Replicas, Workers, WriteWindow, MaxLag, Ttl, MaxProbe, MaxRun, MaxCommits, ReadTime

VARIABLES part, clock, log, write, started, replica, cache, work

readVars == <<clock, log, write, started, replica, cache, work>>

Reads == INSTANCE ReplicaRouting WITH now <- clock, Window <- WriteWindow, MaxTime <- ReadTime

ASSUME ReadsAssumption == Reads!ReplicaRoutingAssumption

MCInit == part \in {"sessions", "reads"} /\ Init /\ Reads!Init

MCNext ==
  /\ UNCHANGED part
  /\ \/ part = "sessions" /\ Next /\ UNCHANGED readVars
     \/ part = "reads" /\ Reads!Next /\ UNCHANGED vars

MCSpec == MCInit /\ [][MCNext]_<<part, vars, readVars>>

MCSymmetry == Permutations(Tabs) \cup Permutations(Workers)

\* The types of the two.
TypesOK == TypeOK /\ Reads!TypeOK
\* ReplicaRouting: an answer is no older than lag, check and probe allow.
StalenessBounded == Reads!StalenessBounded
\* ReplicaRouting: a person reads back what their own write changed.
ReadsOwnWrites == Reads!ReadsOwnWrites
=============================================================================
