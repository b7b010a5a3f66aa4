------------------------- MODULE MCRequestLifecycle -------------------------
(***************************************************************************)
(* Instances of RequestLifecycle for TLC.                                  *)
(***************************************************************************)
EXTENDS RequestLifecycle, TLC

CONSTANTS bot, web, r1, r2, none

Kind(tier, single, mcp) == [tier |-> tier, single |-> single, mcp |-> mcp]

\* A read, a write in autocommit, a DDL script in one transaction that came
\* through the MCP door.
MCKinds == {Kind("ro", TRUE, FALSE), Kind("rw", TRUE, FALSE),
            Kind("ddl", FALSE, TRUE)}

MCRead  == {Kind("ro", TRUE, FALSE)}
MCWrite == {Kind("rw", TRUE, FALSE)}
MCReadWrite == MCRead \cup MCWrite

\* Bound: the second request is there to be superseded or to supersede.  While
\* both are used they are writes, and nothing is stopped, drained or killed.
MCUsed(r) == status[r] # "absent" \/ \E p \in Procs : hand[p][r] # "idle"

MCPaired ==
  /\ \E r \in Requests : kind[r] \in MCWrite
  /\ (\A r \in Requests : MCUsed(r)) =>
       /\ toggles = 0 /\ restarts = 0
       /\ \A r \in Requests : kind[r] \in MCWrite /\ ~cancelAsked[r]
       /\ \A k \in Stoppers, r \in Requests : stopper[k][r] = IdleStopper

\* Requests are told apart by nothing but their name.
MCSymmetry == Permutations(Requests)
=============================================================================
