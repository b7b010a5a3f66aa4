------------------------------ MODULE MCAccess ------------------------------
(***************************************************************************)
(* What a person may do: access requests and grants (AccessGrants) and     *)
(* their copy in the nine-table model (AccessMirror).  In each behaviour   *)
(* one part moves and the other rests; a run says which parts may move.    *)
(***************************************************************************)
EXTENDS AccessGrants, TLC

CONSTANTS
  Parts,  \* which of the parts may move
  x1, x2, y1, y2, p1, p2, u1, t1, t0, db1, db2, q1, q2, noTarget, none,
  Members, Rules, Txns, RuleEnds

VARIABLES part, legacy, member, copy, mirror

mirrorVars == <<legacy, member, copy, mirror>>

Mirror == INSTANCE AccessMirror WITH txn <- mirror, Ends <- RuleEnds

ASSUME MirrorAssumption == Mirror!AccessMirrorAssumption

\* One database each: the union of both is every database.
MCTwoScopes == {{db1}, {db2}}

\* Grants that rest start in one state.
MCInit ==
  /\ part \in Parts /\ Init /\ Mirror!Init
  /\ part # "grants" => \A r \in Requests : ask[r] = Blank(u1, NoTarget)

MCNext ==
  /\ UNCHANGED part
  /\ \/ part = "grants" /\ Next /\ UNCHANGED mirrorVars
     \/ part = "mirror" /\ Mirror!Next /\ UNCHANGED vars

MCSpec == MCInit /\ [][MCNext]_<<part, vars, mirrorVars>>

\* The values of each pair are told apart by nothing but their names: requests
\* and members (x), rules (y), deciders and transactions (p).
MCSymmetry ==
  Permutations({x1, x2}) \cup Permutations({y1, y2}) \cup Permutations({p1, p2})
    \cup Permutations({db1, db2}) \cup Permutations({q1, q2})

\* The types of the two.
TypesOK == TypeOK /\ Mirror!TypeOK
\* AccessMirror: the copy of a person's rules ends when the last rule does.
PersonInSync == Mirror!PersonInSync
\* AccessMirror: a write that none overlaps leaves the team in step.
TeamHeals == Mirror!TeamHeals
\* AccessMirror: the two models agree on the members when nothing is under way.
TeamInSync == Mirror!TeamInSync
=============================================================================
