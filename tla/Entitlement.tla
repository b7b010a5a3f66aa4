----------------------------- MODULE Entitlement -----------------------------
(***************************************************************************)
(* What access requests and grants promise a person, as if every decision  *)
(* were one atomic act: what somebody may use right now, which requests    *)
(* are open, and how an approval, a grant or a revocation changes the two. *)
(* AccessGrants implements this specification with transactions that read, *)
(* wait and write in separate steps.                                       *)
(***************************************************************************)
EXTENDS Naturals

CONSTANTS Users, Targets, ControlPlane, Requests, Tiers, Databases, NoTarget, NoAccess

VARIABLES
  ask,     \* what each request asks for, and how it was answered
  access   \* the access a person has on a target at this moment

vars == <<ask, access>>

Access == [tier: Tiers, scope: SUBSET Databases, end: Nat]

Init ==
  /\ \A r \in Requests : ask[r].status \in {"absent", "pending"}
  /\ access = [k \in Users \X Targets |-> NoAccess]

\* Only request r changes, to this status.
Becomes(r, status) ==
  /\ ask'[r].status = status
  /\ ask' = [ask EXCEPT ![r] = ask'[r]]

\* A person asks; an admin declines; the person takes the request back.
File(r) ==
  /\ ask[r].status = "absent"
  /\ Becomes(r, "pending")
  /\ UNCHANGED access

Close(r) ==
  /\ ask[r].status = "pending"
  /\ Becomes(r, "rejected") \/ Becomes(r, "withdrawn")
  /\ UNCHANGED access

\* Only this person's access to this target changes, and it is access.
Gives(u, t) ==
  /\ access'[<<u, t>>] \in Access
  /\ access' = [access EXCEPT ![<<u, t>>] = access'[<<u, t>>]]

\* An approval adds to live access of the same tier, without touching its end.
\* Live access of another tier stays as it is.  Without live access it starts
\* what was asked for, with an end the approver chose.
Approve(r) ==
  LET q == ask[r]
      have == access[<<q.user, q.target>>]
  IN /\ q.status = "pending"
     /\ Becomes(r, "approved")
     /\ IF q.target \in ({NoTarget} \cup ControlPlane) THEN UNCHANGED access
        ELSE \/ /\ have = NoAccess
                /\ Gives(q.user, q.target)
                /\ access'[<<q.user, q.target>>].tier  = q.tier
                /\ access'[<<q.user, q.target>>].scope = q.scope
             \/ /\ have # NoAccess /\ have.tier = q.tier
                /\ access' = [access EXCEPT ![<<q.user, q.target>>].scope = @ \cup q.scope]
             \/ /\ have # NoAccess /\ have.tier # q.tier
                /\ UNCHANGED access

\* An admin gives, moves or takes access on one target.
Give(u, t) ==
  /\ t \notin ControlPlane
  /\ Gives(u, t)
  /\ UNCHANGED ask

Move(u, t) ==
  /\ access[<<u, t>>] # NoAccess
  /\ Gives(u, t)
  /\ [access'[<<u, t>>] EXCEPT !.end = access[<<u, t>>].end] = access[<<u, t>>]
  /\ UNCHANGED ask

Take(u, t) ==
  /\ access[<<u, t>>] # NoAccess
  /\ access' = [access EXCEPT ![<<u, t>>] = NoAccess]
  /\ UNCHANGED ask

\* Access ends with time, on several targets at once.
Lapse ==
  /\ \E gone \in SUBSET (Users \X Targets) :
       access' = [k \in Users \X Targets |-> IF k \in gone THEN NoAccess ELSE access[k]]
  /\ UNCHANGED ask

Next ==
  \/ \E r \in Requests : File(r) \/ Close(r) \/ Approve(r)
  \/ \E u \in Users, t \in Targets : Give(u, t) \/ Move(u, t) \/ Take(u, t)
  \/ Lapse

Spec == Init /\ [][Next]_vars
=============================================================================
