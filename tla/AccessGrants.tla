---------------------------- MODULE AccessGrants ----------------------------
(***************************************************************************)
(* Access requests and the grants they become: filing, withdrawing and     *)
(* deciding a request, the admin's own grants and revocations, the reaper  *)
(* of idle grants and the warnings before a grant ends.                    *)
(*                                                                         *)
(* A decision is a transaction of several statements.  PostgreSQL runs it  *)
(* at READ COMMITTED: another connection sees nothing of it before its     *)
(* commit and waits where it meets a row the transaction has locked.  The  *)
(* locks are the steps of the transaction: see HoldsRequest,               *)
(* HoldsRequester and HoldsGrant.                                          *)
(*                                                                         *)
(* Time is counted in units of the warning thresholds.  "No end" is the    *)
(* time Forever.  "All databases" is the whole set Databases, so merging   *)
(* two scopes is their union.                                              *)
(***************************************************************************)
EXTENDS Naturals, FiniteSets

CONSTANTS
  Users, Targets,
  ControlPlane,   \* the targets that reach the bot's own metadata database
  Requests, Queries,
  Tiers, Scopes, Databases,
  Deciders,       \* admins who decide at the same time
  NoTarget,       \* a typed server that no connection matches
  NoQuery,
  NoGrant, NoTxn, NoWarning,
  Terms,          \* how long from now a new end may lie
  Thresholds,     \* grant_expiry_warn_hours
  IdleTime,       \* grant_idle_revoke_days
  MaxTime, MaxAdminActs, Forever

ASSUME AccessAssumption ==
  /\ ControlPlane \subseteq Targets
  /\ NoTarget \notin Targets
  /\ Scopes \subseteq SUBSET Databases
  /\ Terms \subseteq Nat \ {0} /\ Thresholds \subseteq Nat \ {0}
  /\ IdleTime \in Nat /\ MaxTime \in Nat /\ MaxAdminActs \in Nat
  /\ Forever \in Nat /\ MaxTime < Forever /\ \A n \in Terms : MaxTime + n < Forever
  /\ Tiers # {}
  /\ NoGrant \notin [tier: Tiers, scope: SUBSET Databases, end: Nat]
  /\ NoGrant \notin [tier: Tiers, scope: SUBSET Databases, end: Nat, since: Nat, revoked: BOOLEAN]
  /\ NoTxn \notin [req: Requests, end: Nat, step: {"claimed", "read"},
                   seen: [tier: Tiers, scope: SUBSET Databases, end: Nat, since: Nat, revoked: BOOLEAN] \cup {NoGrant}]
  /\ NoWarning \notin Users \X Targets \X Thresholds \X Nat

VARIABLES
  ask,       \* access_requests
  enabled,   \* requesters.enabled
  grant,     \* user_target_grants, one row per person and target
  lastUse,   \* when the person last submitted a request to the target
  txn,       \* the open transaction of each decider
  reaping,   \* what the reaper's scan found and has not come to yet
  told,      \* warnings whose DM has landed: <<person, target, threshold, end>>
  notices,   \* grant_expiry_notices
  warning,   \* the warning between its DM and its notice
  now, adminActs

vars == <<ask, enabled, grant, lastUse, txn, reaping, told, notices, warning, now, adminActs>>
sweepVars == <<told, notices, warning>>
boundVars == <<now, adminActs>>

Keys == Users \X Targets
Status == {"absent", "pending", "approved", "rejected", "withdrawn"}
Ask == [status: Status, user: Users, target: Targets \cup {NoTarget},
        tier: Tiers, scope: Scopes \cup {{}}, query: Queries \cup {NoQuery}]
Grant == [tier: Tiers, scope: SUBSET Databases, end: Nat, since: Nat, revoked: BOOLEAN]
Txn == [req: Requests, end: Nat, step: {"claimed", "read"},
        seen: Grant \cup {NoGrant}]
Warnings == Users \X Targets \X Thresholds \X Nat

TypeOK ==
  /\ ask \in [Requests -> Ask]
  /\ enabled \subseteq Users
  /\ grant \in [Keys -> Grant \cup {NoGrant}]
  /\ lastUse \in [Keys -> Nat]
  /\ txn \in [Deciders -> Txn \cup {NoTxn}]
  /\ reaping \subseteq Keys
  /\ told \subseteq Warnings /\ notices \subseteq Warnings
  /\ warning \in Warnings \cup {NoWarning}
  /\ now \in 0..MaxTime /\ adminActs \in 0..MaxAdminActs

(***************************************************************************)
(* Reading a grant.                                                        *)
(***************************************************************************)
\* What the query path, the reader of grants and _auto_grant call active.
Active(g) == g # NoGrant /\ ~g.revoked /\ g.end > now

KeyOf(r) == <<ask[r].user, ask[r].target>>

(***************************************************************************)
(* The row locks of the open decisions.                                    *)
(***************************************************************************)
HoldsRequest(d, r)   == txn[d] # NoTxn /\ txn[d].req = r
HoldsRequester(d, u) == txn[d] # NoTxn /\ ask[txn[d].req].user = u
                        /\ txn[d].step = "read"
HoldsGrant(d, k)     == txn[d] # NoTxn /\ KeyOf(txn[d].req) = k
                        /\ txn[d].step = "read" /\ txn[d].seen # NoGrant

RequestFree(r)   == \A d \in Deciders : ~HoldsRequest(d, r)
RequesterFree(u) == \A d \in Deciders : ~HoldsRequester(d, u)
GrantFree(k)     == \A d \in Deciders : ~HoldsGrant(d, k)

(***************************************************************************)
(* Requests.                                                               *)
(***************************************************************************)
Blank(u, t) == [status |-> "absent", user |-> u, target |-> t,
                tier |-> CHOOSE x \in Tiers : TRUE, scope |-> {}, query |-> NoQuery]

\* Nothing reads again what a closed request asked for: the model forgets it.
Closed(r, status) ==
  [ask EXCEPT ![r] = [Blank(ask[r].user, ask[r].target) EXCEPT !.status = status]]

\* A request for the control plane may be left from before create() refused it.
Init ==
  /\ \E u \in Users : \E t \in ControlPlane \cup {NoTarget} :
       \E s \in SUBSET Requests :
         /\ Cardinality(s) <= 1
         /\ ask = [r \in Requests |->
                     [Blank(u, t) EXCEPT !.status = IF r \in s THEN "pending" ELSE "absent"]]
  /\ enabled = Users
  /\ grant = [k \in Keys |-> NoGrant]
  /\ lastUse = [k \in Keys |-> 0]
  /\ txn = [d \in Deciders |-> NoTxn]
  /\ reaping = {} /\ told = {} /\ notices = {} /\ warning = NoWarning
  /\ now = 0 /\ adminActs = 0

\* The unique index on (requester, target, query) where status = 'pending'.
Duplicate(u, t, q) ==
  \E r \in Requests : ask[r].status = "pending" /\ ask[r].user = u
                      /\ ask[r].target = t /\ ask[r].query = q

Create(r, u, t, tier, scope, q) ==
  /\ ask[r].status = "absent"
  /\ u \in enabled
  /\ t \notin ControlPlane
  /\ ~Duplicate(u, t, q)
  /\ ask' = [ask EXCEPT ![r] = [status |-> "pending", user |-> u, target |-> t,
                                tier |-> tier, scope |-> scope, query |-> q]]
  /\ UNCHANGED <<enabled, grant, lastUse, txn, reaping, sweepVars, boundVars>>

\* Mutant: the word another table uses.
WithdrawAsCancelled(r) ==
  /\ ask[r].status = "pending" /\ RequestFree(r)
  /\ ask' = Closed(r, "cancelled")
  /\ UNCHANGED <<enabled, grant, lastUse, txn, reaping, sweepVars, boundVars>>

\* Waits for a decision that is under way, and then finds the row decided.
Withdraw(r) ==
  /\ ask[r].status = "pending" /\ RequestFree(r)
  /\ ask' = Closed(r, "withdrawn")
  /\ UNCHANGED <<enabled, grant, lastUse, txn, reaping, sweepVars, boundVars>>

Reject(r) ==
  /\ ask[r].status = "pending" /\ RequestFree(r)
  /\ ask' = Closed(r, "rejected")
  /\ UNCHANGED <<enabled, grant, lastUse, txn, reaping, sweepVars, boundVars>>

(***************************************************************************)
(* The transaction of an approval.                                         *)
(***************************************************************************)
\* approval_end: default, chosen or none, fixed before the transaction.
Ends == {now + n : n \in Terms} \cup {Forever}

BeginApproval(d, r, end) ==
  /\ txn[d] = NoTxn
  /\ ask[r].status = "pending" /\ RequestFree(r)
  /\ txn' = [txn EXCEPT ![d] = [req |-> r, end |-> end, step |-> "claimed", seen |-> NoGrant]]
  /\ UNCHANGED <<ask, enabled, grant, lastUse, reaping, sweepVars, boundVars>>

Approved(d) ==
  /\ ask' = Closed(txn[d].req, "approved")
  /\ txn' = [txn EXCEPT ![d] = NoTxn]

\* No connection to grant on, or the bot's own: approved, nothing granted.
ApproveWithoutGrant(d) ==
  /\ txn[d] # NoTxn /\ txn[d].step = "claimed"
  /\ ask[txn[d].req].target \in ControlPlane \cup {NoTarget}
  /\ Approved(d)
  /\ UNCHANGED <<enabled, grant, lastUse, reaping, sweepVars, boundVars>>

\* Mutant: without the upsert of the requester nothing orders two approvals
\* that find no grant.
ReadOnly(d) ==
  LET k == KeyOf(txn[d].req)
  IN /\ txn[d] # NoTxn /\ txn[d].step = "claimed"
     /\ k[2] \in Targets \ ControlPlane
     /\ GrantFree(k)
     /\ txn' = [txn EXCEPT ![d].step = "read", ![d].seen = grant[k]]
     /\ UNCHANGED <<ask, enabled, grant, lastUse, reaping, sweepVars, boundVars>>

\* The upsert of the requester, and then SELECT ... FOR UPDATE of the grant: it
\* locks the row if there is one, and nothing otherwise.  From here to the end of
\* the transaction no other decision about this person passes this point.
WhitelistAndRead(d) ==
  LET k == KeyOf(txn[d].req)
  IN /\ txn[d] # NoTxn /\ txn[d].step = "claimed"
     /\ k[2] \in Targets \ ControlPlane
     /\ RequesterFree(k[1]) /\ GrantFree(k)
     /\ txn' = [txn EXCEPT ![d].step = "read", ![d].seen = grant[k]]
     /\ UNCHANGED <<ask, enabled, grant, lastUse, reaping, sweepVars, boundVars>>

\* What the upsert writes, from what the transaction read.
Granted(d) ==
  LET q == ask[txn[d].req]
      g == txn[d].seen
  IN [tier |-> q.tier, since |-> now, revoked |-> FALSE,
      scope |-> IF Active(g) THEN g.scope \cup q.scope ELSE q.scope,
      end   |-> IF Active(g) THEN g.end ELSE txn[d].end]

CommitApproval(d) ==
  /\ txn[d] # NoTxn /\ txn[d].step = "read"
  /\ Approved(d)
  /\ enabled' = enabled \cup {ask[txn[d].req].user}
  /\ grant' = IF Active(txn[d].seen) /\ txn[d].seen.tier # ask[txn[d].req].tier
              THEN grant
              ELSE [grant EXCEPT ![KeyOf(txn[d].req)] = Granted(d)]
  /\ UNCHANGED <<lastUse, reaping, sweepVars, boundVars>>

\* An error, a lost connection or a dead process: everything is rolled back.
Rollback(d) ==
  /\ txn[d] # NoTxn
  /\ txn' = [txn EXCEPT ![d] = NoTxn]
  /\ UNCHANGED <<ask, enabled, grant, lastUse, reaping, sweepVars, boundVars>>

(***************************************************************************)
(* What an admin does outside a request.                                   *)
(***************************************************************************)
AdminAct == adminActs < MaxAdminActs /\ adminActs' = adminActs + 1 /\ now' = now

\* grants.grant: the upserts wait for both rows; re-granting replaces everything.
AdminGrant(u, t, tier, scope, end) ==
  /\ AdminAct
  /\ t \notin ControlPlane
  /\ RequesterFree(u) /\ GrantFree(<<u, t>>)
  /\ enabled' = enabled \cup {u}
  /\ grant' = [grant EXCEPT ![<<u, t>>] = [tier |-> tier, scope |-> scope, end |-> end,
                                       since |-> now, revoked |-> FALSE]]
  /\ UNCHANGED <<ask, lastUse, txn, reaping, sweepVars>>

\* PATCH /admin/grants: only a grant that has not ended.
AdminExtend(u, t, end) ==
  /\ AdminAct
  /\ t \notin ControlPlane
  /\ GrantFree(<<u, t>>) /\ Active(grant[<<u, t>>])
  /\ grant' = [grant EXCEPT ![<<u, t>>].end = end]
  /\ UNCHANGED <<ask, enabled, lastUse, txn, reaping, sweepVars>>

Revoke(u, t) ==
  /\ AdminAct
  /\ GrantFree(<<u, t>>)
  /\ grant[<<u, t>>] # NoGrant /\ ~grant[<<u, t>>].revoked
  /\ grant' = [grant EXCEPT ![<<u, t>>].revoked = TRUE]
  /\ UNCHANGED <<ask, enabled, lastUse, txn, reaping, sweepVars>>

DisableRequester(u) ==
  /\ AdminAct
  /\ u \in enabled /\ RequesterFree(u)
  /\ enabled' = enabled \ {u}
  /\ UNCHANGED <<ask, grant, lastUse, txn, reaping, sweepVars>>

(***************************************************************************)
(* Use, the reaper of idle grants, the warnings, time.                     *)
(***************************************************************************)
Use(u, t) ==
  /\ u \in enabled /\ Active(grant[<<u, t>>]) /\ lastUse[<<u, t>>] # now
  /\ lastUse' = [lastUse EXCEPT ![<<u, t>>] = now]
  /\ UNCHANGED <<ask, enabled, grant, txn, reaping, sweepVars, boundVars>>

Stale(k) ==
  /\ grant[k] # NoGrant /\ ~grant[k].revoked
  /\ grant[k].since + IdleTime < now
  /\ lastUse[k] + IdleTime < now

ReaperScan ==
  /\ reaping = {}
  /\ reaping' = {k \in Keys : Stale(k)}
  /\ reaping' # {}
  /\ UNCHANGED <<ask, enabled, grant, lastUse, txn, sweepVars, boundVars>>

ReaperStops(k) == grant[k] # NoGrant /\ ~grant[k].revoked

Reap(k) ==
  /\ k \in reaping /\ GrantFree(k)
  /\ reaping' = reaping \ {k}
  /\ grant' = IF ReaperStops(k) THEN [grant EXCEPT ![k].revoked = TRUE] ELSE grant
  /\ UNCHANGED <<ask, enabled, lastUse, txn, sweepVars, boundVars>>

\* Each threshold owns what the next narrower one leaves to it.
FloorOf(h) == LET below == {x \in Thresholds : x < h}
              IN IF below = {} THEN 0 ELSE CHOOSE x \in below : \A y \in below : y <= x

\* Mutant: the end is not part of what a notice is about.
DueOnce == {w \in {<<k[1], k[2], h, grant[k].end>> :
                      k \in {x \in Keys : Active(grant[x])}, h \in Thresholds} :
              /\ w[4] # Forever
              /\ w[4] > now + FloorOf(w[3]) /\ w[4] <= now + w[3]
              /\ \A n \in notices : n[1] # w[1] \/ n[2] # w[2] \/ n[3] # w[3]}

Due == {w \in {<<k[1], k[2], h, grant[k].end>> :
                  k \in {x \in Keys : Active(grant[x])}, h \in Thresholds} :
          /\ w[4] # Forever
          /\ w[4] > now + FloorOf(w[3]) /\ w[4] <= now + w[3]
          /\ w \notin notices}

\* The DM first, then the notice: a crash between them repeats the warning.
SendWarning(w) ==
  /\ warning = NoWarning /\ w \in Due
  /\ told' = told \cup {w}
  /\ warning' = w
  /\ UNCHANGED <<ask, enabled, grant, lastUse, txn, reaping, notices, boundVars>>

RecordNotice ==
  /\ warning # NoWarning
  /\ notices' = notices \cup {warning}
  /\ warning' = NoWarning
  /\ UNCHANGED <<ask, enabled, grant, lastUse, txn, reaping, told, boundVars>>

SweepDies ==
  /\ warning # NoWarning
  /\ warning' = NoWarning
  /\ UNCHANGED <<ask, enabled, grant, lastUse, txn, reaping, told, notices, boundVars>>

\* A unit of time is many sweeps and many transactions long.
Tick ==
  /\ now < MaxTime
  /\ Due = {} /\ warning = NoWarning
  /\ \A d \in Deciders : txn[d] = NoTxn
  /\ now' = now + 1
  /\ UNCHANGED <<ask, enabled, grant, lastUse, txn, reaping, sweepVars, adminActs>>

Next ==
  \/ \E r \in Requests :
       \/ \E u \in Users, t \in Targets \cup {NoTarget}, tier \in Tiers, s \in Scopes, q \in Queries :
            Create(r, u, t, tier, s, q)
       \/ Withdraw(r)
       \/ Reject(r)
       \/ \E d \in Deciders, end \in Ends : BeginApproval(d, r, end)
  \/ \E d \in Deciders :
       \/ ApproveWithoutGrant(d)
       \/ WhitelistAndRead(d)
       \/ CommitApproval(d)
       \/ Rollback(d)
  \/ \E u \in Users, t \in Targets :
       \/ \E tier \in Tiers, s \in Scopes, end \in Ends : AdminGrant(u, t, tier, s, end)
       \/ \E end \in Ends : AdminExtend(u, t, end)
       \/ Revoke(u, t)
       \/ Use(u, t)
  \/ \E u \in Users : DisableRequester(u)
  \/ ReaperScan
  \/ \E k \in Keys : Reap(k)
  \/ \E w \in Due : SendWarning(w)
  \/ RecordNotice
  \/ SweepDies
  \/ Tick

Spec == Init /\ [][Next]_vars

(***************************************************************************)
(* Properties.                                                             *)
(***************************************************************************)
\* What a person may use at this moment.
AccessNow == [k \in Keys |->
  IF Active(grant[k])
  THEN [tier |-> grant[k].tier, scope |-> grant[k].scope, end |-> grant[k].end]
  ELSE NoGrant]

Promise == INSTANCE Entitlement WITH access <- AccessNow, NoAccess <- NoGrant

\* Deciding in several statements, beside revocations, the reaper and other
\* decisions, is as good as deciding at once: an approval never changes the
\* tier or the end of live access, never loses a database that somebody else
\* just added, and never brings back what was revoked meanwhile.
\* (_auto_grant; access_requests.py withdraw: "an approval that loses writes
\* no grant").
ImplementsEntitlement == Promise!Spec

\* Access that runs out was announced to its holder for this very end, also
\* when the end was moved, the grant was renewed, or the process died while
\* warning (grant_expiry.sweep).
WarnedBeforeLapse ==
  [][\A k \in Keys :
       Active(grant[k]) /\ now' >= grant[k].end
         => \E h \in Thresholds : <<k[1], k[2], h, grant[k].end>> \in told]_vars

\* The reaper takes only what is idle: older than the limit and not used
\* within it (the first line of reap_stale_grants.py).
ReapsOnlyStale ==
  [][\A k \in Keys : k \in reaping /\ k \notin reaping' /\ grant'[k] # grant[k] => Stale(k)]_vars
=============================================================================
