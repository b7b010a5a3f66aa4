------------------------------- MODULE SyncGuard -------------------------------
(***************************************************************************)
(* The identity provider's list of people against the requesters, and the  *)
(* super-admin's yes that a large removal waits for (idp_sync_guard.py;    *)
(* principals_sync of web/routes_admin.py).                                *)
(*                                                                         *)
(* Runs overlap: each computes its plan from what it read, passes the gate *)
(* in a few transactions and applies the plan in another.  The panel's     *)
(* list is anything; the limit stands.  A card is delivered, late or       *)
(* again.                                                                  *)
(***************************************************************************)
EXTENDS Naturals, Sequences, FiniteSets

CONSTANTS
  People,
  Runs,         \* overlapping calls of the reconcile
  Limit,        \* idp_sync_max_disable
  Day,          \* how long a yes is good, and a list is the same question
  MaxHolds,     \* bound: held lists
  MaxTime       \* bound: moments

\* Assumed of the constants where the module is instantiated.
SyncGuardAssumption ==
  /\ IsFiniteSet(People)
  /\ {Limit, Day, MaxHolds, MaxTime} \subseteq Nat

VARIABLES
  now,
  enabled,      \* requesters.enabled
  keepers,      \* live admins and role holders
  holds,        \* idp_sync_hold
  run           \* what each run has planned and where it is

vars == <<now, enabled, keepers, holds, run>>

Time == 0..MaxTime
Hold == [list : SUBSET People,
         status : {"pending", "approved", "rejected", "superseded"},
         held : Time,            \* last_held_at
         decided : Time,         \* decided_at
         uses : Nat]             \* applied_at, and how often it was stamped
Idle == [step |-> "idle", on |-> {}, off |-> {}, hold |-> 0]

TypeOK ==
  /\ now \in Time
  /\ enabled \subseteq People /\ keepers \subseteq People
  /\ holds \in Seq(Hold) /\ Len(holds) <= MaxHolds
  /\ run \in [Runs -> [step : {"idle", "gate", "ask", "open", "insert", "apply"},
                       on : SUBSET People, off : SUBSET People, hold : 0..MaxHolds]]

Init ==
  /\ now = 0
  /\ enabled = People /\ keepers = {}
  /\ holds = <<>>
  /\ run = [r \in Runs |-> Idle]

(***************************************************************************)
(* The reconcile.                                                          *)
(***************************************************************************)
Go(r, step) == run' = [run EXCEPT ![r].step = step]
End(r)      == run' = [run EXCEPT ![r] = Idle]

\* An empty list is refused, but a list of addresses nobody has names nobody.
Plan(r, want) ==
  /\ run[r] = Idle
  /\ run' = [run EXCEPT ![r] = [step |-> "gate", on |-> want \ enabled,
                                off |-> enabled \ (want \cup keepers), hold |-> 0]]
  /\ UNCHANGED <<now, enabled, keepers, holds>>

Large(r) == Cardinality(run[r].off) > Limit

\* Mutant: a yes covers whatever the next run would remove.
UsableForAll(r) ==
  {h \in DOMAIN holds : holds[h].status = "approved" /\ holds[h].uses = 0 /\ now < holds[h].decided + Day}

\* _USABLE_APPROVAL
Usable(r) ==
  {h \in DOMAIN holds : /\ holds[h].status = "approved" /\ holds[h].uses = 0
                        /\ now < holds[h].decided + Day
                        /\ run[r].off \subseteq holds[h].list}

\* The latest yes is spent.
Pass(r) ==
  /\ run[r].step = "gate" /\ ~Large(r)
  /\ Go(r, "apply")
  /\ UNCHANGED <<now, enabled, keepers, holds>>

ClaimApproval(r) ==
  /\ run[r].step = "gate" /\ Large(r)
  /\ \/ \E h \in Usable(r) :
          /\ \A other \in Usable(r) : holds[other].decided <= holds[h].decided
          /\ holds' = [holds EXCEPT ![h].uses = @ + 1]
          /\ run' = [run EXCEPT ![r].step = "apply", ![r].hold = h]
     \/ Usable(r) = {} /\ Go(r, "ask") /\ UNCHANGED holds
  /\ UNCHANGED <<now, enabled, keepers>>

\* _same_list
Same(r) ==
  {h \in DOMAIN holds : /\ holds[h].status \in {"pending", "rejected"}
                        /\ holds[h].list = run[r].off
                        /\ now < holds[h].held + Day}

\* A question that was asked today is not asked again: the run ends with a 409.
Ask(r) ==
  /\ run[r].step = "ask"
  /\ \/ \E h \in Same(r) :
          /\ \A other \in Same(r) : other <= h
          /\ holds' = [holds EXCEPT ![h].held = now]
          /\ End(r)
     \/ Same(r) = {} /\ Go(r, "open") /\ UNCHANGED holds
  /\ UNCHANGED <<now, enabled, keepers>>

Superseded(h) == h.status = "pending"

\* Mutant: a status the panel does not know.
RetiredAsExpired(h) == [h EXCEPT !.status = "expired"]

Retired(h) == [h EXCEPT !.status = "superseded"]

\* _open: one transaction, whose UPDATE does not see a row that another run has
\* inserted and not committed.
Supersede(r) ==
  /\ run[r].step = "open" /\ Len(holds) < MaxHolds
  /\ holds' = [h \in DOMAIN holds |-> IF Superseded(holds[h]) THEN Retired(holds[h]) ELSE holds[h]]
  /\ Go(r, "insert")
  /\ UNCHANGED <<now, enabled, keepers>>

Insert(r) ==
  /\ run[r].step = "insert" /\ Len(holds) < MaxHolds
  /\ holds' = Append(holds, [list |-> run[r].off, status |-> "pending", held |-> now, decided |-> 0, uses |-> 0])
  /\ End(r)
  /\ UNCHANGED <<now, enabled, keepers>>

\* One transaction applies the plan, or fails and leaves the yes spent.
Apply(r) ==
  /\ run[r].step = "apply"
  /\ \/ enabled' = (enabled \cup run[r].on) \ run[r].off
     \/ UNCHANGED enabled
  /\ End(r)
  /\ UNCHANGED <<now, keepers, holds>>

(***************************************************************************)
(* The super-admins, other changes, and time.                              *)
(***************************************************************************)
Decidable(h) == holds[h].status = "pending"

Decide(h, status) ==
  /\ Decidable(h)
  /\ holds' = [holds EXCEPT ![h].status = status, ![h].decided = now]
  /\ UNCHANGED <<now, enabled, keepers, run>>

Promote(p) ==
  /\ keepers' = keepers \cup {p} /\ enabled' = enabled \cup {p}
  /\ UNCHANGED <<now, holds, run>>

Demote(p) ==
  /\ keepers' = keepers \ {p}
  /\ UNCHANGED <<now, enabled, holds, run>>

Tick ==
  /\ now < MaxTime
  /\ now' = now + 1
  /\ UNCHANGED <<enabled, keepers, holds, run>>

Next ==
  \/ \E r \in Runs :
       \/ \E want \in SUBSET People : Plan(r, want)
       \/ Pass(r) \/ ClaimApproval(r) \/ Ask(r) \/ Supersede(r) \/ Insert(r) \/ Apply(r)
  \/ \E h \in DOMAIN holds : \E status \in {"approved", "rejected"} : Decide(h, status)
  \/ \E p \in People : Promote(p) \/ Demote(p)
  \/ Tick

Spec == Init /\ [][Next]_vars

(***************************************************************************)
(* Properties.                                                             *)
(***************************************************************************)
Lost == enabled \ enabled'

\* More people than the limit lose their access in one step only when one
\* super-admin's yes named all of them, and this yes is no other run's, however
\* the runs overlap (idp_sync_guard.py: "Approving covers the people on the card,
\* once"; _claim_approval: "two overlapping runs cannot both use it").
MassRemovalApproved ==
  [][Cardinality(Lost) > Limit =>
       \E r \in Runs : LET h == run[r].hold IN
         /\ h # 0 /\ holds[h].status = "approved" /\ holds[h].uses = 1
         /\ Lost \subseteq holds[h].list /\ \A s \in Runs \ {r} : run[s].hold # h]_vars

\* No live admin or role holder loses access (routes_admin.principals_sync: "It
\* also never disables the requesters row of a live admin or role holder").
KeepersKept == [][Lost \cap keepers = {}]_vars

\* One question is open at a time (idp_sync_guard._open: "Any older undecided
\* list is superseded").
OneQuestion == Cardinality({h \in DOMAIN holds : holds[h].status = "pending"}) <= 1
=============================================================================
