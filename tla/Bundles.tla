-------------------------------- MODULE Bundles --------------------------------
(***************************************************************************)
(* One batch of requests: how a person decides all of it in one            *)
(* transaction while its items are decided, withdrawn and run one by one,  *)
(* and how the trigger on requests keeps the status of the batch           *)
(* (core_decide.decide_bundle; bundles.py; migration 029).                 *)
(*                                                                         *)
(* Several transactions run at once.  What one has written the others see  *)
(* when it commits (READ COMMITTED); a row it has locked or written the    *)
(* others wait for, and read again when they get it.  The trigger reads    *)
(* the items under an advisory lock of the batch, held to the end.         *)
(*                                                                         *)
(* Abstracted: scheduled, escalated and executing items count as approved  *)
(* ones, the kill switch is off (RequestLifecycle has both) and everybody  *)
(* may decide everything.                                                  *)
(***************************************************************************)
EXTENDS Naturals, FiniteSets

CONSTANTS
  Items,      \* the requests of the batch, by their ids
  Deciders,   \* transactions that decide the whole batch
  Others      \* transactions that change one item

\* A batch has at least one item.
ASSUME BundlesAssumption ==
  /\ Items \subseteq Nat /\ Items # {} /\ IsFiniteSet(Items)
  /\ Deciders \cap Others = {}
  /\ {"nobody", "auto", "alone"} \cap (Deciders \cup Others) = {}

VARIABLES
  item,      \* requests, as committed
  bundle,    \* request_bundles.status, as committed
  holds,     \* the row locks of each transaction
  advisory,  \* who holds the lock of the batch
  txn        \* what each transaction has read and written

vars == <<item, bundle, holds, advisory, txn>>

Txns     == Deciders \cup Others
NoOne    == "nobody"
InFlight == {"pending", "changes_requested", "approved"}
Refused  == {"rejected", "failed", "cancelled"}
Status   == InFlight \cup Refused \cup {"completed", "expired"}
\* Who decided an item: QueryHub itself at submit (AUTO), a person alone, or a
\* person for the whole batch.
Authority == {"nobody", "auto", "alone"} \cup Deciders
Item     == [status : Status, by : Authority]
Verdict  == {"approve", "reject", "changes"}
Idle     == [step |-> "idle", verdict |-> "none", todo |-> {}, wrote |-> [i \in {} |-> Item], status |-> "none"]

\* Bound: a person decides once.
Done    == [Idle EXCEPT !.step = "done"]
Busy(t) == txn[t].step \notin {"idle", "done"}

Written(w) == DOMAIN w \subseteq Items /\ w \in [DOMAIN w -> Item]
Batch   == {"pending", "cancelled", "partial", "decided"}

TypeOK ==
  /\ item \in [Items -> Item] /\ bundle \in Batch
  /\ holds \in [Txns -> SUBSET Items]
  /\ advisory \in Txns \cup {NoOne}
  /\ DOMAIN txn = Txns
  /\ \A t \in Txns :
       /\ txn[t].step \in {"idle", "lock", "write", "trigger", "commit", "done"}
       /\ txn[t].verdict \in Verdict \cup {"none"}
       /\ txn[t].todo \subseteq Items
       /\ Written(txn[t].wrote)
       /\ txn[t].status \in Batch \cup {"none"}

Init ==
  /\ \E auto \in SUBSET Items :
       item = [i \in Items |-> IF i \in auto THEN [status |-> "approved", by |-> "auto"]
                                             ELSE [status |-> "pending", by |-> "nobody"]]
  /\ bundle = "pending"
  /\ holds = [t \in Txns |-> {}] /\ advisory = NoOne
  /\ txn = [t \in Txns |-> Idle]

Unlocked(t, i) == \A u \in Txns \ {t} : i \notin holds[u]

\* What t sees: what is committed, and its own writes.
Seen(t, i) == IF i \in DOMAIN txn[t].wrote THEN txn[t].wrote[i] ELSE item[i]

(***************************************************************************)
(* The trigger.                                                            *)
(***************************************************************************)
\* trg_recompute_bundle_status, of the items one transaction sees.
Recomputed(seen) ==
  LET statuses == {seen[i].status : i \in Items}
  IN CASE statuses \cap InFlight # {} -> "pending"
       [] statuses = {"cancelled"} -> "cancelled"
       [] "completed" \in statuses /\ statuses \cap Refused # {} -> "partial"
       [] OTHER -> "decided"

\* Mutant: migration 027, where the recomputations of two transactions overlap.
LockedNot(t) == UNCHANGED advisory

\* pg_advisory_xact_lock(bid)
LockedBatch(t) == advisory \in {NoOne, t} /\ advisory' = t

\* It runs after the UPDATE of one item, and reads in a statement of its own.
Trigger(t) ==
  /\ txn[t].step = "trigger" /\ LockedBatch(t)
  /\ LET new == Recomputed([i \in Items |-> Seen(t, i)])
     IN txn' = [txn EXCEPT ![t].status = new,
                           ![t].step = IF txn[t].todo = {} THEN "commit" ELSE "write"]
  /\ UNCHANGED <<item, bundle, holds>>

Ended(t) ==
  /\ txn' = [txn EXCEPT ![t] = IF t \in Deciders THEN Done ELSE Idle]
  /\ holds' = [holds EXCEPT ![t] = {}]
  /\ advisory' = IF advisory = t THEN NoOne ELSE advisory

\* The UPDATE of the batch writes only another status.
Commit(t) ==
  /\ txn[t].step = "commit"
  /\ item' = [i \in Items |-> Seen(t, i)]
  /\ bundle' = txn[t].status
  /\ Ended(t)

(***************************************************************************)
(* One item.                                                               *)
(***************************************************************************)
\* The guarded updates of one item: a decision, a withdrawal, the expiry; the
\* end of its run.
After(status) ==
  CASE status = "pending" -> {"approved", "rejected", "changes_requested", "cancelled", "expired"}
    [] status = "approved" -> {"completed", "failed", "cancelled"}
    [] OTHER -> {}

UpdateOne(t) ==
  \E i \in Items :
    /\ txn[t] = Idle /\ Unlocked(t, i)
    /\ \E s \in After(item[i].status) :
         txn' = [txn EXCEPT ![t] =
           [Idle EXCEPT !.step = "trigger",
                        !.wrote = [j \in {i} |-> [status |-> s, by |-> IF item[i].status = "pending" THEN "alone"
                                                                       ELSE item[i].by]]]]
    /\ holds' = [holds EXCEPT ![t] = {i}]
    /\ UNCHANGED <<item, bundle, advisory>>

(***************************************************************************)
(* The whole batch.                                                        *)
(***************************************************************************)
Begin(d) ==
  /\ txn[d] = Idle
  /\ \E v \in Verdict : txn' = [txn EXCEPT ![d] = [Idle EXCEPT !.step = "lock", !.verdict = v]]
  /\ UNCHANGED <<item, bundle, holds, advisory>>

\* Mutant: the rows are locked in any order.
NextToLockAny(d, i) == i \in Items \ holds[d]

\* ORDER BY id
NextToLock(d, i) == i \in Items \ holds[d] /\ \A j \in Items \ holds[d] : i <= j

\* FOR UPDATE
LockItem(d) ==
  \E i \in Items :
    /\ txn[d].step = "lock" /\ NextToLock(d, i) /\ Unlocked(d, i)
    /\ holds' = [holds EXCEPT ![d] = @ \cup {i}]
    /\ UNCHANGED <<item, bundle, advisory, txn>>

SettledAtSubmit(i) == item[i].by = "auto"
Considered         == {i \in Items : ~SettledAtSubmit(i)}

\* Mutant: who decides takes what is still open.
OpenItemsLeft == {i \in Considered : item[i].status = "pending"}

OpenItems == IF \A i \in Considered : item[i].status = "pending" THEN Considered ELSE {}

Check(d) ==
  /\ txn[d].step = "lock" /\ holds[d] = Items
  /\ OpenItems # {}
  /\ txn' = [txn EXCEPT ![d].step = "write", ![d].todo = OpenItems]
  /\ UNCHANGED <<item, bundle, holds, advisory>>

\* BundleConflict: the transaction rolls back.
Refuse(d) ==
  /\ txn[d].step = "lock" /\ holds[d] = Items
  /\ OpenItems = {}
  /\ Ended(d)
  /\ UNCHANGED <<item, bundle>>

Decided(verdict) ==
  CASE verdict = "approve" -> "approved" [] verdict = "reject" -> "rejected" [] OTHER -> "changes_requested"

\* _write, of one item after the other; the trigger runs after each.  Under the
\* row locks the item is still pending.
WriteItem(d) ==
  \E i \in txn[d].todo :
    /\ txn[d].step = "write" /\ \A j \in txn[d].todo : i <= j
    /\ LET new == [status |-> Decided(txn[d].verdict), by |-> d]
       IN txn' = [txn EXCEPT ![d].step = "trigger", ![d].todo = @ \ {i},
                             ![d].wrote = [j \in DOMAIN @ \cup {i} |-> IF j = i THEN new ELSE @[j]]]
    /\ UNCHANGED <<item, bundle, holds, advisory>>

Step(t) ==
  \/ LockItem(t)
  \/ Check(t)
  \/ Refuse(t)
  \/ WriteItem(t)
  \/ Trigger(t)
  \/ Commit(t)

Next ==
  \/ \E t \in Others : UpdateOne(t)
  \/ \E d \in Deciders : Begin(d)
  \/ \E t \in Txns : Step(t)

Spec == Init /\ [][Next]_vars

(***************************************************************************)
(* Properties.                                                             *)
(***************************************************************************)
\* The status of the batch is the one its items make, whoever ended them at the
\* same time (migration 029: "the second one always observes the first's
\* committed state").
BundleStatusTrue == bundle = Recomputed(item)

\* A decision of the batch decides every item that waited for one, or none
\* (decide_bundle: "all or none").
AllOrNone ==
  \A d \in Deciders :
    (\E i \in Items : item[i].by = d) => \A i \in Items : item[i].by \in {d, "auto"}

\* What keeps a transaction from its next statement: a row or the lock of the
\* batch that another one holds to its end.
Waits(t) ==
  \/ txn[t].step = "lock" /\ holds[t] # Items /\ \A i \in Items : NextToLock(t, i) => ~Unlocked(t, i)
  \/ txn[t].step = "trigger" /\ advisory \notin {NoOne, t}

\* Of the transactions that have begun one can go on: the row locks of a
\* decision and the lock its trigger takes while it holds them are never asked
\* for in two orders (decide_bundle: "ORDER BY id FOR UPDATE").
NobodyStuck == (\E t \in Txns : Busy(t)) => \E t \in Txns : Busy(t) /\ ~Waits(t)
=============================================================================
