---------------------------- MODULE DatabaseProofs ----------------------------
(***************************************************************************)
(* Theorems about Bundles, DbPool and AuthEvents, for every batch, any     *)
(* threads, events and people, and any number of transactions, and about   *)
(* their composition.                                                      *)
(*                                                                         *)
(* Bundles rests on three locks: a row a transaction has written is its    *)
(* own until it ends, a decision holds every row before it writes the      *)
(* first, and nobody commits but under the lock of the batch.              *)
(***************************************************************************)
EXTENDS MCDatabase, TLAPS, WellFoundedInduction

(***************************************************************************)
(* Bundles: the inductive invariant.                                       *)
(***************************************************************************)
Partial == UNION {[S -> Item] : S \in SUBSET Items}
Txn == [step : {"idle", "lock", "write", "trigger", "commit", "done"},
        verdict : Verdict \cup {"none"}, todo : SUBSET Items, wrote : Partial,
        status : Batch \cup {"none"}]

Typed ==
  /\ item \in [Items -> Item] /\ bundle \in Batch
  /\ holds \in [Txns -> SUBSET Items]
  /\ advisory \in Txns \cup {NoOne}
  /\ txn \in [Txns -> Txn]

\* An item waits exactly as long as nobody has decided it.
ItemInv == \A i \in Items : item[i].status = "pending" <=> item[i].by = "nobody"

\* A row lock has one holder.
LockInv == \A t, u \in Txns : t # u => holds[t] \cap holds[u] = {}

\* Rows are locked from the first on, and written under their locks; who commits
\* has recomputed the status of the batch under its lock.
TxnInv(t) ==
  /\ txn[t].step \in {"idle", "done"} => holds[t] = {}
  /\ txn[t].step \in {"idle", "done", "lock"} => DOMAIN txn[t].wrote = {}
  /\ txn[t].step = "lock" => \A i \in holds[t], j \in Items \ holds[t] : i < j
  /\ DOMAIN txn[t].wrote \subseteq holds[t]
  /\ advisory = t => txn[t].step \in {"write", "trigger", "commit"}
  /\ txn[t].step = "commit" =>
       /\ advisory = t /\ txn[t].todo = {}
       /\ txn[t].status = Recomputed([i \in Items |-> Seen(t, i)])

\* Who changes one item decides it alone or leaves alone who decided it.
OneInv(t) ==
  /\ txn[t].step \in {"idle", "trigger", "commit"} /\ txn[t].todo = {}
  /\ \A i \in DOMAIN txn[t].wrote :
       /\ txn[t].wrote[i].status # "pending"
       /\ txn[t].wrote[i].by = IF item[i].status = "pending" THEN "alone" ELSE item[i].by

\* Who decides the batch holds every row, and has written or has still to write
\* every item that waits for a decision.
AllInv(d) ==
  txn[d].step \in {"write", "trigger", "commit"} =>
    /\ holds[d] = Items
    /\ Considered # {} /\ Considered = txn[d].todo \cup DOMAIN txn[d].wrote
    /\ \A i \in Considered : item[i].status = "pending"
    /\ \A i \in DOMAIN txn[d].wrote :
         txn[d].wrote[i].status # "pending" /\ txn[d].wrote[i].by = d

IInv ==
  /\ Typed /\ ItemInv /\ LockInv
  /\ \A t \in Txns : TxnInv(t)
  /\ \A t \in Others : OneInv(t)
  /\ \A d \in Deciders : AllInv(d)
  /\ BundleStatusTrue /\ AllOrNone

(***************************************************************************)
(* Lemmas about the operators.                                             *)
(***************************************************************************)
\* A recomputed status is one of the four.
LEMMA RecomputedBatch == ASSUME NEW f PROVE Recomputed(f) \in Batch
  BY DEF Recomputed, Batch

\* Nothing goes back to waiting.
LEMMA AfterSettled == \A x : After(x) \subseteq Status \ {"pending"}
<1> SUFFICES ASSUME NEW x PROVE After(x) \subseteq Status \ {"pending"}
  OBVIOUS
<1>1. CASE x = "pending"
  BY <1>1 DEF After, Status, InFlight, Refused
<1>2. CASE x = "approved"
  BY <1>2 DEF After, Status, InFlight, Refused
<1>3. CASE x # "pending" /\ x # "approved"
  BY <1>3 DEF After
<1>4. QED
  BY <1>1, <1>2, <1>3

\* The first item is written.
LEMMA PartialOne ==
  ASSUME NEW i \in Items, NEW new \in Item
  PROVE  [j \in {i} |-> new] \in Partial
<1>1. [j \in {i} |-> new] \in [{i} -> Item]
  OBVIOUS
<1>2. QED
  BY <1>1 DEF Partial

\* One more item is written.
LEMMA PartialAdd ==
  ASSUME NEW w \in Partial, NEW i \in Items, NEW new \in Item
  PROVE  [j \in DOMAIN w \cup {i} |-> IF j = i THEN new ELSE w[j]] \in Partial
<1>1. PICK S \in SUBSET Items : w \in [S -> Item]
  BY DEF Partial
<1>2. [j \in DOMAIN w \cup {i} |-> IF j = i THEN new ELSE w[j]] \in [S \cup {i} -> Item]
  BY <1>1
<1>3. QED
  BY <1>1, <1>2 DEF Partial

\* The record of a transaction that has done nothing.
LEMMA IdleTyped ==
  /\ Idle \in Txn /\ Idle.step = "idle" /\ Idle.todo = {} /\ DOMAIN Idle.wrote = {}
  /\ Done \in Txn /\ Done.step = "done" /\ Done.todo = {} /\ DOMAIN Done.wrote = {}
<1>1. [i \in {} |-> Item] \in [{} -> Item]
  OBVIOUS
<1>2. [i \in {} |-> Item] \in Partial
  BY <1>1 DEF Partial
<1>3. QED
  BY <1>2 DEF Idle, Done, Txn, Verdict, Batch

\* What a transaction sees is an item.
LEMMA SeenTyped ==
  ASSUME Typed, NEW t \in Txns, NEW i \in Items
  PROVE  Seen(t, i) \in Item
<1>1. txn[t].wrote \in Partial
  BY DEF Typed, Txn
<1>2. PICK S \in SUBSET Items : txn[t].wrote \in [S -> Item]
  BY <1>1 DEF Partial
<1>3. QED
  BY <1>2 DEF Typed, Seen

(***************************************************************************)
(* Every step of a transaction t but its commit leaves the batch and the   *)
(* other transactions alone.                                               *)
(***************************************************************************)
Quiet(t) ==
  /\ item' = item /\ bundle' = bundle
  /\ \A u \in Txns \ {t} :
       /\ txn'[u] = txn[u] /\ holds'[u] = holds[u]
       /\ advisory' = u <=> advisory = u
       /\ holds'[t] \cap holds[u] = {}

Own(t) == TxnInv(t) /\ (t \in Others => OneInv(t)) /\ (t \in Deciders => AllInv(t))

LEMMA QuietStep ==
  ASSUME IInv, NEW t \in Txns, Quiet(t), Typed', Own(t)'
  PROVE  IInv'
<1>1. ItemInv'
  BY DEF IInv, ItemInv, Quiet
<1>2. LockInv'
  BY DEF IInv, LockInv, Quiet
<1>3. ASSUME NEW u \in Txns PROVE TxnInv(u)'
  <2>1. CASE u = t
    BY <2>1 DEF Own
  <2>2. CASE u # t
    <3>1. [i \in Items |-> Seen(u, i)]' = [i \in Items |-> Seen(u, i)]
      BY <2>2 DEF Quiet, Seen
    <3>2. TxnInv(u)
      BY DEF IInv
    <3>3. QED
      BY <2>2, <3>1, <3>2 DEF Quiet, TxnInv
  <2>3. QED
    BY <2>1, <2>2
<1>4. ASSUME NEW u \in Others PROVE OneInv(u)'
  BY DEF IInv, Own, OneInv, Quiet, Txns
<1>5. ASSUME NEW d \in Deciders PROVE AllInv(d)'
  BY DEF IInv, Own, AllInv, Quiet, Txns, Considered, SettledAtSubmit
<1>6. BundleStatusTrue' /\ AllOrNone'
  BY DEF IInv, BundleStatusTrue, AllOrNone, Quiet, Recomputed
<1>7. QED
  BY <1>1, <1>2, <1>3, <1>4, <1>5, <1>6 DEF IInv

(***************************************************************************)
(* One lemma per action.                                                   *)
(***************************************************************************)
LEMMA InitInv == Init => IInv
<1> SUFFICES ASSUME Init PROVE IInv
  OBVIOUS
<1>1. PICK auto \in SUBSET Items :
        item = [i \in Items |-> IF i \in auto THEN [status |-> "approved", by |-> "auto"]
                                ELSE [status |-> "pending", by |-> "nobody"]]
  BY DEF Init
<1>2. item \in [Items -> Item] /\ ItemInv
  BY <1>1 DEF ItemInv, Item, Status, InFlight, Authority
<1>3. Typed
  BY <1>2, IdleTyped DEF Init, Typed, Batch
<1>4. \A t \in Txns : TxnInv(t) /\ OneInv(t) /\ AllInv(t)
  BY IdleTyped, BundlesAssumption DEF Init, TxnInv, OneInv, AllInv, Txns, NoOne
<1>5. LockInv
  BY DEF Init, LockInv
<1>6. {item[i].status : i \in Items} \cap InFlight # {}
  BY <1>1, BundlesAssumption DEF InFlight
<1>7. BundleStatusTrue
  BY <1>6 DEF Init, BundleStatusTrue, Recomputed
<1>8. AllOrNone
  BY <1>1, BundlesAssumption DEF AllOrNone
<1>9. QED
  BY <1>2, <1>3, <1>4, <1>5, <1>7, <1>8 DEF IInv, Txns

LEMMA UpdateOneInv ==
  ASSUME IInv, NEW t \in Others, UpdateOne(t)
  PROVE  IInv'
<1>0. PICK i \in Items :
        /\ txn[t] = Idle /\ Unlocked(t, i)
        /\ \E s \in After(item[i].status) :
             txn' = [txn EXCEPT ![t] =
               [Idle EXCEPT !.step = "trigger",
                            !.wrote = [j \in {i} |-> [status |-> s, by |-> IF item[i].status = "pending"
                                                                    THEN "alone" ELSE item[i].by]]]]
        /\ holds' = [holds EXCEPT ![t] = {i}]
        /\ UNCHANGED <<item, bundle, advisory>>
  BY DEF UpdateOne
<1>1. PICK s \in After(item[i].status) :
        txn' = [txn EXCEPT ![t] =
          [Idle EXCEPT !.step = "trigger",
                       !.wrote = [j \in {i} |-> [status |-> s, by |-> IF item[i].status = "pending"
                                                               THEN "alone" ELSE item[i].by]]]]
  BY <1>0
<1> DEFINE new == [status |-> s, by |-> IF item[i].status = "pending" THEN "alone" ELSE item[i].by]
<1>2. new \in Item /\ s # "pending"
  <2>1. s \in Status /\ s # "pending"
    BY AfterSettled
  <2>2. item[i].by \in Authority
    BY DEF IInv, Typed, Item
  <2>3. QED
    BY <2>1, <2>2 DEF Item, Authority
<1>3. [j \in {i} |-> new] \in Partial
  BY <1>2, PartialOne
<1>4. t \in Txns /\ t \notin Deciders
  BY BundlesAssumption DEF Txns
<1>5. /\ txn'[t] \in Txn /\ txn'[t].step = "trigger" /\ txn'[t].todo = {}
      /\ txn'[t].wrote = [j \in {i} |-> new]
  BY <1>0, <1>1, <1>3, <1>4, IdleTyped DEF IInv, Typed, Txn
<1>6. Typed'
  BY <1>0, <1>1, <1>4, <1>5 DEF IInv, Typed
<1>7. Quiet(t)
  BY <1>0, <1>1, <1>4 DEF IInv, Typed, Quiet, Unlocked
<1>8. TxnInv(t)'
  BY <1>0, <1>1, <1>4, <1>5, IdleTyped DEF IInv, Typed, TxnInv
<1>9. OneInv(t)'
  BY <1>0, <1>1, <1>2, <1>5 DEF OneInv
<1>10. QED
  BY <1>4, <1>6, <1>7, <1>8, <1>9, QuietStep DEF Own

LEMMA BeginInv ==
  ASSUME IInv, NEW d \in Deciders, Begin(d)
  PROVE  IInv'
<1>1. PICK v \in Verdict : txn' = [txn EXCEPT ![d] = [Idle EXCEPT !.step = "lock", !.verdict = v]]
  BY DEF Begin
<1>2. d \in Txns /\ d \notin Others
  BY BundlesAssumption DEF Txns
<1>3. /\ txn'[d] \in Txn /\ txn'[d].step = "lock" /\ DOMAIN txn'[d].wrote = {}
  BY <1>1, <1>2, IdleTyped DEF IInv, Typed, Txn
<1>4. Typed'
  BY <1>1, <1>2, <1>3 DEF IInv, Typed, Begin
<1>5. holds[d] = {} /\ advisory # d
  BY <1>2, IdleTyped DEF IInv, TxnInv, Begin
<1>6. Quiet(d)
  BY <1>1, <1>2, <1>5 DEF IInv, Typed, Quiet, Begin
<1>7. Own(d)'
  BY <1>2, <1>3, <1>5 DEF Own, TxnInv, AllInv, Begin
<1>8. QED
  BY <1>2, <1>4, <1>6, <1>7, QuietStep

LEMMA LockItemInv ==
  ASSUME IInv, NEW t \in Txns, LockItem(t)
  PROVE  IInv'
<1>1. PICK i \in Items :
        /\ txn[t].step = "lock" /\ NextToLock(t, i) /\ Unlocked(t, i)
        /\ holds' = [holds EXCEPT ![t] = @ \cup {i}]
        /\ UNCHANGED <<item, bundle, advisory, txn>>
  BY DEF LockItem
<1>2. Typed'
  BY <1>1 DEF IInv, Typed
<1>3. Quiet(t)
  BY <1>1 DEF IInv, Typed, LockInv, Quiet, Unlocked
<1>4. TxnInv(t) /\ (t \in Others => OneInv(t)) /\ (t \in Deciders => AllInv(t))
  BY DEF IInv
<1>5. \A j \in Items \ (holds[t] \cup {i}), k \in holds[t] \cup {i} : k < j
  <2> SUFFICES ASSUME NEW j \in Items \ (holds[t] \cup {i}), NEW k \in holds[t] \cup {i} PROVE k < j
    OBVIOUS
  <2>1. i <= j /\ i # j
    BY <1>1 DEF NextToLock
  <2>2. k \in Items /\ j \in Items
    BY DEF IInv, Typed
  <2>3. k \in holds[t] => k < j
    BY <1>1, <1>4 DEF TxnInv
  <2>4. QED
    BY <2>1, <2>2, <2>3, BundlesAssumption
<1>6. TxnInv(t)'
  BY <1>1, <1>4, <1>5 DEF IInv, Typed, TxnInv
<1>7. (t \in Others => OneInv(t)') /\ (t \in Deciders => AllInv(t)')
  BY <1>1, <1>4 DEF OneInv, AllInv
<1>8. QED
  BY <1>2, <1>3, <1>6, <1>7, QuietStep DEF Own

\* Only who decides the batch locks its rows one by one.
LEMMA LocksAll ==
  ASSUME IInv, NEW t \in Txns, txn[t].step \in {"lock", "write"}
  PROVE  t \in Deciders /\ t \notin Others
  BY DEF IInv, OneInv, Txns

LEMMA CheckInv ==
  ASSUME IInv, NEW t \in Txns, Check(t)
  PROVE  IInv'
<1>1. t \in Deciders /\ t \notin Others
  BY LocksAll DEF Check
<1>2. OpenItems = Considered /\ \A i \in Considered : item[i].status = "pending"
  BY DEF Check, OpenItems
<1>3. OpenItems \subseteq Items
  BY DEF OpenItems, Considered
<1>4. /\ txn'[t] \in Txn /\ txn'[t].step = "write" /\ txn'[t].todo = OpenItems
      /\ txn'[t].wrote = txn[t].wrote
  BY <1>3 DEF IInv, Typed, Txn, Check
<1>5. Typed'
  BY <1>4 DEF IInv, Typed, Check
<1>6. Quiet(t)
  BY DEF IInv, Typed, Check, Quiet, LockInv
<1>7. TxnInv(t)
  BY DEF IInv
<1>8. TxnInv(t)'
  BY <1>4, <1>7 DEF TxnInv, Check
<1>9. AllInv(t)'
  <2>1. Considered' = Considered
    BY DEF Considered, SettledAtSubmit, Check
  <2>2. DOMAIN txn[t].wrote = {}
    BY <1>7 DEF TxnInv, Check
  <2>3. QED
    BY <1>2, <1>4, <2>1, <2>2 DEF AllInv, Check
<1>10. QED
  BY <1>1, <1>5, <1>6, <1>8, <1>9, QuietStep DEF Own

\* A transaction that ends has nothing left.
LEMMA EndedOwn ==
  ASSUME IInv, NEW t \in Txns, Ended(t)
  PROVE  /\ txn' \in [Txns -> Txn] /\ holds' \in [Txns -> SUBSET Items]
         /\ advisory' \in Txns \cup {NoOne}
         /\ TxnInv(t)' /\ (t \in Others => OneInv(t)') /\ AllInv(t)'
         /\ \A u \in Txns \ {t} :
              /\ txn'[u] = txn[u] /\ holds'[u] = holds[u]
              /\ advisory' = u <=> advisory = u
              /\ holds'[t] \cap holds[u] = {}
<1>1. /\ txn'[t] \in Txn /\ txn'[t].step \in {"idle", "done"} /\ txn'[t].todo = {}
      /\ t \notin Deciders => txn'[t].step = "idle"
      /\ DOMAIN txn'[t].wrote = {}
  BY IdleTyped DEF IInv, Typed, Ended
<1>2. holds'[t] = {} /\ advisory' # t
  BY BundlesAssumption DEF IInv, Typed, Ended, NoOne, Txns
<1>3. TxnInv(t)' /\ (t \in Others => OneInv(t)') /\ AllInv(t)'
  BY <1>1, <1>2, BundlesAssumption DEF TxnInv, OneInv, AllInv
<1>4. txn' \in [Txns -> Txn] /\ holds' \in [Txns -> SUBSET Items] /\ advisory' \in Txns \cup {NoOne}
  BY IdleTyped DEF IInv, Typed, Ended
<1>5. \A u \in Txns \ {t} :
        txn'[u] = txn[u] /\ holds'[u] = holds[u] /\ (advisory' = u <=> advisory = u)
  BY BundlesAssumption DEF IInv, Typed, Ended, NoOne, Txns
<1>6. QED
  BY <1>2, <1>3, <1>4, <1>5

LEMMA RefuseInv ==
  ASSUME IInv, NEW t \in Txns, Refuse(t)
  PROVE  IInv'
<1>1. Ended(t) /\ UNCHANGED <<item, bundle>>
  BY DEF Refuse
<1>2. Typed' /\ Quiet(t) /\ Own(t)'
  BY <1>1, EndedOwn DEF IInv, Typed, Quiet, Own
<1>3. QED
  BY <1>2, QuietStep

LEMMA DecidedStatus ==
  \A v : Decided(v) \in Status \ {"pending"}
  BY DEF Decided, Status, InFlight, Refused

LEMMA WriteItemInv ==
  ASSUME IInv, NEW t \in Txns, WriteItem(t)
  PROVE  IInv'
<1> DEFINE new == [status |-> Decided(txn[t].verdict), by |-> t]
<1>1. PICK i \in txn[t].todo :
        /\ txn[t].step = "write"
        /\ txn' = [txn EXCEPT ![t].step = "trigger", ![t].todo = @ \ {i},
                              ![t].wrote = [j \in DOMAIN @ \cup {i} |-> IF j = i THEN new ELSE @[j]]]
        /\ UNCHANGED <<item, bundle, holds, advisory>>
  BY DEF WriteItem
<1>2. t \in Deciders /\ t \notin Others
  BY <1>1, LocksAll
<1>3. new \in Item /\ new.status # "pending" /\ new.by = t
  BY <1>2, DecidedStatus DEF Item, Authority
<1>4. txn[t] \in Txn /\ i \in Items /\ txn[t].todo \subseteq Items
  BY DEF IInv, Typed, Txn
<1> HIDE DEF new
<1>5. [j \in DOMAIN txn[t].wrote \cup {i} |-> IF j = i THEN new ELSE txn[t].wrote[j]] \in Partial
  BY <1>3, <1>4, PartialAdd DEF Txn
<1>6. /\ txn'[t] \in Txn /\ txn'[t].step = "trigger" /\ txn'[t].todo = txn[t].todo \ {i}
      /\ txn'[t].wrote = [j \in DOMAIN txn[t].wrote \cup {i} |-> IF j = i THEN new ELSE txn[t].wrote[j]]
  BY <1>1, <1>4, <1>5 DEF IInv, Typed, Txn
<1>7. Typed'
  BY <1>1, <1>6 DEF IInv, Typed
<1>8. Quiet(t)
  BY <1>1 DEF IInv, Typed, Quiet, LockInv
<1>9. TxnInv(t) /\ AllInv(t)
  BY <1>2 DEF IInv
<1>10. holds[t] = Items /\ Considered = txn[t].todo \cup DOMAIN txn[t].wrote
  BY <1>1, <1>9 DEF AllInv
<1>11. DOMAIN txn'[t].wrote = DOMAIN txn[t].wrote \cup {i}
  BY <1>6
<1>12. TxnInv(t)'
  BY <1>1, <1>4, <1>6, <1>9, <1>10, <1>11 DEF TxnInv
<1>13. AllInv(t)'
  <2>1. Considered' = Considered
    BY <1>1 DEF Considered, SettledAtSubmit
  <2>2. \A j \in DOMAIN txn'[t].wrote : txn'[t].wrote[j].status # "pending" /\ txn'[t].wrote[j].by = t
    BY <1>1, <1>3, <1>6, <1>9, <1>11 DEF AllInv
  <2>3. Considered # {} /\ \A j \in Considered : item'[j].status = "pending"
    BY <1>1, <1>9 DEF AllInv
  <2>4. Considered = txn'[t].todo \cup DOMAIN txn'[t].wrote
    BY <1>6, <1>10, <1>11
  <2>5. QED
    BY <1>1, <1>10, <2>1, <2>2, <2>3, <2>4 DEF AllInv
<1>14. QED
  BY <1>2, <1>7, <1>8, <1>12, <1>13, QuietStep DEF Own

LEMMA TriggerInv ==
  ASSUME IInv, NEW t \in Txns, Trigger(t)
  PROVE  IInv'
<1> DEFINE new == Recomputed([i \in Items |-> Seen(t, i)])
<1>1. /\ txn[t].step = "trigger" /\ advisory \in {NoOne, t} /\ advisory' = t
      /\ txn' = [txn EXCEPT ![t].status = new,
                            ![t].step = IF txn[t].todo = {} THEN "commit" ELSE "write"]
      /\ UNCHANGED <<item, bundle, holds>>
  BY DEF Trigger, LockedBatch
<1>2. new \in Batch
  BY RecomputedBatch
<1> HIDE DEF new
<1>3. /\ txn'[t] \in Txn /\ txn'[t].step = IF txn[t].todo = {} THEN "commit" ELSE "write"
      /\ txn'[t].status = new /\ txn'[t].todo = txn[t].todo /\ txn'[t].wrote = txn[t].wrote
  BY <1>1, <1>2 DEF IInv, Typed, Txn
<1>4. Typed'
  BY <1>1, <1>3 DEF IInv, Typed
<1>5. Quiet(t)
  BY <1>1, BundlesAssumption DEF IInv, Typed, Quiet, LockInv, NoOne, Txns
<1>6. TxnInv(t) /\ (t \in Others => OneInv(t)) /\ (t \in Deciders => AllInv(t))
  BY DEF IInv
<1>7. [i \in Items |-> Seen(t, i)]' = [i \in Items |-> Seen(t, i)]
  BY <1>1, <1>3 DEF Seen
<1>8. TxnInv(t)'
  <2>1. Recomputed([i \in Items |-> Seen(t, i)])' = new
    BY <1>7 DEF Recomputed, new
  <2>2. txn'[t].step = "commit" =>
          /\ advisory' = t /\ txn'[t].todo = {}
          /\ txn'[t].status = Recomputed([i \in Items |-> Seen(t, i)])'
    BY <1>1, <1>3, <2>1
  <2>3. /\ txn'[t].step \in {"write", "commit"} /\ holds' = holds
        /\ DOMAIN txn'[t].wrote \subseteq holds'[t]
    BY <1>1, <1>3, <1>6 DEF TxnInv
  <2>4. QED
    BY <2>2, <2>3 DEF TxnInv
<1>9. t \in Others => OneInv(t)'
  <2>1. t \in Others => txn[t].todo = {}
    BY <1>6 DEF OneInv
  <2>2. QED
    BY <1>1, <1>3, <1>6, <2>1 DEF OneInv
<1>10. t \in Deciders => AllInv(t)'
  BY <1>1, <1>3, <1>6 DEF AllInv, Considered, SettledAtSubmit
<1>11. QED
  BY <1>4, <1>5, <1>8, <1>9, <1>10, QuietStep DEF Own

\* What a transaction has written is decided, and by whom the invariant says.
LEMMA WroteDecided ==
  ASSUME IInv, NEW t \in Txns, NEW i \in DOMAIN txn[t].wrote, txn[t].step = "commit"
  PROVE  /\ i \in Items /\ Seen(t, i) = txn[t].wrote[i]
         /\ Seen(t, i).status # "pending" /\ Seen(t, i).by # "nobody"
         /\ t \in Others => Seen(t, i).by \in {"alone", item[i].by}
         /\ t \in Others /\ Seen(t, i).by = item[i].by => item[i].by # "nobody"
         /\ t \in Deciders => Seen(t, i).by = t
<1>1. i \in Items
  BY DEF IInv, Typed, TxnInv
<1>2. Seen(t, i) = txn[t].wrote[i]
  BY DEF Seen
<1>3. CASE t \in Others
  <2>1. t \notin Deciders /\ OneInv(t)
    BY <1>3, BundlesAssumption DEF IInv
  <2>2. item[i].status # "pending" => item[i].by # "nobody"
    BY <1>1 DEF IInv, ItemInv
  <2>3. item[i].status = "pending" => item[i].by = "nobody"
    BY <1>1 DEF IInv, ItemInv
  <2>4. QED
    BY <1>1, <1>2, <2>1, <2>2, <2>3 DEF OneInv
<1>4. CASE t \in Deciders
  <2>1. t \notin Others /\ t # "nobody" /\ AllInv(t)
    BY <1>4, BundlesAssumption DEF IInv
  <2>2. QED
    BY <1>1, <1>2, <1>4, <2>1 DEF AllInv
<1>5. QED
  BY <1>3, <1>4 DEF Txns

LEMMA CommitInv ==
  ASSUME IInv, NEW t \in Txns, Commit(t)
  PROVE  IInv'
<1>1. /\ txn[t].step = "commit" /\ advisory = t /\ txn[t].todo = {}
      /\ item' = [i \in Items |-> Seen(t, i)]
      /\ bundle' = Recomputed([i \in Items |-> Seen(t, i)])
      /\ Ended(t)
  BY DEF IInv, TxnInv, Commit
<1>2. \A i \in Items : i \notin DOMAIN txn[t].wrote => item'[i] = item[i]
  BY <1>1 DEF Seen
<1>3. item' \in [Items -> Item]
  BY <1>1, SeenTyped DEF IInv
<1>4. Typed'
  <2>1. bundle' \in Batch
    BY <1>1, RecomputedBatch
  <2>2. QED
    BY <1>1, <1>3, <2>1, EndedOwn DEF Typed
<1>5. ItemInv'
  <2> SUFFICES ASSUME NEW i \in Items
               PROVE  item'[i].status = "pending" <=> item'[i].by = "nobody"
    BY DEF ItemInv
  <2>1. CASE i \in DOMAIN txn[t].wrote
    BY <1>1, <2>1, WroteDecided
  <2>2. CASE i \notin DOMAIN txn[t].wrote
    BY <1>2, <2>2 DEF IInv, ItemInv
  <2>3. QED
    BY <2>1, <2>2
<1>6. LockInv'
  BY <1>1, EndedOwn DEF IInv, LockInv
<1>7. ASSUME NEW u \in Txns, u # t
      PROVE  /\ holds[u] \cap DOMAIN txn[t].wrote = {} /\ advisory # u
             /\ txn'[u] = txn[u] /\ holds'[u] = holds[u] /\ advisory' # u
             /\ holds[u] \subseteq Items /\ DOMAIN txn[u].wrote \subseteq holds[u]
             /\ \A i \in holds[u] : item'[i] = item[i]
  <2>1. DOMAIN txn[t].wrote \subseteq holds[t] /\ DOMAIN txn[u].wrote \subseteq holds[u]
    BY DEF IInv, TxnInv
  <2>2. holds[u] \cap holds[t] = {} /\ holds[u] \subseteq Items
    BY <1>7 DEF IInv, LockInv, Typed
  <2>3. QED
    BY <1>1, <1>2, <1>7, <2>1, <2>2, EndedOwn
<1>8. ASSUME NEW u \in Txns PROVE TxnInv(u)'
  <2>1. CASE u # t
    BY <1>7, <2>1 DEF IInv, TxnInv
  <2>2. QED
    BY <1>1, <2>1, EndedOwn
<1>9. ASSUME NEW u \in Others PROVE OneInv(u)'
  <2>1. u \in Txns
    BY DEF Txns
  <2>2. CASE u # t
    <3>1. OneInv(u)
      BY DEF IInv
    <3>2. QED
      BY <1>7, <2>1, <2>2, <3>1 DEF OneInv
  <2>3. QED
    BY <1>1, <2>1, <2>2, EndedOwn
<1>10. ASSUME NEW d \in Deciders PROVE AllInv(d)'
  <2>1. d \in Txns /\ AllInv(d)
    BY DEF Txns, IInv
  <2>2. CASE d # t
    <3>1. CASE txn[d].step \in {"write", "trigger", "commit"}
      <4>1. holds[d] = Items
        BY <2>1, <3>1 DEF AllInv
      <4>2. \A i \in Items : item'[i] = item[i]
        BY <1>7, <2>1, <2>2, <4>1
      <4>3. Considered' = Considered /\ Considered \subseteq Items
        BY <4>2 DEF Considered, SettledAtSubmit
      <4>4. QED
        BY <1>7, <2>1, <2>2, <4>2, <4>3 DEF AllInv
    <3>2. CASE txn[d].step \notin {"write", "trigger", "commit"}
      BY <1>7, <2>1, <2>2, <3>2 DEF AllInv
    <3>3. QED
      BY <3>1, <3>2
  <2>3. QED
    BY <1>1, <2>1, <2>2, EndedOwn
<1>11. BundleStatusTrue'
  BY <1>1 DEF BundleStatusTrue
<1>12. AllOrNone'
  <2> SUFFICES ASSUME NEW d \in Deciders, NEW i \in Items, item'[i].by = d, NEW j \in Items
               PROVE  item'[j].by \in {d, "auto"}
    BY DEF AllOrNone
  <2>1. d \notin {"nobody", "auto", "alone"}
    BY BundlesAssumption
  <2>2. CASE t \in Others
    <3>1. item[i].by = d
      BY <1>1, <1>2, <2>1, <2>2, WroteDecided
    <3>2. item[j].by \in {d, "auto"}
      BY <3>1 DEF IInv, AllOrNone
    <3>3. item[j].status # "pending"
      BY <2>1, <3>2 DEF IInv, ItemInv
    <3>4. CASE j \in DOMAIN txn[t].wrote
      <4>1. item'[j] = txn[t].wrote[j]
        BY <1>1 , <3>4 DEF Seen
      <4>2. txn[t].wrote[j].by = item[j].by
        BY <2>2, <3>3, <3>4 DEF IInv, OneInv
      <4>3. QED
        BY <3>2, <4>1, <4>2
    <3>5. QED
      BY <1>2, <3>2, <3>4
  <2>3. CASE t \in Deciders
    <3>1. Considered = DOMAIN txn[t].wrote
      BY <1>1, <2>3 DEF IInv, AllInv
    <3>2. \A k \in Items : item'[k].by \in {t, "auto"}
      BY <1>1, <1>2, <2>3, <3>1, WroteDecided DEF Considered, SettledAtSubmit
    <3>3. QED
      BY <2>1, <3>2
  <2>4. QED
    BY <2>2, <2>3 DEF Txns
<1>13. QED
  BY <1>4, <1>5, <1>6, <1>8, <1>9, <1>10, <1>11, <1>12 DEF IInv

LEMMA StepInv == IInv /\ [Next]_vars => IInv'
<1> SUFFICES ASSUME IInv, [Next]_vars PROVE IInv'
  OBVIOUS
<1>1. CASE \E t \in Others : UpdateOne(t)
  BY <1>1, UpdateOneInv
<1>2. CASE \E d \in Deciders : Begin(d)
  BY <1>2, BeginInv
<1>3. CASE \E t \in Txns : Step(t)
  BY <1>3, LockItemInv, CheckInv, RefuseInv, WriteItemInv, TriggerInv, CommitInv DEF Step
<1>4. CASE UNCHANGED vars
  <2>1. item' = item /\ bundle' = bundle /\ holds' = holds /\ advisory' = advisory /\ txn' = txn
    BY <1>4 DEF vars
  <2>2. Typed' /\ ItemInv' /\ LockInv' /\ AllOrNone'
    BY <2>1 DEF IInv, Typed, ItemInv, LockInv, AllOrNone
  <2>3. ASSUME NEW t \in Txns PROVE TxnInv(t)'
    <3>1. [i \in Items |-> Seen(t, i)]' = [i \in Items |-> Seen(t, i)]
      BY <2>1 DEF Seen
    <3>2. TxnInv(t)
      BY DEF IInv
    <3>3. QED
      BY <2>1, <3>1, <3>2 DEF TxnInv
  <2>4. (\A t \in Others : OneInv(t)') /\ \A d \in Deciders : AllInv(d)'
    BY <2>1 DEF IInv, OneInv, AllInv, Considered, SettledAtSubmit
  <2>5. BundleStatusTrue'
    BY <2>1 DEF IInv, BundleStatusTrue
  <2>6. QED
    BY <2>2, <2>3, <2>4, <2>5 DEF IInv
<1>5. QED
  BY <1>1, <1>2, <1>3, <1>4 DEF Next

(***************************************************************************)
(* Bundles: the theorems.                                                  *)
(***************************************************************************)
\* The invariant holds in every state, however many decide and change the items
\* of the batch at the same time.
THEOREM Invariance == Spec => []IInv
<1>1. Init => IInv
  BY InitInv
<1>2. IInv /\ [Next]_vars => IInv'
  BY StepInv
<1>3. QED
  BY <1>1, <1>2, PTL DEF Spec

\* Every variable has its type.
THEOREM TypeCorrect == Spec => []TypeOK
<1>1. IInv => TypeOK
  <2> SUFFICES ASSUME IInv PROVE TypeOK
    OBVIOUS
  <2>1. Typed
    BY DEF IInv
  <2>2. ASSUME NEW t \in Txns PROVE Written(txn[t].wrote)
    <3>1. txn[t].wrote \in Partial
      BY <2>1 DEF Typed, Txn
    <3>2. PICK S \in SUBSET Items : txn[t].wrote \in [S -> Item]
      BY <3>1 DEF Partial
    <3>3. QED
      BY <3>2 DEF Written
  <2>3. QED
    BY <2>1, <2>2 DEF TypeOK, Typed, Txn
<1>2. QED
  BY <1>1, Invariance, PTL

\* The status of the batch is the one its items make, whoever ended them at the
\* same time: nobody recomputes it but under the lock of the batch, from what is
\* committed and what he is about to commit.
THEOREM StatusOfTheBatchIsTrue == Spec => []BundleStatusTrue
<1>1. IInv => BundleStatusTrue
  BY DEF IInv
<1>2. QED
  BY <1>1, Invariance, PTL

\* A decision of the batch decides every item that waited for one, or none.
THEOREM DecisionIsAllOrNone == Spec => []AllOrNone
<1>1. IInv => AllOrNone
  BY DEF IInv
<1>2. QED
  BY <1>1, Invariance, PTL

\* A set of items has a first one.
LEMMA FirstItem ==
  ASSUME NEW S, S \subseteq Items, S # {}
  PROVE  \E i \in S : \A j \in S : i <= j
<1>1. S \subseteq Nat /\ S # {}
  BY BundlesAssumption
<1>2. \A i, j \in Nat : j < i => <<j, i>> \in OpToRel(<, Nat)
  BY SMT DEF OpToRel
<1>3. PICK i \in S : \A j \in S : ~ (<<j, i>> \in OpToRel(<, Nat))
  BY <1>1, NatLessThanWellFounded, WFMin
<1>4. ASSUME NEW j \in S PROVE i <= j
  <2>1. i \in Nat /\ j \in Nat
    BY <1>1
  <2>2. ~ (j < i)
    BY <1>2, <1>3, <2>1
  <2>3. QED
    BY <2>1, <2>2
<1>5. QED
  BY <1>4

\* Of the transactions that have begun one can always go on.
THEOREM NobodyIsStuck == Spec => []NobodyStuck
<1>1. IInv => NobodyStuck
  <2> SUFFICES ASSUME IInv, NEW u \in Txns, Busy(u)
               PROVE  \E t \in Txns : Busy(t) /\ ~Waits(t)
    BY DEF NobodyStuck
  <2>1. \A t \in Txns : TxnInv(t) /\ txn[t] \in Txn /\ holds[t] \subseteq Items
    BY DEF IInv, Typed
  \* Who has the lock of the batch waits for nothing.
  <2>2. CASE advisory \in Txns
    BY <2>1, <2>2 DEF TxnInv, Busy, Waits
  \* While nobody has it, who has come past the row locks waits for nothing.
  <2>3. CASE advisory = NoOne /\ \E t \in Txns : txn[t].step \in {"write", "trigger", "commit"}
    BY <2>3 DEF Busy, Waits
  \* Otherwise everyone who has begun locks rows, and only they hold any.
  <2>4. CASE \A t \in Txns : txn[t].step \in {"idle", "done", "lock"}
    <3>1. txn[u].step = "lock"
      BY <2>4 DEF Busy
    <3>2. \E t \in Txns : txn[t].step = "lock" /\ \A v \in Txns \ {t} : holds[v] = {}
      <4>1. CASE \A v \in Txns : holds[v] = {}
        BY <3>1, <4>1
      <4>2. ASSUME NEW t \in Txns, holds[t] # {}, NEW v \in Txns \ {t} PROVE holds[v] = {}
        <5> SUFFICES ASSUME holds[v] # {} PROVE FALSE
          OBVIOUS
        <5>1. PICK i \in holds[t], k \in holds[v] : TRUE
          BY <4>2
        <5>2. i \notin holds[v] /\ k \notin holds[t]
          BY DEF IInv, LockInv
        <5>3. txn[t].step = "lock" /\ txn[v].step = "lock"
          BY <2>1, <2>4, <4>2 DEF TxnInv
        <5>4. i < k /\ k < i /\ i \in Nat /\ k \in Nat
          BY <2>1, <5>2, <5>3, BundlesAssumption DEF TxnInv
        <5>5. QED
          BY <5>4
      <4>3. ASSUME NEW t \in Txns, holds[t] # {} PROVE txn[t].step = "lock"
        BY <2>1, <2>4, <4>3 DEF TxnInv
      <4>4. QED
        BY <4>1, <4>2, <4>3
    <3>3. PICK t \in Txns : txn[t].step = "lock" /\ \A v \in Txns \ {t} : holds[v] = {}
      BY <3>2
    <3>4. CASE holds[t] # Items
      <4>1. PICK i \in Items \ holds[t] : \A j \in Items \ holds[t] : i <= j
        BY <2>1, <3>4, FirstItem
      <4>2. NextToLock(t, i) /\ Unlocked(t, i)
        BY <3>3, <4>1 DEF NextToLock, Unlocked
      <4>3. QED
        BY <3>3, <4>2 DEF Busy, Waits
    <3>5. CASE holds[t] = Items
      BY <3>3, <3>5 DEF Busy, Waits
    <3>6. QED
      BY <3>4, <3>5
  <2>5. QED
    BY <2>1, <2>2, <2>3, <2>4 DEF IInv, Typed, Txn
<1>2. QED
  BY <1>1, Invariance, PTL

(***************************************************************************)
(* DbPool: one thread tries, and whoever waits for it has waited for less  *)
(* than it has tried.                                                      *)
(***************************************************************************)
Trying(t)  == thread[t] \in Pool!Tries
Waiting(t) == thread[t] = "ask" \/ Trying(t)

\* The lock has one holder.
OneTry == \A t, h \in Threads : Trying(t) /\ Trying(h) => t = h

\* The attempt is in its time, and nobody has waited for longer.
TryInv ==
  \A t \in Threads : Trying(t) =>
    /\ trying <= Pool!WaitOf(t)
    /\ \A h \in Threads : Waiting(h) => waited[h] <= trying

\* Who still asks after an attempt has not to make another.
AskInv ==
  ~Pool!Locked =>
    \A t \in Threads : thread[t] = "ask" => waited[t] = 0 \/ pool # "none" \/ Pool!Cool

RestInv == \A t \in Threads : ~Waiting(t) => waited[t] = 0

\* The inductive invariant of DbPool.
PoolInv == Pool!TypeOK /\ OneTry /\ TryInv /\ AskInv /\ RestInv /\ PoolOneWait

\* The times are numbers, a retry takes no longer than a first attempt, and the
\* cooldown is not over at once (RETRY_WAIT_SEC, _FIRST_WAIT_SEC, RETRY_COOLDOWN_SEC).
LEMMA PoolNumbers ==
  /\ Cooldown \in Nat /\ RetryWait \in Nat /\ FirstWait \in Nat
  /\ 0 < Cooldown /\ RetryWait <= FirstWait /\ Pool!Long = Cooldown
  /\ \A t : Pool!WaitOf(t) \in Nat /\ Pool!WaitOf(t) <= FirstWait
  BY PartPoolAssumption DEF Pool!DbPoolAssumption, Pool!Long, Pool!WaitOf

\* At first nobody asks.
LEMMA PoolInit == Pool!Init => PoolInv
  <1> SUFFICES ASSUME Pool!Init PROVE PoolInv
    OBVIOUS
  <1>1. /\ up = FALSE /\ pool = "none" /\ trying = 0
        /\ thread = [t \in Threads |-> "idle"] /\ waited = [t \in Threads |-> 0]
    BY DEF Pool!Init
  <1>2. failed \in [known : BOOLEAN, age : 0..Pool!Long]
    <2>1. failed = [known |-> FALSE, age |-> Pool!Long]
      BY DEF Pool!Init
    <2>2. Pool!Long \in 0..Pool!Long
      BY PoolNumbers
    <2>3. QED
      BY <2>1, <2>2
  <1>3. \A t \in Threads : thread[t] = "idle" /\ waited[t] = 0
    BY <1>1
  <1>4. trying \in 0..FirstWait
    BY <1>1, PoolNumbers
  <1>5. Pool!TypeOK
    BY <1>1, <1>2, <1>4 DEF Pool!TypeOK
  <1>6. \A t \in Threads : ~Trying(t) /\ ~Waiting(t)
    BY <1>3 DEF Waiting, Trying, Pool!Tries
  <1>7. OneTry /\ TryInv
    BY <1>6 DEF OneTry, TryInv
  <1>8. AskInv /\ RestInv
    BY <1>3 DEF AskInv, RestInv
  <1>9. PoolOneWait
    BY <1>3, PoolNumbers DEF PoolOneWait, Pool!OneWait
  <1>10. QED
    BY <1>5, <1>7, <1>8, <1>9 DEF PoolInv

\* A thread that asks has not waited yet.
LEMMA AskKeepsPool ==
  ASSUME PoolInv, NEW t \in Threads, Pool!Ask(t)
  PROVE  PoolInv'
  <1>1. /\ thread \in [Threads -> {"idle", "ask", "over"} \cup Pool!Tries]
        /\ thread[t] = "idle" /\ thread' = [thread EXCEPT ![t] = "ask"]
        /\ UNCHANGED <<up, pool, failed, waited, trying>>
    BY DEF PoolInv, Pool!TypeOK, Pool!Ask, Pool!Set
  <1>2. waited[t] = 0
    BY <1>1 DEF PoolInv, RestInv, Waiting, Trying, Pool!Tries
  <1>3. thread'[t] = "ask" /\ \A h \in Threads \ {t} : thread'[h] = thread[h]
    BY <1>1
  <1>4. \A h \in Threads : Trying(h)' <=> Trying(h)
    BY <1>1, <1>3 DEF Trying, Pool!Tries
  <1>5. Pool!TypeOK'
    BY <1>1 DEF PoolInv, Pool!TypeOK
  <1>6. OneTry'
    BY <1>4 DEF PoolInv, OneTry
  <1>7. TryInv'
    <2>1. trying \in Nat
      BY PoolNumbers DEF PoolInv, Pool!TypeOK
    <2>2. \A h \in Threads : Trying(h) => Pool!WaitOf(h)' = Pool!WaitOf(h)
      BY <1>1, <1>3 DEF Trying, Pool!Tries, Pool!WaitOf
    <2>3. \A h \in Threads : Waiting(h)' => Waiting(h) \/ h = t
      BY <1>3 DEF Waiting, Trying
    <2>4. QED
      BY <1>1, <1>2, <1>4, <2>1, <2>2, <2>3 DEF PoolInv, TryInv
  <1>8. AskInv'
    <2>1. Pool!Locked' <=> Pool!Locked
      BY <1>4 DEF Pool!Locked, Trying
    <2>2. Pool!Cool' <=> Pool!Cool
      BY <1>1 DEF Pool!Cool
    <2>3. QED
      BY <1>1, <1>2, <1>3, <2>1, <2>2 DEF PoolInv, AskInv
  <1>9. RestInv' /\ PoolOneWait'
    BY <1>1, <1>3 DEF PoolInv, RestInv, Waiting, Trying, PoolOneWait, Pool!OneWait
  <1>10. QED
    BY <1>5, <1>6, <1>7, <1>8, <1>9 DEF PoolInv

\* Under the lock a thread is answered, or tries when nobody has waited.
LEMMA EnsureKeepsPool ==
  ASSUME PoolInv, NEW t \in Threads, Pool!Ensure(t)
  PROVE  PoolInv'
  <1>1. /\ thread \in [Threads -> {"idle", "ask", "over"} \cup Pool!Tries]
        /\ waited \in [Threads -> Nat]
        /\ thread[t] = "ask" /\ ~Pool!Locked
        /\ UNCHANGED <<up, pool, failed>>
    BY DEF PoolInv, Pool!TypeOK, Pool!Ensure, Pool!CanEnsure
  <1>2. \A h \in Threads : ~Trying(h)
    BY <1>1 DEF Pool!Locked, Trying
  <1>3. CASE pool # "none" \/ Pool!Cool
    <2>1. /\ thread' = [thread EXCEPT ![t] = "over"] /\ waited' = [waited EXCEPT ![t] = 0]
          /\ trying' = trying
      BY <1>3 DEF Pool!Ensure, Pool!Answer, Pool!Set
    <2>2. /\ thread'[t] = "over" /\ waited'[t] = 0
          /\ \A h \in Threads \ {t} : thread'[h] = thread[h] /\ waited'[h] = waited[h]
      BY <1>1, <2>1
    <2>3. \A h \in Threads : ~Trying(h)'
      BY <1>2, <2>2 DEF Trying, Pool!Tries
    <2>4. Pool!TypeOK'
      BY <1>1, <2>1 DEF PoolInv, Pool!TypeOK
    <2>5. OneTry' /\ TryInv'
      BY <2>3 DEF OneTry, TryInv
    <2>6. AskInv'
      BY <1>1, <1>3 DEF AskInv, Pool!Cool
    <2>7. RestInv' /\ PoolOneWait'
      BY <2>2, PoolNumbers DEF PoolInv, RestInv, Waiting, Trying, PoolOneWait, Pool!OneWait
    <2>8. QED
      BY <2>4, <2>5, <2>6, <2>7 DEF PoolInv
  <1>4. CASE pool = "none" /\ ~Pool!Cool
    <2>1. PICK step \in Pool!Tries : thread' = [thread EXCEPT ![t] = step] /\ trying' = 0 /\ UNCHANGED waited
      BY <1>4 DEF Pool!Ensure, Pool!Set, Pool!Tries
    <2>2. thread'[t] = step /\ \A h \in Threads \ {t} : thread'[h] = thread[h]
      BY <1>1, <2>1
    <2>3. \A h \in Threads : waited[h] = 0
      BY <1>1, <1>2, <1>4 DEF PoolInv, AskInv, RestInv, Waiting
    <2>4. Pool!TypeOK'
      BY <1>1, <2>1, PoolNumbers DEF PoolInv, Pool!TypeOK
    <2>5. \A h \in Threads : Trying(h)' <=> h = t
      BY <1>2, <2>2 DEF Trying
    <2>6. OneTry'
      BY <2>5 DEF OneTry
    <2>7. TryInv'
      <3>1. Pool!WaitOf(t)' \in Nat
        BY PoolNumbers DEF Pool!WaitOf
      <3>2. QED
        BY <2>1, <2>3, <2>5, <3>1 DEF TryInv
    <2>8. AskInv'
      BY <2>1, <2>3 DEF AskInv
    <2>9. RestInv' /\ PoolOneWait'
      BY <2>1, <2>3, PoolNumbers DEF RestInv, PoolOneWait, Pool!OneWait
    <2>10. QED
      BY <2>4, <2>6, <2>7, <2>8, <2>9 DEF PoolInv
  <1>5. QED
    BY <1>3, <1>4

\* The attempt is over: there is a pool, or the cooldown begins.
LEMMA ConnectKeepsPool ==
  ASSUME PoolInv, NEW t \in Threads, Pool!Connect(t)
  PROVE  PoolInv'
  <1>1. /\ thread \in [Threads -> {"idle", "ask", "over"} \cup Pool!Tries]
        /\ waited \in [Threads -> Nat] /\ Trying(t) /\ up' = up
        /\ thread' = [thread EXCEPT ![t] = "over"] /\ waited' = [waited EXCEPT ![t] = 0] /\ trying' = 0
    BY DEF PoolInv, Pool!TypeOK, Pool!Connect, Pool!Answer, Pool!Set, Trying
  <1>2. \/ pool' = "open" /\ failed' = [known |-> FALSE, age |-> Pool!Long]
        \/ pool' = "none" /\ failed' = [known |-> TRUE, age |-> 0]
    BY DEF Pool!Connect, Pool!FailedPool
  <1>3. /\ thread'[t] = "over" /\ waited'[t] = 0
        /\ \A h \in Threads \ {t} : thread'[h] = thread[h] /\ waited'[h] = waited[h]
    BY <1>1
  <1>4. \A h \in Threads : ~Trying(h)'
    BY <1>1, <1>3 DEF PoolInv, OneTry, Trying, Pool!Tries
  <1>5. Pool!TypeOK'
    <2>1. failed' \in [known : BOOLEAN, age : 0..Pool!Long]
      <3>1. 0 \in 0..Pool!Long /\ Pool!Long \in 0..Pool!Long
        BY PoolNumbers
      <3>2. failed' = [known |-> FALSE, age |-> Pool!Long] => failed' \in [known : BOOLEAN, age : 0..Pool!Long]
        BY <3>1
      <3>3. failed' = [known |-> TRUE, age |-> 0] => failed' \in [known : BOOLEAN, age : 0..Pool!Long]
        BY <3>1
      <3>4. QED
        BY <1>2, <3>2, <3>3
    <2>2. pool' \in {"none", "open", "closed"}
      BY <1>2
    <2>3. thread' \in [Threads -> {"idle", "ask", "over"} \cup Pool!Tries]
      BY <1>1
    <2>4. waited' \in [Threads -> Nat]
      BY <1>1
    <2>5. trying' \in 0..FirstWait
      BY <1>1, PoolNumbers
    <2>6. QED
      BY <1>1, <2>1, <2>2, <2>3, <2>4, <2>5 DEF PoolInv, Pool!TypeOK
  <1>6. OneTry' /\ TryInv'
    BY <1>4 DEF OneTry, TryInv
  <1>7. AskInv'
    BY <1>2, PoolNumbers DEF AskInv, Pool!Cool
  <1>8. RestInv' /\ PoolOneWait'
    BY <1>3, PoolNumbers DEF PoolInv, RestInv, Waiting, Trying, PoolOneWait, Pool!OneWait
  <1>9. QED
    BY <1>5, <1>6, <1>7, <1>8 DEF PoolInv

\* Time passes only while nobody can take the lock and the attempt is in its time.
LEMMA TickKeepsPool ==
  ASSUME PoolInv, Pool!Tick
  PROVE  PoolInv'
  <1>1. /\ thread \in [Threads -> {"idle", "ask", "over"} \cup Pool!Tries]
        /\ waited \in [Threads -> Nat] /\ trying \in Nat
        /\ UNCHANGED <<up, pool>>
        /\ \A t \in Threads : ~Pool!CanEnsure(t) /\ (Trying(t) => trying < Pool!WaitOf(t))
    BY PoolNumbers DEF PoolInv, Pool!TypeOK, Pool!Tick, Trying
  <1>2. /\ waited' = [t \in Threads |-> IF thread[t] \in {"idle", "over"} THEN 0 ELSE waited[t] + 1]
        /\ thread' = [t \in Threads |-> IF thread[t] = "over" THEN "idle" ELSE thread[t]]
        /\ trying' = IF Pool!Locked THEN trying + 1 ELSE 0
    BY DEF Pool!Tick
  <1>3. failed' \in [known : BOOLEAN, age : 0..Pool!Long]
    <2>1. failed' = [failed EXCEPT !.age = IF @ < Pool!Long THEN @ + 1 ELSE @]
      BY DEF Pool!Tick
    <2>2. failed \in [known : BOOLEAN, age : 0..Pool!Long]
      BY DEF PoolInv, Pool!TypeOK
    <2>3. QED
      BY <2>1, <2>2, PoolNumbers
  <1>4. \A t \in Threads : (Trying(t)' <=> Trying(t)) /\ (Waiting(t)' <=> Waiting(t))
                           /\ (~Waiting(t) <=> thread[t] \in {"idle", "over"})
    BY <1>1, <1>2 DEF Trying, Waiting, Pool!Tries
  <1>5. \A t \in Threads : Waiting(t) => Pool!Locked
    BY <1>1 DEF Waiting, Pool!CanEnsure, Pool!Locked, Trying
  <1>6. ASSUME NEW t \in Threads, Trying(t)
        PROVE  /\ trying' = trying + 1 /\ trying + 1 <= Pool!WaitOf(t) /\ Pool!WaitOf(t)' = Pool!WaitOf(t)
               /\ \A h \in Threads : Waiting(h) => waited'[h] <= trying'
    <2>1. trying' = trying + 1
      BY <1>2, <1>6 DEF Pool!Locked, Trying
    <2>2. trying + 1 <= Pool!WaitOf(t)
      BY <1>1, <1>6, PoolNumbers
    <2>3. Pool!WaitOf(t)' = Pool!WaitOf(t)
      BY <1>2, <1>6 DEF Pool!WaitOf, Trying, Pool!Tries
    <2>4. \A h \in Threads : Waiting(h) => waited[h] <= trying /\ waited'[h] = waited[h] + 1
      BY <1>2, <1>4, <1>6 DEF PoolInv, TryInv
    <2>5. QED
      BY <1>1, <2>1, <2>2, <2>3, <2>4
  <1>7. trying' \in 0..FirstWait
    <2>1. CASE Pool!Locked
      <3>1. PICK t \in Threads : Trying(t)
        BY <2>1 DEF Pool!Locked, Trying
      <3>2. QED
        BY <1>1, <1>6, <3>1, PoolNumbers
    <2>2. CASE ~Pool!Locked
      BY <1>2, <2>2, PoolNumbers
    <2>3. QED
      BY <2>1, <2>2
  <1>8. Pool!TypeOK'
    BY <1>1, <1>2, <1>3, <1>7 DEF PoolInv, Pool!TypeOK
  <1>9. OneTry' /\ TryInv'
    BY <1>4, <1>6 DEF PoolInv, OneTry, TryInv
  <1>10. AskInv'
    <2>1. \A t \in Threads : thread'[t] = "ask" => Pool!Locked
      BY <1>2, <1>5 DEF Waiting
    <2>2. Pool!Locked => Pool!Locked'
      BY <1>4 DEF Pool!Locked, Trying
    <2>3. QED
      BY <2>1, <2>2 DEF AskInv
  <1>11. RestInv'
    BY <1>2, <1>4 DEF RestInv
  <1>12. PoolOneWait'
    <2> SUFFICES ASSUME NEW h \in Threads PROVE waited'[h] <= FirstWait
      BY DEF PoolOneWait, Pool!OneWait
    <2>1. CASE ~Waiting(h)
      BY <1>2, <1>4, <2>1, PoolNumbers
    <2>2. CASE Waiting(h)
      <3>1. PICK t \in Threads : Trying(t)
        BY <1>5, <2>2 DEF Pool!Locked, Trying
      <3>2. waited'[h] <= trying' /\ waited'[h] \in Nat
        BY <1>1, <1>2, <1>6, <2>2, <3>1
      <3>3. QED
        BY <1>7, <3>2, PoolNumbers
    <2>3. QED
      BY <2>1, <2>2
  <1>13. QED
    BY <1>8, <1>9, <1>10, <1>11, <1>12 DEF PoolInv

\* PoolInv is inductive.
LEMMA PoolStep == PoolInv /\ [Pool!Next]_(Pool!vars) => PoolInv'
  <1> SUFFICES ASSUME PoolInv, [Pool!Next]_(Pool!vars) PROVE PoolInv'
    OBVIOUS
  <1>1. CASE UNCHANGED <<pool, failed, thread, waited, trying>> /\ up' \in BOOLEAN
    <2>1. Pool!TypeOK'
      BY <1>1 DEF PoolInv, Pool!TypeOK
    <2>2. OneTry' /\ TryInv' /\ RestInv' /\ PoolOneWait'
      BY <1>1 DEF PoolInv, OneTry, TryInv, RestInv, PoolOneWait, Pool!OneWait, Waiting, Trying, Pool!WaitOf
    <2>3. AskInv'
      BY <1>1 DEF PoolInv, AskInv, Pool!Locked, Pool!Cool
    <2>4. QED
      BY <2>1, <2>2, <2>3 DEF PoolInv
  <1>2. CASE Pool!DatabaseChange \/ UNCHANGED Pool!vars
    BY <1>1, <1>2 DEF Pool!DatabaseChange, Pool!vars, PoolInv, Pool!TypeOK
  <1>3. CASE \E t \in Threads : Pool!Thread(t)
    BY <1>3, AskKeepsPool, EnsureKeepsPool, ConnectKeepsPool DEF Pool!Thread
  <1>4. QED
    BY <1>2, <1>3, TickKeepsPool DEF Pool!Next

\* PoolInv holds in every reachable state of DbPool.
LEMMA PoolInvariance == Pool!Init /\ [][Pool!Next]_(Pool!vars) => []PoolInv
  BY PoolInit, PoolStep, PTL

\* No thread asks for longer than one attempt may take, its own or another's, for
\* any number of threads (db._ensure_pool: the cooldown is looked at again under
\* the lock).
THEOREM OneWaitOnly == Pool!Spec => []PoolOneWait
  <1>1. PoolInv => PoolOneWait
    BY DEF PoolInv
  <1>2. QED
    BY <1>1, PoolInvariance, PTL DEF Pool!Spec

(***************************************************************************)
(* AuthEvents: what is locked is pending and has one poller, and who was   *)
(* told without a failed attempt was told by the pass that still runs.     *)
(***************************************************************************)
PassType == [batch : SUBSET Events, audience : UNION {[b -> SUBSET People] : b \in SUBSET Events},
             left : SUBSET People, failed : SUBSET People]

OpenPass(p) == pass[p] # NoPass

PassesTyped == pass \in [Pollers -> PassType \cup {NoPass}]

\* FOR UPDATE SKIP LOCKED: no row is in two passes.
ApartInv ==
  \A p, q \in Pollers : \A e \in Events :
    OpenPass(p) /\ OpenPass(q) /\ e \in pass[p].batch /\ e \in pass[q].batch => p = q

HeldInv == \A p \in Pollers : OpenPass(p) => \A e \in pass[p].batch : row[e].state = "pending"

TriesInv ==
  \A e \in Events : /\ row[e].state = "pending" => row[e].attempts < MaxAttempts
                    /\ row[e].state = "absent"  => row[e].attempts = 0

ReachedInv ==
  \A p \in Pollers : OpenPass(p) =>
    \A e \in pass[p].batch : \A u \in pass[p].audience[e] :
      u \in pass[p].left \/ u \in pass[p].failed \/ <<e, u>> \in told

WrittenInv == \A e \in Events : \A u \in People : <<e, u>> \in told => row[e].state # "absent"

\* The pass that told is still open.
ToldBy(p, e, u) ==
  OpenPass(p) /\ e \in pass[p].batch /\ u \in pass[p].audience[e] /\ u \notin pass[p].left

CauseInv ==
  \A e \in Events : \A u \in People :
    <<e, u>> \in told /\ row[e].state = "pending" /\ row[e].attempts = 0 /\ crashes = 0
      => \E p \in Pollers : ToldBy(p, e, u)

\* The inductive invariant of AuthEvents.
OutInv ==
  /\ Outbox!TypeOK /\ PassesTyped /\ ApartInv /\ HeldInv
  /\ TriesInv /\ ReachedInv /\ WrittenInv /\ CauseInv

LEMMA OutNumbers ==
  /\ MaxAttempts \in Nat /\ MaxAttempts > 0 /\ MaxMoves \in Nat /\ MaxCrashes \in Nat
  /\ Kind \in [Events -> Outbox!Kinds] /\ Subject \in [Events -> People]
  /\ NoPass \notin PassType
  BY PartOutboxAssumption DEF Outbox!OutboxAssumption, PassType

\* The fields of a pass.
LEMMA PassFacts ==
  ASSUME NEW k \in PassType
  PROVE  /\ k.batch \subseteq Events /\ k.left \subseteq People /\ k.failed \subseteq People
         /\ \A u \in People :
              /\ [k EXCEPT !.left = @ \ {u}] \in PassType
              /\ [k EXCEPT !.left = @ \ {u}].left = k.left \ {u}
              /\ [k EXCEPT !.left = @ \ {u}].failed = k.failed
              /\ [k EXCEPT !.left = @ \ {u}].batch = k.batch
              /\ [k EXCEPT !.left = @ \ {u}].audience = k.audience
              /\ [k EXCEPT !.left = @ \ {u}, !.failed = @ \cup {u}] \in PassType
              /\ [k EXCEPT !.left = @ \ {u}, !.failed = @ \cup {u}].left = k.left \ {u}
              /\ [k EXCEPT !.left = @ \ {u}, !.failed = @ \cup {u}].failed = k.failed \cup {u}
              /\ [k EXCEPT !.left = @ \ {u}, !.failed = @ \cup {u}].batch = k.batch
              /\ [k EXCEPT !.left = @ \ {u}, !.failed = @ \cup {u}].audience = k.audience
  BY DEF PassType

LEMMA OutInit == Outbox!Init => OutInv
  <1> SUFFICES ASSUME Outbox!Init PROVE OutInv
    OBVIOUS
  <1>1. /\ row = [e \in Events |-> [state |-> "absent", attempts |-> 0]] /\ team \subseteq People
        /\ pass = [p \in Pollers |-> NoPass] /\ told = {} /\ moves = 0 /\ crashes = 0
    BY DEF Outbox!Init
  <1>2. /\ \A e \in Events : row[e].state = "absent" /\ row[e].attempts = 0
        /\ \A p \in Pollers : pass[p] = NoPass
    BY <1>1
  <1>3. row \in [Events -> Outbox!RowState]
    BY <1>1, OutNumbers DEF Outbox!RowState
  <1>4. Outbox!TypeOK /\ PassesTyped
    BY <1>1, <1>2, <1>3, OutNumbers DEF Outbox!TypeOK, PassesTyped
  <1>5. ApartInv /\ HeldInv /\ TriesInv /\ ReachedInv /\ WrittenInv /\ CauseInv
    BY <1>1, <1>2 DEF OpenPass, ApartInv, HeldInv, TriesInv, ReachedInv, WrittenInv, CauseInv
  <1>6. QED
    BY <1>4, <1>5 DEF OutInv

\* What the invariant says of an open pass.
LEMMA OpenFacts ==
  ASSUME OutInv, NEW p \in Pollers, OpenPass(p)
  PROVE  /\ pass[p] \in PassType
         /\ pass[p].batch \subseteq Events
         /\ pass[p].audience \in [pass[p].batch -> SUBSET People]
         /\ pass[p].left \subseteq People /\ pass[p].failed \subseteq People
  BY DEF OutInv, Outbox!TypeOK, PassesTyped, OpenPass

\* A change is captured.
LEMMA CaptureKeepsOut ==
  ASSUME OutInv, NEW e \in Events, Outbox!Capture(e)
  PROVE  OutInv'
  <1>1. /\ row[e].state = "absent" /\ row \in [Events -> Outbox!RowState]
        /\ row' = [row EXCEPT ![e].state = "pending"]
        /\ UNCHANGED <<team, pass, told, moves, crashes>>
    BY DEF OutInv, Outbox!TypeOK, Outbox!Capture
  <1>2. row[e] \in Outbox!RowState
    BY <1>1
  <1>3. [row[e] EXCEPT !.state = "pending"] \in Outbox!RowState
        /\ [row[e] EXCEPT !.state = "pending"].state = "pending"
        /\ [row[e] EXCEPT !.state = "pending"].attempts = row[e].attempts
    BY <1>2 DEF Outbox!RowState
  <1>4. /\ row' \in [Events -> Outbox!RowState]
        /\ row'[e].state = "pending" /\ row'[e].attempts = row[e].attempts
        /\ \A f \in Events \ {e} : row'[f] = row[f]
    BY <1>1, <1>3
  <1>5. Outbox!TypeOK' /\ PassesTyped' /\ ApartInv'
    BY <1>1, <1>4 DEF OutInv, Outbox!TypeOK, PassesTyped, ApartInv, OpenPass
  <1>6. HeldInv'
    BY <1>1, <1>4, OpenFacts DEF OutInv, HeldInv, OpenPass
  <1>7. TriesInv'
    BY <1>1, <1>4, OutNumbers DEF OutInv, TriesInv
  <1>8. ReachedInv'
    BY <1>1 DEF OutInv, ReachedInv, OpenPass
  <1>9. WrittenInv'
    BY <1>1, <1>4 DEF OutInv, WrittenInv
  <1>10. CauseInv'
    <2>1. \A u \in People : <<e, u>> \notin told
      BY <1>1 DEF OutInv, WrittenInv
    <2>2. QED
      BY <1>1, <1>4, <2>1 DEF OutInv, CauseInv, ToldBy, OpenPass
  <1>11. QED
    BY <1>5, <1>6, <1>7, <1>8, <1>9, <1>10 DEF OutInv

\* Somebody joins the team or leaves it.
LEMMA MoveKeepsOut ==
  ASSUME OutInv, NEW u \in People, Outbox!Move(u)
  PROVE  OutInv'
  <1>1. /\ moves < MaxMoves /\ moves' = moves + 1 /\ moves \in 0..MaxMoves
        /\ team \subseteq People /\ team' \subseteq People
        /\ UNCHANGED <<row, pass, told, crashes>>
    BY DEF OutInv, Outbox!TypeOK, Outbox!Move
  <1>2. moves' \in 0..MaxMoves
    BY <1>1, OutNumbers
  <1>3. Outbox!TypeOK' /\ PassesTyped'
    BY <1>1, <1>2 DEF OutInv, Outbox!TypeOK, PassesTyped
  <1>4. ApartInv' /\ HeldInv' /\ TriesInv' /\ ReachedInv' /\ WrittenInv' /\ CauseInv'
    BY <1>1 DEF OutInv, ApartInv, HeldInv, TriesInv, ReachedInv, WrittenInv, CauseInv, ToldBy, OpenPass
  <1>5. QED
    BY <1>3, <1>4 DEF OutInv

\* A pass locks rows that are pending and that nobody has locked.
LEMMA ReadKeepsOut ==
  ASSUME OutInv, NEW p \in Pollers, Outbox!Read(p)
  PROVE  OutInv'
  <1> DEFINE B == Outbox!Batch
             k == [batch |-> B, audience |-> [e \in B |-> Outbox!Audience(e)],
                   left |-> UNION {Outbox!Audience(e) : e \in B}, failed |-> {}]
  <1>1. /\ pass[p] = NoPass /\ pass' = [pass EXCEPT ![p] = k]
        /\ UNCHANGED <<row, team, told, moves, crashes>>
    BY DEF Outbox!Read
  <1>2. /\ B \subseteq Events
        /\ \A e \in B : row[e].state = "pending" /\ e \notin Outbox!Locked
    BY DEF Outbox!Batch
  <1>3. \A e \in B : \A q \in Pollers : OpenPass(q) => e \notin pass[q].batch
    BY <1>2 DEF Outbox!Locked, OpenPass
  <1>4. \A e \in Events : Outbox!Audience(e) \subseteq People
    BY OutNumbers DEF OutInv, Outbox!TypeOK, Outbox!Audience, Outbox!Kinds
  <1> HIDE DEF B
  <1>5. /\ k.batch = B /\ k.failed = {} /\ k.left \subseteq People
        /\ k.audience \in [B -> SUBSET People]
        /\ \A e \in B : k.audience[e] \subseteq k.left
    BY <1>2, <1>4
  <1>6. k \in PassType
    <2>1. k.audience \in UNION {[b -> SUBSET People] : b \in SUBSET Events}
      BY <1>2, <1>5
    <2>2. QED
      BY <1>2, <1>5, <2>1 DEF PassType
  <1> HIDE DEF k
  <1>7. /\ pass \in [Pollers -> PassType \cup {NoPass}] /\ pass' \in [Pollers -> PassType \cup {NoPass}]
        /\ pass'[p] = k /\ k # NoPass
        /\ \A q \in Pollers \ {p} : pass'[q] = pass[q]
    BY <1>1, <1>6, OutNumbers DEF OutInv, PassesTyped
  <1>8. /\ Outbox!TypeOK' /\ PassesTyped'
    BY <1>1, <1>2, <1>5, <1>7 DEF OutInv, Outbox!TypeOK, PassesTyped
  <1>9. ApartInv'
    <2> SUFFICES ASSUME NEW q \in Pollers, NEW r \in Pollers, NEW e \in Events,
                        OpenPass(q)', OpenPass(r)', e \in pass'[q].batch, e \in pass'[r].batch
                 PROVE  q = r
      BY DEF ApartInv
    <2>1. CASE q # p /\ r # p
      BY <1>7, <2>1 DEF OutInv, ApartInv, OpenPass
    <2>2. CASE q = p \/ r = p
      BY <1>3, <1>5, <1>7, <2>2 DEF OpenPass
    <2>3. QED
      BY <2>1, <2>2
  <1>10. HeldInv'
    BY <1>1, <1>2, <1>5, <1>7 DEF OutInv, HeldInv, OpenPass
  <1>11. TriesInv' /\ WrittenInv'
    BY <1>1 DEF OutInv, TriesInv, WrittenInv
  <1>12. ReachedInv'
    BY <1>1, <1>5, <1>7 DEF OutInv, ReachedInv, OpenPass
  <1>13. CauseInv'
    BY <1>1, <1>7 DEF OutInv, CauseInv, ToldBy, OpenPass
  <1>14. QED
    BY <1>8, <1>9, <1>10, <1>11, <1>12, <1>13 DEF OutInv

\* One person is told, or could not be.
LEMMA SendKeepsOut ==
  ASSUME OutInv, NEW p \in Pollers, NEW u \in People, Outbox!Send(p, u) \/ Outbox!SendFails(p, u)
  PROVE  OutInv'
  <1>1. /\ OpenPass(p) /\ u \in pass[p].left
        /\ UNCHANGED <<row, team, moves, crashes>>
    BY DEF Outbox!Send, Outbox!SendFails, OpenPass
  <1>2. /\ pass[p] \in PassType /\ pass \in [Pollers -> PassType \cup {NoPass}]
        /\ pass[p].batch \subseteq Events /\ pass[p].audience \in [pass[p].batch -> SUBSET People]
    BY <1>1, OpenFacts DEF OutInv, PassesTyped
  <1>3. PICK k : /\ pass' = [pass EXCEPT ![p] = k] /\ k \in PassType
                 /\ k.batch = pass[p].batch /\ k.audience = pass[p].audience
                 /\ k.left = pass[p].left \ {u}
                 /\ \/ k.failed = pass[p].failed /\ told' = told \cup (Outbox!For(p, u) \X {u})
                    \/ k.failed = pass[p].failed \cup {u} /\ told' = told
    <2>1. CASE Outbox!Send(p, u)
      <3> DEFINE n == [pass[p] EXCEPT !.left = @ \ {u}]
      <3>1. pass' = [pass EXCEPT ![p] = n] /\ told' = told \cup (Outbox!For(p, u) \X {u})
        BY <2>1 DEF Outbox!Send
      <3>2. /\ n \in PassType /\ n.batch = pass[p].batch /\ n.audience = pass[p].audience
            /\ n.left = pass[p].left \ {u} /\ n.failed = pass[p].failed
        BY <1>2, PassFacts
      <3> HIDE DEF n
      <3>3. QED
        BY <3>1, <3>2
    <2>2. CASE Outbox!SendFails(p, u)
      <3> DEFINE n == [pass[p] EXCEPT !.left = @ \ {u}, !.failed = @ \cup {u}]
      <3>1. pass' = [pass EXCEPT ![p] = n] /\ told' = told
        BY <2>2 DEF Outbox!SendFails
      <3>2. /\ n \in PassType /\ n.batch = pass[p].batch /\ n.audience = pass[p].audience
            /\ n.left = pass[p].left \ {u} /\ n.failed = pass[p].failed \cup {u}
        BY <1>2, PassFacts
      <3> HIDE DEF n
      <3>3. QED
        BY <3>1, <3>2
    <2>3. QED
      BY <2>1, <2>2
  <1>4. /\ pass' \in [Pollers -> PassType \cup {NoPass}] /\ pass'[p] = k /\ OpenPass(p)'
        /\ \A q \in Pollers \ {p} : pass'[q] = pass[q]
    BY <1>2, <1>3, OutNumbers DEF OpenPass
  <1>5. \A q \in Pollers : /\ OpenPass(q)' <=> OpenPass(q)
                           /\ pass'[q].batch = pass[q].batch /\ pass'[q].audience = pass[q].audience
                           /\ pass'[q].left \subseteq pass[q].left
    BY <1>1, <1>3, <1>4 DEF OpenPass
  <1>6. /\ told \subseteq told'
        /\ \A e, v : <<e, v>> \in told' => <<e, v>> \in told \/ (v = u /\ e \in Outbox!For(p, u))
    BY <1>3
  <1>7. Outbox!TypeOK' /\ PassesTyped'
    <2>1. told' \subseteq Events \X People
      <3>1. told \subseteq Events \X People /\ Outbox!For(p, u) \subseteq Events
        BY <1>2 DEF OutInv, Outbox!TypeOK, Outbox!For
      <3>2. QED
        BY <1>3, <3>1
    <2>2. k.left \subseteq People /\ k.failed \subseteq People
      BY <1>3, PassFacts
    <2>3. QED
      BY <1>1, <1>2, <1>3, <1>4, <2>1, <2>2 DEF OutInv, Outbox!TypeOK, PassesTyped
  <1>8. ApartInv' /\ HeldInv'
    BY <1>1, <1>5 DEF OutInv, ApartInv, HeldInv
  <1>9. TriesInv'
    BY <1>1 DEF OutInv, TriesInv
  <1>10. ReachedInv'
    <2> SUFFICES ASSUME NEW q \in Pollers, OpenPass(q)', NEW e \in pass'[q].batch,
                        NEW v \in pass'[q].audience[e]
                 PROVE  v \in pass'[q].left \/ v \in pass'[q].failed \/ <<e, v>> \in told'
      BY DEF ReachedInv
    <2>1. v \in pass[q].left \/ v \in pass[q].failed \/ <<e, v>> \in told
      BY <1>5 DEF OutInv, ReachedInv
    <2>2. CASE q # p
      BY <1>4, <1>6, <2>1, <2>2
    <2>3. CASE q = p /\ v # u
      BY <1>3, <1>4, <1>6, <2>1, <2>3
    <2>4. CASE q = p /\ v = u
      <3>1. e \in Outbox!For(p, u)
        BY <1>5, <2>4 DEF Outbox!For
      <3>2. QED
        BY <1>3, <1>4, <2>4, <3>1
    <2>5. QED
      BY <2>2, <2>3, <2>4
  <1>11. \A e \in Outbox!For(p, u) : e \in Events /\ e \in pass[p].batch /\ u \in pass[p].audience[e]
    BY <1>2 DEF Outbox!For
  <1>12. WrittenInv'
    BY <1>1, <1>6, <1>11 DEF OutInv, WrittenInv, HeldInv
  <1>13. CauseInv'
    <2> SUFFICES ASSUME NEW e \in Events, NEW v \in People, <<e, v>> \in told',
                        row[e].state = "pending", row[e].attempts = 0, crashes = 0
                 PROVE  \E q \in Pollers : ToldBy(q, e, v)'
      BY <1>1 DEF CauseInv
    <2>1. CASE <<e, v>> \in told
      <3>1. PICK q \in Pollers : ToldBy(q, e, v)
        BY <2>1 DEF OutInv, CauseInv
      <3>2. ToldBy(q, e, v)'
        BY <1>5, <3>1 DEF ToldBy
      <3>3. QED
        BY <3>2
    <2>2. CASE v = u /\ e \in Outbox!For(p, u)
      <3>1. ToldBy(p, e, v)'
        BY <1>3, <1>4, <1>11, <2>2 DEF ToldBy
      <3>2. QED
        BY <3>1
    <2>3. QED
      BY <1>6, <2>1, <2>2
  <1>14. QED
    BY <1>7, <1>8, <1>9, <1>10, <1>12, <1>13 DEF OutInv

\* What a closed pass leaves to the others.
LEMMA ClosedPass ==
  ASSUME OutInv, NEW p \in Pollers, pass' = [pass EXCEPT ![p] = NoPass]
  PROVE  /\ PassesTyped' /\ ApartInv'
         /\ ~OpenPass(p)'
         /\ \A q \in Pollers \ {p} : pass'[q] = pass[q]
  <1>1. pass \in [Pollers -> PassType \cup {NoPass}]
    BY DEF OutInv, PassesTyped
  <1>2. /\ pass' \in [Pollers -> PassType \cup {NoPass}] /\ pass'[p] = NoPass
        /\ \A q \in Pollers \ {p} : pass'[q] = pass[q]
    BY <1>1
  <1>3. ApartInv'
    BY <1>2 DEF OutInv, ApartInv, OpenPass
  <1>4. QED
    BY <1>2, <1>3 DEF PassesTyped, OpenPass

\* A process dies, and its pass with it.
LEMMA CrashKeepsOut ==
  ASSUME OutInv, NEW p \in Pollers, Outbox!Crash(p)
  PROVE  OutInv'
  <1>1. /\ crashes \in 0..MaxCrashes /\ crashes < MaxCrashes /\ crashes' = crashes + 1
        /\ pass' = [pass EXCEPT ![p] = NoPass]
        /\ UNCHANGED <<row, team, told, moves>>
    BY DEF OutInv, Outbox!TypeOK, Outbox!Crash
  <1>2. /\ PassesTyped' /\ ApartInv' /\ ~OpenPass(p)'
        /\ \A q \in Pollers \ {p} : pass'[q] = pass[q]
    BY <1>1, ClosedPass
  <1>3. crashes' \in 0..MaxCrashes /\ crashes' # 0
    BY <1>1, OutNumbers
  <1>4. Outbox!TypeOK'
    BY <1>1, <1>2, <1>3 DEF OutInv, Outbox!TypeOK, OpenPass
  <1>5. HeldInv' /\ TriesInv' /\ ReachedInv' /\ WrittenInv'
    BY <1>1, <1>2 DEF OutInv, HeldInv, TriesInv, ReachedInv, WrittenInv, OpenPass
  <1>6. CauseInv'
    BY <1>3 DEF CauseInv
  <1>7. QED
    BY <1>2, <1>4, <1>5, <1>6 DEF OutInv

\* What a commit makes of a row: charged, done, or as it was when its only note
\* is for nobody.
LEMMA MarkedFacts ==
  ASSUME OutInv, NEW p \in Pollers, OpenPass(p), NEW e \in pass[p].batch
  PROVE  LET n == Outbox!Marked(p, e) IN
           /\ n \in Outbox!RowState /\ n.state # "absent"
           /\ n.state = "pending" => n.attempts < MaxAttempts
           /\ \/ Outbox!Failed(p, e) /\ n.attempts = row[e].attempts + 1
                 /\ (n.state = "processed" => n.attempts = MaxAttempts)
              \/ ~Outbox!Failed(p, e) /\ n.state = "processed"
              \/ n = row[e] /\ pass[p].audience[e] = {}
  <1>1. /\ e \in Events /\ row[e].state = "pending" /\ row[e].attempts < MaxAttempts
        /\ row[e] \in Outbox!RowState
    BY OpenFacts DEF OutInv, HeldInv, TriesInv, Outbox!TypeOK
  <1>2. row[e].attempts \in Nat /\ row[e].attempts + 1 \in 0..MaxAttempts
    BY <1>1, OutNumbers DEF Outbox!RowState
  <1>3. CASE Outbox!Failed(p, e)
    <2>1. Outbox!Marked(p, e) = Outbox!Charged(row[e])
      BY <1>3 DEF Outbox!Marked
    <2>2. /\ Outbox!Charged(row[e]).attempts = row[e].attempts + 1
          /\ Outbox!Charged(row[e]).state =
               (IF row[e].attempts + 1 >= MaxAttempts THEN "processed" ELSE "pending")
          /\ Outbox!Charged(row[e]) \in Outbox!RowState
      BY <1>2 DEF Outbox!Charged, Outbox!RowState
    <2>3. QED
      BY <1>2, <1>3, <2>1, <2>2, OutNumbers
  <1>4. CASE ~Outbox!Failed(p, e) /\ (Outbox!Quiet(p, e) \/ Outbox!Sent(p, e))
    <2>1. Outbox!Marked(p, e) = Outbox!Done(row[e])
      BY <1>4 DEF Outbox!Marked
    <2>2. Outbox!Done(row[e]).state = "processed" /\ Outbox!Done(row[e]) \in Outbox!RowState
      BY <1>2 DEF Outbox!Done, Outbox!RowState
    <2>3. QED
      BY <1>4, <2>1, <2>2
  <1>5. CASE ~Outbox!Failed(p, e) /\ ~Outbox!Quiet(p, e) /\ ~Outbox!Sent(p, e)
    <2>1. Outbox!Marked(p, e) = row[e]
      BY <1>5 DEF Outbox!Marked
    <2>2. pass[p].audience[e] = {}
      BY <1>5 DEF Outbox!Failed, Outbox!Sent
    <2>3. QED
      BY <1>1, <2>1, <2>2
  <1>6. QED
    BY <1>3, <1>4, <1>5

\* A pass marks its rows and ends.
LEMMA CommitKeepsOut ==
  ASSUME OutInv, NEW p \in Pollers, Outbox!Commit(p)
  PROVE  OutInv'
  <1>1. /\ OpenPass(p) /\ pass[p].left = {}
        /\ pass' = [pass EXCEPT ![p] = NoPass]
        /\ row' = [e \in Events |-> IF e \in pass[p].batch THEN Outbox!Marked(p, e) ELSE row[e]]
        /\ UNCHANGED <<team, told, moves, crashes>>
    BY DEF Outbox!Commit, OpenPass
  <1>2. /\ PassesTyped' /\ ApartInv' /\ ~OpenPass(p)'
        /\ \A q \in Pollers \ {p} : pass'[q] = pass[q]
    BY <1>1, ClosedPass
  <1>3. /\ \A e \in pass[p].batch : e \in Events /\ row'[e] = Outbox!Marked(p, e)
        /\ \A e \in Events \ pass[p].batch : row'[e] = row[e]
    BY <1>1, OpenFacts
  <1>4. \A e \in pass[p].batch :
          /\ row'[e] \in Outbox!RowState /\ row'[e].state # "absent"
          /\ row'[e].state = "pending" => row'[e].attempts < MaxAttempts
          /\ \/ row'[e].attempts = row[e].attempts + 1
             \/ row'[e].state = "processed"
             \/ row'[e] = row[e] /\ pass[p].audience[e] = {}
    BY <1>1, <1>3, MarkedFacts
  <1>5. row \in [Events -> Outbox!RowState]
    BY DEF OutInv, Outbox!TypeOK
  <1>6. row' \in [Events -> Outbox!RowState]
    BY <1>1, <1>3, <1>4, <1>5
  <1>7. Outbox!TypeOK'
    BY <1>1, <1>2, <1>6 DEF OutInv, Outbox!TypeOK, OpenPass
  <1>8. HeldInv'
    <2> SUFFICES ASSUME NEW q \in Pollers, OpenPass(q)', NEW e \in pass'[q].batch
                 PROVE  row'[e].state = "pending"
      BY DEF HeldInv
    <2>1. q # p /\ pass'[q] = pass[q] /\ OpenPass(q)
      BY <1>2 DEF OpenPass
    <2>2. e \in Events /\ row[e].state = "pending"
      BY <2>1, OpenFacts DEF OutInv, HeldInv
    <2>3. e \notin pass[p].batch
      BY <1>1, <2>1, <2>2 DEF OutInv, ApartInv
    <2>4. QED
      BY <1>3, <2>2, <2>3
  <1>9. TriesInv'
    BY <1>3, <1>4 DEF OutInv, TriesInv
  <1>10. ReachedInv'
    BY <1>1, <1>2 DEF OutInv, ReachedInv, OpenPass
  <1>11. WrittenInv'
    BY <1>1, <1>3, <1>4 DEF OutInv, WrittenInv
  <1>12. CauseInv'
    <2> SUFFICES ASSUME NEW e \in Events, NEW u \in People, <<e, u>> \in told,
                        row'[e].state = "pending", row'[e].attempts = 0, crashes = 0
                 PROVE  \E q \in Pollers : ToldBy(q, e, u)'
      BY <1>1 DEF CauseInv
    <2>1. row[e] \in Outbox!RowState /\ row[e].attempts \in Nat
      BY <1>5, OutNumbers DEF Outbox!RowState
    <2>2. row'[e] = row[e] /\ (e \in pass[p].batch => pass[p].audience[e] = {})
      BY <1>3, <1>4, <2>1
    <2>3. PICK q \in Pollers : ToldBy(q, e, u)
      BY <2>2 DEF OutInv, CauseInv
    <2>4. q # p
      BY <2>2, <2>3 DEF ToldBy
    <2>5. ToldBy(q, e, u)'
      BY <1>2, <2>3, <2>4 DEF ToldBy, OpenPass
    <2>6. QED
      BY <2>5
  <1>13. QED
    BY <1>2, <1>7, <1>8, <1>9, <1>10, <1>11, <1>12 DEF OutInv

\* OutInv is inductive.
LEMMA OutStep == OutInv /\ [Outbox!Next]_(Outbox!vars) => OutInv'
  <1> SUFFICES ASSUME OutInv, [Outbox!Next]_(Outbox!vars) PROVE OutInv'
    OBVIOUS
  <1>1. CASE \E e \in Events : Outbox!Capture(e)
    BY <1>1, CaptureKeepsOut
  <1>2. CASE \E u \in People : Outbox!Move(u)
    BY <1>2, MoveKeepsOut
  <1>3. CASE \E p \in Pollers : Outbox!Pass(p) \/ Outbox!Crash(p)
    BY <1>3, ReadKeepsOut, SendKeepsOut, CommitKeepsOut, CrashKeepsOut DEF Outbox!Pass
  <1>4. CASE UNCHANGED Outbox!vars
    <2>1. Outbox!TypeOK' /\ PassesTyped'
      BY <1>4 DEF Outbox!vars, OutInv, Outbox!TypeOK, PassesTyped
    <2>2. ApartInv' /\ HeldInv' /\ TriesInv' /\ ReachedInv' /\ WrittenInv' /\ CauseInv'
      BY <1>4 DEF Outbox!vars, OutInv, ApartInv, HeldInv, TriesInv, ReachedInv, WrittenInv, CauseInv,
                  ToldBy, OpenPass
    <2>3. QED
      BY <2>1, <2>2 DEF OutInv
  <1>5. QED
    BY <1>1, <1>2, <1>3, <1>4 DEF Outbox!Next

\* OutInv holds in every reachable state of AuthEvents.
LEMMA OutboxInvariance == Outbox!Init /\ [][Outbox!Next]_(Outbox!vars) => []OutInv
  BY OutInit, OutStep, PTL

\* A row leaves the queue when all it was for have been told or its attempts are
\* used up, whatever fails, dies or runs beside the pass, for any rows, pollers and
\* people (process_pending, _fail).
THEOREM NothingDisappears == Outbox!Spec => ToldOrGivenUp
  <1> DEFINE Told == \A p \in Pollers : \A e \in Events :
                       Outbox!Settles(e) /\ pass[p] # NoPass /\ e \in pass[p].batch
                         => \/ {e} \X pass[p].audience[e] \subseteq told
                            \/ row'[e].attempts = MaxAttempts
  <1>1. ASSUME OutInv, [Outbox!Next]_(Outbox!vars) PROVE Told
    <2> SUFFICES ASSUME NEW p \in Pollers, NEW e \in Events, OpenPass(p), e \in pass[p].batch,
                        row'[e].state = "processed", row[e].state # "processed",
                        NEW u \in pass[p].audience[e], row'[e].attempts # MaxAttempts
                 PROVE  <<e, u>> \in told
      BY DEF Outbox!Settles, OpenPass
    <2>1. row[e].state = "pending" /\ row \in [Events -> Outbox!RowState]
      BY <1>1, OpenFacts DEF OutInv, HeldInv, Outbox!TypeOK
    <2>2. PICK q \in Pollers : Outbox!Commit(q)
      <3>1. \A f \in Events : ~Outbox!Capture(f)
        <4> SUFFICES ASSUME NEW f \in Events, Outbox!Capture(f) PROVE FALSE
          OBVIOUS
        <4>1. f # e /\ row'[e] = row[e]
          BY <2>1 DEF Outbox!Capture
        <4>2. QED
          BY <2>1, <4>1
      <3>2. row' # row
        BY <2>1
      <3>3. QED
        BY <1>1, <3>1, <3>2 DEF Outbox!Next, Outbox!Pass, Outbox!vars, Outbox!Move, Outbox!Read, Outbox!Send,
                          Outbox!SendFails, Outbox!Crash
    <2>3. /\ OpenPass(q) /\ pass[q].left = {}
          /\ row' = [f \in Events |-> IF f \in pass[q].batch THEN Outbox!Marked(q, f) ELSE row[f]]
      BY <2>2 DEF Outbox!Commit, OpenPass
    <2>4. e \in pass[q].batch
      BY <2>1, <2>3
    <2>5. p = q
      BY <1>1, <2>3, <2>4 DEF OutInv, ApartInv
    <2>6. row'[e] = Outbox!Marked(p, e)
      BY <2>3, <2>4, <2>5
    <2>7. ~Outbox!Failed(p, e)
      <3>1. \/ Outbox!Failed(p, e) /\ row'[e].attempts = MaxAttempts
            \/ ~Outbox!Failed(p, e)
            \/ row'[e] = row[e]
        BY <1>1, <2>6, MarkedFacts
      <3>2. QED
        BY <2>1, <3>1
    <2>8. u \notin pass[p].failed
      BY <2>7 DEF Outbox!Failed
    <2>9. QED
      BY <1>1, <2>3, <2>5, <2>8 DEF OutInv, ReachedInv
  <1>2. OutInv /\ [Outbox!Next]_(Outbox!vars) => [Told]_(Outbox!vars)
    BY <1>1
  <1>3. QED
    BY <1>2, OutboxInvariance, PTL DEF Outbox!Spec, ToldOrGivenUp, Outbox!ToldOrGivenUp

\* Nobody is told the same twice but after a failed attempt or a dead process, for
\* any rows, pollers and people (process_pending: FOR UPDATE SKIP LOCKED).
THEOREM NothingIsRepeated == Outbox!Spec => RepeatsHaveACause
  <1> DEFINE Repeats == \A p \in Pollers : \A u \in People :
                          pass[p] # NoPass /\ pass'[p] # NoPass /\ u \in pass[p].left \ pass'[p].left
                            => \A e \in Outbox!For(p, u) :
                                 <<e, u>> \in told => row[e].attempts > 0 \/ crashes > 0
  <1>1. ASSUME OutInv PROVE Repeats
    <2> SUFFICES ASSUME NEW p \in Pollers, NEW u \in People, OpenPass(p), u \in pass[p].left,
                        NEW e \in Outbox!For(p, u), <<e, u>> \in told
                 PROVE  row[e].attempts > 0 \/ crashes > 0
      BY DEF OpenPass
    <2>1. e \in Events /\ e \in pass[p].batch
      BY <1>1, OpenFacts DEF Outbox!For
    <2>2. /\ row[e].state = "pending" /\ row[e].attempts \in Nat /\ crashes \in Nat
      BY <1>1, <2>1, OutNumbers DEF OutInv, HeldInv, Outbox!TypeOK, Outbox!RowState
    <2>3. SUFFICES ASSUME row[e].attempts = 0, crashes = 0 PROVE FALSE
      BY <2>2
    <2>4. PICK q \in Pollers : ToldBy(q, e, u)
      BY <1>1, <2>1, <2>2, <2>3 DEF OutInv, CauseInv
    <2>5. q = p
      BY <1>1, <2>1, <2>4 DEF OutInv, ApartInv, ToldBy
    <2>6. QED
      BY <2>4, <2>5 DEF ToldBy
  <1>2. OutInv => [Repeats]_(Outbox!vars)
    BY <1>1
  <1>3. QED
    BY <1>2, OutboxInvariance, PTL DEF Outbox!Spec, RepeatsHaveACause, Outbox!RepeatsHaveACause

(***************************************************************************)
(* The composition: one part moves, and each behaves as it does alone.     *)
(***************************************************************************)
\* The behaviours of the composition are behaviours of each part, so that what
\* holds of a part holds in the composition.
LEMMA PartsOfDatabase ==
  MCSpec => Spec /\ (Pool!Init /\ [][Pool!Next]_(Pool!vars)) /\ Outbox!Spec
  <1>1. MCInit => Init /\ Pool!Init /\ Outbox!Init
    BY DEF MCInit
  <1>2. [MCNext]_all => [Next]_vars
    BY DEF MCNext, all
  <1>3. [MCNext]_all => [Pool!Next]_(Pool!vars)
    BY DEF MCNext, all, poolVars, Pool!vars
  <1>4. [MCNext]_all => [Outbox!Next]_(Outbox!vars)
    BY DEF MCNext, all, outVars, Outbox!vars
  <1>5. QED
    BY <1>1, <1>2, <1>3, <1>4, PTL DEF MCSpec, Spec, Outbox!Spec

\* Every reachable state of the three parts has the declared types.
THEOREM DatabaseTyped == MCSpec => []TypesOK
  <1>1. PoolInv => Pool!TypeOK
    BY DEF PoolInv
  <1>2. OutInv => Outbox!TypeOK
    BY DEF OutInv
  <1>3. TypeOK /\ Pool!TypeOK /\ Outbox!TypeOK => TypesOK
    BY DEF TypesOK
  <1>4. QED
    BY <1>1, <1>2, <1>3, PartsOfDatabase, TypeCorrect, PoolInvariance, OutboxInvariance, PTL DEF Outbox!Spec

\* What the run of the composition checks of its parts, liveness apart, holds of the
\* composition for any values of the constants.
THEOREM DatabaseSafe ==
  MCSpec => /\ []BundleStatusTrue /\ []AllOrNone /\ []NobodyStuck
            /\ []PoolOneWait
            /\ ToldOrGivenUp /\ RepeatsHaveACause
  <1>1. PoolInv => PoolOneWait
    BY DEF PoolInv
  <1>2. Outbox!Spec => ToldOrGivenUp /\ RepeatsHaveACause
    BY NothingDisappears, NothingIsRepeated
  <1>3. Spec => []BundleStatusTrue /\ []AllOrNone /\ []NobodyStuck
    BY StatusOfTheBatchIsTrue, DecisionIsAllOrNone, NobodyIsStuck
  <1>4. QED
    BY <1>1, <1>2, <1>3, PartsOfDatabase, PoolInvariance, PTL
=============================================================================
