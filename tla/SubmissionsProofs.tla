-------------------------- MODULE SubmissionsProofs --------------------------
(***************************************************************************)
(* Theorems about Submissions, for any number of handlers and any limit.   *)
(*                                                                         *)
(* What the second look found under the advisory lock still holds when the *)
(* request is created: whoever does not take the lock only makes room.     *)
(***************************************************************************)
EXTENDS Submissions, TLAPS, FiniteSetTheorems, SequenceTheorems

(***************************************************************************)
(* The inductive invariant.                                                *)
(***************************************************************************)
\* Ids are handed out in their order.
FreshInv == \A i \in Ids : i >= nextId => row[i].status = "absent"

\* Who submits alone submits one statement.
ItemsInv(p) ==
  sub[p].step \in {"validated", "rechecked"} /\ sub[p].how = "single"
    => sub[p].items \in [1..1 -> Queries]

\* The requests that the second look of p has counted.
Counted(p) == Alone \ {sub[p].edits}

\* Who has looked again holds the lock, there is still room, and the work is new.
RecheckInv(p) ==
  sub[p].step = "rechecked" =>
    /\ sub[p].how = "single" /\ lock = p
    /\ Cardinality(Counted(p)) < MaxOpen
    /\ \A i \in Counted(p) : row[i].query # sub[p].items[1]

IInv ==
  /\ TypeOK /\ FreshInv
  /\ \A p \in Submitters : ItemsInv(p) /\ RecheckInv(p)
  /\ OpenWithinLimit /\ NoDuplicateWork

(***************************************************************************)
(* Lemmas.                                                                 *)
(***************************************************************************)
LEMMA IdsFinite ==
  ASSUME NEW S \in SUBSET Ids
  PROVE  IsFiniteSet(S) /\ Cardinality(S) \in Nat
<1>1. IsFiniteSet(Ids)
  BY FS_Interval, SubmissionsAssumption DEF Ids
<1>2. IsFiniteSet(S)
  BY <1>1, FS_Subset
<1>3. QED
  BY <1>2, FS_CardinalityType

LEMMA Smaller ==
  ASSUME NEW S \in SUBSET Ids, NEW T \in SUBSET S
  PROVE  Cardinality(T) <= Cardinality(S)
  BY IdsFinite, FS_Subset

\* One more than what is below the limit is within it.
LEMMA OneMore ==
  ASSUME NEW S \in SUBSET Ids, Cardinality(S) < MaxOpen, NEW n, NEW T \in SUBSET (S \cup {n}),
         T \subseteq Ids
  PROVE  Cardinality(T) <= MaxOpen
<1>1. IsFiniteSet(S) /\ Cardinality(S) \in Nat /\ MaxOpen \in Nat
  BY IdsFinite, SubmissionsAssumption
<1>2. IsFiniteSet(S \cup {n}) /\ Cardinality(S \cup {n}) <= Cardinality(S) + 1
  BY <1>1, FS_AddElement
<1>3. Cardinality(T) <= Cardinality(S \cup {n})
  BY <1>2, FS_Subset
<1>4. Cardinality(T) \in Nat /\ Cardinality(S \cup {n}) \in Nat
  BY <1>2, IdsFinite, FS_CardinalityType
<1>5. QED
  BY <1>1, <1>2, <1>3, <1>4

LEMMA AloneIds == Alone \subseteq Ids /\ \A p \in Submitters : Counted(p) \subseteq Ids
  BY DEF Alone, Counted

\* What leaves the counted requests as they are, or takes some away, keeps the
\* invariant.
LEMMA MakesRoom ==
  ASSUME IInv, TypeOK', FreshInv', \A p \in Submitters : ItemsInv(p)',
         overtaken' = overtaken,
         \A i \in Ids : row'[i].how = "single" /\ row'[i].status \in Open =>
           row[i].how = "single" /\ row[i].status \in Open /\ row'[i].query = row[i].query,
         \A p \in Submitters : sub'[p].step = "rechecked" => sub'[p] = sub[p] /\ lock' = lock
  PROVE  IInv'
<1>1. Alone' \subseteq Alone /\ \A i \in Alone' : row'[i].query = row[i].query
  BY DEF Alone
<1>2. Alone \in SUBSET Ids /\ Alone' \in SUBSET Ids
  BY DEF Alone
<1>3. OpenWithinLimit'
  <2>1. Cardinality(Alone') <= Cardinality(Alone)
    BY <1>1, <1>2, Smaller
  <2>2. Cardinality(Alone') \in Nat /\ Cardinality(Alone) \in Nat /\ MaxOpen \in Nat
    BY <1>2, IdsFinite, SubmissionsAssumption
  <2>3. QED
    BY <2>1, <2>2 DEF IInv, OpenWithinLimit
<1>4. NoDuplicateWork'
  BY <1>1 DEF IInv, NoDuplicateWork
<1>5. ASSUME NEW p \in Submitters PROVE RecheckInv(p)'
  <2> SUFFICES ASSUME sub'[p].step = "rechecked"
               PROVE  /\ sub'[p].how = "single" /\ lock' = p
                      /\ Cardinality(Counted(p)') < MaxOpen
                      /\ \A i \in Counted(p)' : row'[i].query # sub'[p].items[1]
    BY DEF RecheckInv
  <2>1. sub'[p] = sub[p] /\ lock' = lock
    OBVIOUS
  <2>2. Counted(p)' \subseteq Counted(p) /\ Counted(p) \in SUBSET Ids /\ Counted(p)' \in SUBSET Ids
    BY <1>1, <1>2, <2>1 DEF Counted
  <2>3. Cardinality(Counted(p)') <= Cardinality(Counted(p))
    BY <2>2, Smaller
  <2>4. Cardinality(Counted(p)') \in Nat /\ Cardinality(Counted(p)) \in Nat /\ MaxOpen \in Nat
    BY <2>2, IdsFinite, SubmissionsAssumption
  <2>5. RecheckInv(p)
    BY DEF IInv
  <2>6. \A i \in Counted(p)' : row'[i].query = row[i].query
    BY <1>1 DEF Counted
  <2>7. QED
    BY <2>1, <2>2, <2>3, <2>4, <2>5, <2>6 DEF RecheckInv
<1>6. QED
  BY <1>3, <1>4, <1>5 DEF IInv

\* The rows a table may hold.
LEMMA Rows ==
  /\ Absent \in Row /\ Drafted \in Row
  /\ Absent.status = "absent" /\ Absent.how = "none"
  /\ Drafted.status = "draft" /\ Drafted.how = "none"
  /\ \A r \in Row, s \in {"decided", "closed"} :
       LET new == [r EXCEPT !.status = s]
       IN new \in Row /\ new.status = s /\ new.how = r.how /\ new.query = r.query /\ new.replaces = r.replaces
<1>1. 0 \in 0..MaxId
  BY SubmissionsAssumption
<1>2. QED
  BY <1>1 DEF Absent, Drafted, Row, Open

\* A handler that has come to its end is idle.
LEMMA IdleHandler ==
  Idle \in Handler /\ Idle.step = "idle"
<1>1. 0 \in 0..MaxId /\ 0 \in 0..(BatchMax + 1)
  BY SubmissionsAssumption
<1>2. <<>> \in [1..0 -> Queries]
  OBVIOUS
<1>3. <<>> \in UNION {[1..n -> Queries] : n \in 0..(BatchMax + 1)}
  BY <1>1, <1>2
<1>4. QED
  BY <1>1, <1>3 DEF Idle, Handler

LEMMA InitInv == Init => IInv
<1> SUFFICES ASSUME Init PROVE IInv
  OBVIOUS
<1>1. TypeOK
  BY Rows, IdleHandler, SubmissionsAssumption DEF Init, TypeOK
<1>2. FreshInv /\ \A p \in Submitters : ItemsInv(p) /\ RecheckInv(p)
  BY Rows, IdleHandler DEF Init, FreshInv, ItemsInv, RecheckInv
<1>3. Alone = {}
  BY Rows DEF Init, Alone
<1>4. OpenWithinLimit /\ NoDuplicateWork
  BY <1>3, FS_EmptySet, SubmissionsAssumption DEF OpenWithinLimit, NoDuplicateWork
<1>5. QED
  BY <1>1, <1>2, <1>4 DEF IInv

LEMMA ReserveCountInv ==
  ASSUME IInv, NEW p \in Submitters, ReserveCount(p)
  PROVE  IInv'
<1>1. UNCHANGED <<row, nextId, lock, overtaken>>
  BY DEF ReserveCount
<1>2. PICK d \in {0, 1} : sub' = [sub EXCEPT ![p].step = "count", ![p].draft = d]
  BY DEF ReserveCount
<1> DEFINE new == [sub[p] EXCEPT !.step = "count", !.draft = d]
<1>3. new \in Handler /\ new.step = "count"
  <2>1. sub[p] \in Handler /\ d \in 0..MaxId
    BY SubmissionsAssumption DEF IInv, TypeOK
  <2>2. QED
    BY <2>1 DEF Handler
<1>4. sub' = [sub EXCEPT ![p] = new]
  BY <1>2 DEF IInv, TypeOK
<1> HIDE DEF new
<1>5. TypeOK' /\ FreshInv'
  BY <1>1, <1>3, <1>4 DEF IInv, TypeOK, FreshInv
<1>6. \A q \in Submitters : sub'[q] = IF q = p THEN new ELSE sub[q]
  BY <1>4 DEF IInv, TypeOK
<1>7. \A q \in Submitters : ItemsInv(q)'
  BY <1>3, <1>6 DEF IInv, ItemsInv
<1>8. QED
  BY <1>1, <1>3, <1>5, <1>6, <1>7, MakesRoom

\* Drafts come and go, the new one under a number nobody has had.
LEMMA ReserveInv ==
  ASSUME IInv, NEW p \in Submitters, Reserve(p)
  PROVE  IInv'
<1>1. /\ nextId <= MaxId /\ nextId' = nextId + 1 /\ sub' = [sub EXCEPT ![p] = Idle]
      /\ UNCHANGED <<lock, overtaken>>
  BY DEF Reserve
<1>2. \A i \in Ids : \/ row'[i] = Drafted /\ i = nextId
                     \/ row'[i] = Absent
                     \/ row'[i] = row[i] /\ i # nextId
  BY DEF Reserve
<1>3. row' \in [Ids -> Row]
  <2>1. row' = [i \in Ids |-> row'[i]]
    BY DEF Reserve
  <2>2. \A i \in Ids : row'[i] \in Row
    BY <1>2, Rows DEF IInv, TypeOK
  <2>3. QED
    BY <2>1, <2>2
<1>4. nextId' \in 1..(MaxId + 1)
  BY <1>1, SubmissionsAssumption DEF IInv, TypeOK
<1>5. TypeOK'
  BY <1>1, <1>3, <1>4, IdleHandler DEF IInv, TypeOK
<1>6. FreshInv'
  BY <1>1, <1>2, Rows DEF IInv, TypeOK, FreshInv, Ids
<1>7. \A q \in Submitters : sub'[q] = IF q = p THEN Idle ELSE sub[q]
  BY <1>1 DEF IInv, TypeOK
<1>8. \A q \in Submitters : ItemsInv(q)'
  BY <1>7, IdleHandler DEF IInv, ItemsInv
<1>9. QED
  BY <1>1, <1>2, <1>5, <1>6, <1>7, <1>8, Rows, IdleHandler, MakesRoom

LEMMA ReapDraftsInv ==
  ASSUME IInv, ReapDrafts
  PROVE  IInv'
<1>1. UNCHANGED <<nextId, sub, lock, overtaken>>
  BY DEF ReapDrafts
<1>2. PICK limit \in Ids : row' = [i \in Ids |-> IF i \in Reaped(limit) THEN Absent ELSE row[i]]
  BY DEF ReapDrafts
<1>3. row' \in [Ids -> Row] /\ \A i \in Ids : row'[i] \in {Absent, row[i]}
  BY <1>2, Rows DEF IInv, TypeOK
<1>4. TypeOK' /\ FreshInv'
  BY <1>1, <1>3, Rows DEF IInv, TypeOK, FreshInv
<1>5. \A q \in Submitters : ItemsInv(q)'
  BY <1>1 DEF IInv, ItemsInv
<1>6. QED
  BY <1>1, <1>3, <1>4, <1>5, Rows, MakesRoom

LEMMA ProceedInv ==
  ASSUME IInv, NEW i \in Ids, Proceed(i)
  PROVE  IInv'
<1>1. row[i].status \in Open /\ UNCHANGED <<nextId, sub, lock, overtaken>>
  BY DEF Proceed
<1>2. PICK s \in {"decided", "closed"} : row' = [row EXCEPT ![i].status = s]
  BY DEF Proceed
<1>3. PICK new \in Row : /\ new.status = s /\ new.how = row[i].how /\ new.query = row[i].query
                         /\ row' = [row EXCEPT ![i] = new]
  <2> DEFINE new == [row[i] EXCEPT !.status = s]
  <2>1. row[i] \in Row
    BY DEF IInv, TypeOK
  <2>2. new \in Row /\ new.status = s /\ new.how = row[i].how /\ new.query = row[i].query
    BY <2>1, Rows
  <2>3. row' = [row EXCEPT ![i] = new]
    BY <1>2
  <2> HIDE DEF new
  <2>4. QED
    BY <2>2, <2>3
<1>4. row' \in [Ids -> Row] /\ \A j \in Ids : row'[j] = IF j = i THEN new ELSE row[j]
  BY <1>3 DEF IInv, TypeOK
<1>5. TypeOK'
  BY <1>1, <1>4 DEF IInv, TypeOK
<1>6. FreshInv'
  BY <1>1, <1>4 DEF IInv, FreshInv, Open
<1>7. \A q \in Submitters : ItemsInv(q)'
  BY <1>1 DEF IInv, ItemsInv
<1>8. QED
  BY <1>1, <1>3, <1>4, <1>5, <1>6, <1>7, MakesRoom

\* A handler that has validated something has still to look again.
LEMMA ValidatedInv ==
  ASSUME IInv, NEW p \in Submitters, NEW new \in Handler, sub' = [sub EXCEPT ![p] = new],
         new.step \in {"idle", "validated"}, new.step = "validated" /\ new.how = "single" => new.items \in [1..1 -> Queries],
         UNCHANGED <<row, nextId, lock, overtaken>>
  PROVE  IInv'
<1>1. TypeOK' /\ FreshInv'
  BY DEF IInv, TypeOK, FreshInv
<1>2. \A q \in Submitters : sub'[q] = IF q = p THEN new ELSE sub[q]
  BY DEF IInv, TypeOK
<1>3. \A q \in Submitters : ItemsInv(q)'
  BY <1>2 DEF IInv, ItemsInv
<1>4. QED
  BY <1>1, <1>2, <1>3, MakesRoom

LEMMA ValidateInv ==
  ASSUME IInv, NEW p \in Submitters, NEW q \in Queries,
         NEW edits \in {0} \cup {i \in Ids : row[i].status = "pending"}, NEW draft \in {0} \cup Drafts,
         Validate(p, q, edits, draft)
  PROVE  IInv'
<1> DEFINE new == [step |-> "validated", how |-> "single", items |-> <<q>>, edits |-> edits, draft |-> draft]
<1>1. sub' = [sub EXCEPT ![p] = new] /\ UNCHANGED <<row, nextId, lock, overtaken>>
  BY DEF Validate
<1>2. edits \in 0..MaxId /\ draft \in 0..MaxId
  BY SubmissionsAssumption DEF Drafts, Ids
<1>3. <<q>> \in [1..1 -> Queries]
  OBVIOUS
<1>4. <<q>> \in UNION {[1..n -> Queries] : n \in 0..(BatchMax + 1)}
  <2>1. 1 \in 0..(BatchMax + 1)
    BY SubmissionsAssumption
  <2>2. QED
    BY <1>3, <2>1
<1>5. new \in Handler /\ new.step = "validated" /\ new.items = <<q>>
  BY <1>2, <1>4 DEF Handler
<1> HIDE DEF new
<1>6. QED
  BY <1>1, <1>3, <1>5, ValidatedInv

LEMMA ValidateBatchInv ==
  ASSUME IInv, NEW p \in Submitters, NEW n \in 1..BatchMax, NEW qs \in [1..n -> Queries],
         ValidateWebBatch(p, qs)
  PROVE  IInv'
<1> DEFINE new == [Idle EXCEPT !.step = "validated", !.how = "batch", !.items = qs]
<1>1. sub' = [sub EXCEPT ![p] = new] /\ UNCHANGED <<row, nextId, lock, overtaken>>
  BY DEF ValidateWebBatch
<1>2. n \in 0..(BatchMax + 1)
  BY SubmissionsAssumption
<1>3. qs \in UNION {[1..m -> Queries] : m \in 0..(BatchMax + 1)}
  BY <1>2
<1>4. new \in Handler /\ new.step = "validated" /\ new.how = "batch"
  BY <1>3, IdleHandler DEF Handler
<1> HIDE DEF new
<1>5. QED
  BY <1>1, <1>4, ValidatedInv

LEMMA RecheckRefusedInv ==
  ASSUME IInv, NEW p \in Submitters, RecheckRefused(p)
  PROVE  IInv'
  BY IdleHandler, ValidatedInv DEF RecheckRefused

\* The second look counts every open request but the original of the edit.
LEMMA RecheckInvariant ==
  ASSUME IInv, NEW p \in Submitters, Recheck(p)
  PROVE  IInv'
<1>1. /\ sub[p].step = "validated" /\ sub[p].how = "single" /\ lock = NoOne /\ lock' = p
      /\ UnderLimit(sub[p].edits) /\ ~Duplicate(sub[p].items[1], sub[p].edits)
      /\ UNCHANGED <<row, nextId, overtaken>>
  BY DEF Recheck, Lock, Rechecked
<1> DEFINE new == [sub[p] EXCEPT !.step = "rechecked"]
<1>2. /\ new \in Handler /\ new.step = "rechecked" /\ new.how = "single"
      /\ new.items = sub[p].items /\ new.edits = sub[p].edits
  BY <1>1 DEF IInv, TypeOK, Handler
<1>3. sub' = [sub EXCEPT ![p] = new]
  BY DEF Recheck
<1> HIDE DEF new
<1>4. \A q \in Submitters : sub'[q] = IF q = p THEN new ELSE sub[q]
  BY <1>3 DEF IInv, TypeOK
<1>5. TypeOK'
  BY <1>1, <1>2, <1>3 DEF IInv, TypeOK
<1>6. FreshInv' /\ OpenWithinLimit' /\ NoDuplicateWork' /\ Alone' = Alone
  BY <1>1 DEF IInv, FreshInv, OpenWithinLimit, NoDuplicateWork, Alone
<1>7. \A q \in Submitters : ItemsInv(q)'
  BY <1>1, <1>2, <1>4 DEF IInv, ItemsInv
<1>8. RecheckInv(p)'
  <2>1. Counted(p) \subseteq OpenOf(sub[p].edits) /\ Counted(p) \in SUBSET Ids
    BY DEF Counted, Alone, OpenOf
  <2>2. OpenOf(sub[p].edits) \in SUBSET Ids
    BY DEF OpenOf
  <2>3. Cardinality(Counted(p)) <= Cardinality(OpenOf(sub[p].edits))
    BY <2>1, <2>2, Smaller
  <2>4. Cardinality(Counted(p)) < MaxOpen
    BY <1>1, <2>1, <2>2, <2>3, IdsFinite, SubmissionsAssumption DEF UnderLimit
  <2>5. \A i \in Counted(p) : row[i].query # sub[p].items[1]
    BY <1>1, <2>1 DEF Duplicate
  <2>6. Counted(p)' = Counted(p)
    BY <1>2, <1>4, <1>6 DEF Counted
  <2>7. QED
    BY <1>1, <1>2, <1>4, <2>4, <2>5, <2>6 DEF RecheckInv
<1>9. ASSUME NEW q \in Submitters, q # p PROVE RecheckInv(q)'
  <2>1. lock # q
    BY <1>1, SubmissionsAssumption DEF NoOne
  <2>2. sub[q].step # "rechecked"
    BY <2>1 DEF IInv, RecheckInv
  <2>3. QED
    BY <1>4, <1>9, <2>2 DEF RecheckInv
<1>10. QED
  BY <1>5, <1>6, <1>7, <1>8, <1>9 DEF IInv

\* The number of the new request is one nobody has submitted under.
LEMMA NewIdFree ==
  ASSUME IInv, NEW p \in Submitters, NewId(p) <= MaxId
  PROVE  /\ NewId(p) \in Ids /\ row[NewId(p)].status \in {"draft", "absent"}
         /\ NewId(p) # nextId => row[NewId(p)].status = "draft"
<1>1. sub[p].draft \in 0..MaxId /\ nextId \in 1..(MaxId + 1)
  BY DEF IInv, TypeOK, Handler
<1>2. CASE Claimed(p)
  BY <1>1, <1>2, SubmissionsAssumption DEF NewId, Claimed, Ids
<1>3. CASE ~Claimed(p)
  BY <1>1, <1>3, SubmissionsAssumption DEF NewId, IInv, FreshInv, Ids
<1>4. QED
  BY <1>2, <1>3

LEMMA CreateInv ==
  ASSUME IInv, NEW p \in Submitters, Create(p)
  PROVE  IInv'
<1>1. PICK id \in Ids : id = NewId(p)
  BY NewIdFree DEF Create
<1>2. row[id].status \in {"draft", "absent"} /\ (id # nextId => row[id].status = "draft")
  BY <1>1, NewIdFree DEF Create
<1>3. PICK edits \in 0..MaxId : edits = sub[p].edits
  BY DEF IInv, TypeOK, Handler
<1>4. sub[p].step = "rechecked" /\ sub[p].how = "single" /\ lock = p
  BY DEF Create, IInv, RecheckInv
<1>5. PICK query \in Queries : query = sub[p].items[1]
  BY <1>4 DEF IInv, ItemsInv
<1>6. PICK verdict \in {"pending", "decided"} :
        row' = [i \in Ids |->
                  IF i = id THEN [status |-> verdict, query |-> query, how |-> "single", replaces |-> edits]
                  ELSE IF Withdrawn(p) /\ i = edits THEN [row[i] EXCEPT !.status = "closed"] ELSE row[i]]
  BY <1>1, <1>3, <1>5 DEF Create
<1> DEFINE new == [status |-> verdict, query |-> query, how |-> "single", replaces |-> edits]
<1>7. new \in Row /\ new.status = verdict /\ new.query = query /\ new.how = "single"
  BY <1>3, <1>5, <1>6 DEF Row, Open
<1> HIDE DEF new
<1>8. /\ nextId' = IF id = nextId THEN nextId + 1 ELSE nextId
      /\ overtaken' = IF edits # 0 /\ row[edits].status = "decided" THEN overtaken \cup {edits} ELSE overtaken
      /\ lock' = NoOne /\ sub' = [sub EXCEPT ![p] = Idle]
  BY <1>1, <1>3 DEF Create
<1>9. /\ row'[id] = new
      /\ \A i \in Ids \ {id} : \/ row'[i] = row[i] /\ ~ (Withdrawn(p) /\ i = edits)
                               \/ i = edits /\ Withdrawn(p) /\ row'[i] = [row[i] EXCEPT !.status = "closed"]
  BY <1>6 DEF new
<1>10. \A i \in Ids : row[i] \in Row
  BY DEF IInv, TypeOK
<1>11. \A i \in Ids \ {id} : row'[i] \in Row
  BY <1>9, <1>10, Rows
<1>12. row' \in [Ids -> Row]
  <2>1. row' = [i \in Ids |-> row'[i]]
    BY <1>6
  <2>2. \A i \in Ids : row'[i] \in Row
    BY <1>7, <1>9, <1>11
  <2>3. QED
    BY <2>1, <2>2
<1>13. TypeOK'
  <2>1. nextId' \in 1..(MaxId + 1)
    BY <1>8, SubmissionsAssumption DEF IInv, TypeOK, Ids
  <2>2. overtaken' \subseteq Ids
    BY <1>8 DEF IInv, TypeOK, Ids
  <2>3. QED
    BY <1>8, <1>12, <2>1, <2>2, IdleHandler DEF IInv, TypeOK
<1>14. FreshInv'
  <2> SUFFICES ASSUME NEW i \in Ids, i >= nextId' PROVE row'[i].status = "absent"
    BY DEF FreshInv
  <2>1. nextId \in Nat /\ i \in Nat
    BY DEF IInv, TypeOK, Ids
  <2>2. row[i].status = "absent" /\ i >= nextId
    BY <1>8, <2>1 DEF IInv, FreshInv
  <2>3. i # id
    BY <1>2, <1>8, <2>1, <2>2
  <2>4. ~ (Withdrawn(p) /\ i = edits)
    BY <1>3, <2>2 DEF Withdrawn
  <2>5. QED
    BY <1>9, <2>2, <2>3, <2>4
<1>15. \A q \in Submitters : sub'[q] = IF q = p THEN Idle ELSE sub[q]
  BY <1>8 DEF IInv, TypeOK
<1>16. ASSUME NEW q \in Submitters PROVE ItemsInv(q)' /\ RecheckInv(q)'
  <2>1. CASE q = p
    BY <1>15, <2>1, IdleHandler DEF ItemsInv, RecheckInv
  <2>2. CASE q # p
    <3>1. sub[q].step # "rechecked"
      BY <1>4, <2>2 DEF IInv, RecheckInv
    <3>2. QED
      BY <1>15, <2>2, <3>1 DEF IInv, ItemsInv, RecheckInv
  <2>3. QED
    BY <2>1, <2>2
<1>17. ASSUME NEW i \in Alone', i # id
       PROVE  i \in Counted(p) /\ row'[i].query = row[i].query
  <2>1. i \in Ids /\ row'[i].how = "single" /\ row'[i].status \in Open /\ i \notin overtaken'
    BY DEF Alone
  <2>2. row'[i] = row[i] /\ ~ (Withdrawn(p) /\ i = edits)
    <3>1. CASE i = edits /\ Withdrawn(p) /\ row'[i] = [row[i] EXCEPT !.status = "closed"]
      <4>1. row'[i].status = "closed"
        BY <1>10, <2>1, <3>1, Rows
      <4>2. QED
        BY <2>1, <4>1 DEF Open
    <3>2. QED
      BY <1>9, <1>17, <2>1, <3>1
  <2>3. i \in Alone
    BY <1>8, <2>1, <2>2 DEF Alone
  <2>4. i # edits
    BY <1>3, <1>8, <2>1, <2>2 DEF Withdrawn, Open, Ids
  <2>5. QED
    BY <1>3, <2>2, <2>3, <2>4 DEF Counted
<1>18. OpenWithinLimit'
  <2>1. Alone' \subseteq Ids /\ Counted(p) \in SUBSET Ids
    BY DEF Alone, Counted
  <2>2. Alone' \in SUBSET (Counted(p) \cup {id})
    BY <1>17
  <2>3. Cardinality(Counted(p)) < MaxOpen
    BY <1>4 DEF IInv, RecheckInv
  <2>4. QED
    BY <2>1, <2>2, <2>3, OneMore DEF OpenWithinLimit
<1>19. NoDuplicateWork'
  <2>1. \A i \in Counted(p) : row[i].query # query
    BY <1>4, <1>5 DEF IInv, RecheckInv
  <2>2. row'[id].query = query
    BY <1>7, <1>9
  <2>3. Counted(p) \subseteq Alone
    BY DEF Counted
  <2>4. QED
    BY <1>17, <2>1, <2>2, <2>3 DEF IInv, NoDuplicateWork
<1>20. QED
  BY <1>13, <1>14, <1>16, <1>18, <1>19 DEF IInv

LEMMA CreateBatchInv ==
  ASSUME IInv, NEW p \in Submitters, CreateBatch(p)
  PROVE  IInv'
<1> DEFINE n == Len(sub[p].items)
<1>1. n \in Nat /\ sub[p].items \in [1..n -> Queries]
  <2>1. sub[p].items \in Seq(Queries)
    <3>1. PICK m \in 0..(BatchMax + 1) : sub[p].items \in [1..m -> Queries]
      <4>1. sub[p] \in Handler
        BY DEF IInv, TypeOK
      <4>2. sub[p].items \in UNION {[1..m -> Queries] : m \in 0..(BatchMax + 1)}
        BY <4>1 DEF Handler
      <4>3. QED
        BY <4>2
    <3>2. m \in Nat
      BY SubmissionsAssumption
    <3>3. QED
      BY <3>1, <3>2, SeqDef
  <2>2. QED
    BY <2>1, LenProperties
<1>2. PICK items \in [1..n -> Queries] : items = sub[p].items
  BY <1>1
<1>3. PICK k \in Nat : k = n
  BY <1>1
<1>4. items \in [1..k -> Queries]
  BY <1>2, <1>3
<1>5. nextId + k <= MaxId + 1 /\ nextId' = nextId + k /\ sub' = [sub EXCEPT ![p] = Idle]
      /\ UNCHANGED <<lock, overtaken>>
  BY <1>3 DEF CreateBatch
<1>6. PICK auto \in SUBSET (nextId..(nextId + n - 1)) :
        row' = [i \in Ids |->
                  IF i \in nextId..(nextId + n - 1)
                  THEN [status |-> IF i \in auto THEN "decided" ELSE "pending",
                        query |-> sub[p].items[i - nextId + 1], how |-> "batch", replaces |-> 0]
                  ELSE row[i]]
  BY DEF CreateBatch
<1> HIDE DEF n
<1>7. nextId \in 1..(MaxId + 1) /\ nextId \in Nat /\ \A i \in Ids : row[i] \in Row
  BY DEF IInv, TypeOK
<1>8. ASSUME NEW i \in Ids, i \in nextId..(nextId + k - 1)
      PROVE  row'[i] \in Row /\ row'[i].how = "batch"
  <2>1. i - nextId + 1 \in 1..k
    BY <1>7, <1>8
  <2>2. PICK query \in Queries : query = items[i - nextId + 1]
    BY <1>4, <2>1
  <2>3. 0 \in 0..MaxId
    BY SubmissionsAssumption
  <2>4. PICK status \in Open : status = IF i \in auto THEN "decided" ELSE "pending"
    BY DEF Open
  <2>5. row'[i] = [status |-> status, query |-> query, how |-> "batch", replaces |-> 0]
    BY <1>2, <1>3, <1>6, <1>8, <2>2, <2>4
  <2>6. QED
    BY <2>2, <2>3, <2>4, <2>5 DEF Row
<1>9. \A i \in Ids : i \notin nextId..(nextId + k - 1) => row'[i] = row[i]
  BY <1>3, <1>6
<1>10. TypeOK'
  <2>1. row' = [i \in Ids |-> row'[i]]
    BY <1>6
  <2>2. \A i \in Ids : row'[i] \in Row
    BY <1>7, <1>8, <1>9
  <2>3. nextId' \in 1..(MaxId + 1)
    BY <1>5, <1>7, SubmissionsAssumption
  <2>4. row' \in [Ids -> Row]
    BY <2>1, <2>2
  <2>5. QED
    BY <1>5, <2>3, <2>4, IdleHandler DEF IInv, TypeOK
<1>11. FreshInv'
  BY <1>5, <1>7, <1>9 DEF IInv, FreshInv, Ids
<1>12. \A q \in Submitters : sub'[q] = IF q = p THEN Idle ELSE sub[q]
  BY <1>5 DEF IInv, TypeOK
<1>13. \A q \in Submitters : ItemsInv(q)'
  BY <1>12, IdleHandler DEF IInv, ItemsInv
<1>14. QED
  BY <1>5, <1>8, <1>9, <1>10, <1>11, <1>12, <1>13, IdleHandler, MakesRoom

LEMMA StepInv == IInv /\ [Next]_vars => IInv'
<1> SUFFICES ASSUME IInv, [Next]_vars PROVE IInv'
  OBVIOUS
<1>1. ASSUME NEW p \in Submitters, ReserveCount(p) PROVE IInv'
  BY <1>1, ReserveCountInv
<1>2. ASSUME NEW p \in Submitters, Reserve(p) PROVE IInv'
  BY <1>2, ReserveInv
<1>3. ASSUME NEW p \in Submitters, NEW q \in Queries,
             NEW edits \in {0} \cup {i \in Ids : row[i].status = "pending"}, NEW draft \in {0} \cup Drafts,
             Validate(p, q, edits, draft)
      PROVE  IInv'
  BY <1>3, ValidateInv
<1>4. ASSUME NEW p \in Submitters, NEW n \in 1..BatchMax, NEW qs \in [1..n -> Queries],
             ValidateWebBatch(p, qs) \/ ValidateSlackBatch(p, qs)
      PROVE  IInv'
  BY <1>4, ValidateBatchInv DEF ValidateSlackBatch
<1>5. ASSUME NEW p \in Submitters, Recheck(p) PROVE IInv'
  BY <1>5, RecheckInvariant
<1>6. ASSUME NEW p \in Submitters, RecheckRefused(p) PROVE IInv'
  BY <1>6, RecheckRefusedInv
<1>7. ASSUME NEW p \in Submitters, Create(p) PROVE IInv'
  BY <1>7, CreateInv
<1>8. ASSUME NEW p \in Submitters, CreateBatch(p) PROVE IInv'
  BY <1>8, CreateBatchInv
<1>9. CASE ReapDrafts
  BY <1>9, ReapDraftsInv
<1>10. ASSUME NEW i \in Ids, Proceed(i) PROVE IInv'
  BY <1>10, ProceedInv
<1>11. CASE UNCHANGED vars
  <2>1. TypeOK' /\ FreshInv' /\ \A q \in Submitters : ItemsInv(q)'
    BY <1>11 DEF vars, IInv, TypeOK, FreshInv, ItemsInv
  <2>2. QED
    BY <1>11, <2>1, MakesRoom DEF vars
<1>12. QED
  BY <1>1, <1>2, <1>3, <1>4, <1>5, <1>6, <1>7, <1>8, <1>9, <1>10, <1>11 DEF Next

(***************************************************************************)
(* The theorems.                                                           *)
(***************************************************************************)
\* The invariant is an invariant of the submissions.
THEOREM Invariance == Spec => []IInv
  BY InitInv, StepInv, PTL DEF Spec

\* The variables have their types.
THEOREM TypeCorrect == Spec => []TypeOK
<1>1. IInv => TypeOK
  BY DEF IInv
<1>2. QED
  BY <1>1, Invariance, PTL

\* However many submissions of one user race each other and the decisions on their
\* other requests, they stay within the limit (create_request).
THEOREM LimitOfTheUser == Spec => []OpenWithinLimit
<1>1. IInv => OpenWithinLimit
  BY DEF IInv
<1>2. QED
  BY <1>1, Invariance, PTL

\* Nor do they create the same work twice (_recheck_open_limits).
THEOREM WorkIsNew == Spec => []NoDuplicateWork
<1>1. IInv => NoDuplicateWork
  BY DEF IInv
<1>2. QED
  BY <1>1, Invariance, PTL

LEMMA SubmittedStays ==
  ASSUME IInv, [Next]_vars, NEW i \in Ids, Submitted(row[i])
  PROVE  Submitted(row'[i]) /\ row'[i].query = row[i].query /\ row'[i].replaces = row[i].replaces
<1> DEFINE Goal == Submitted(row'[i]) /\ row'[i].query = row[i].query /\ row'[i].replaces = row[i].replaces
<1> SUFFICES Goal
  OBVIOUS
<1>1. row[i] \in Row /\ row[i].status \notin {"draft", "absent"}
  BY DEF IInv, TypeOK, Submitted, Open
<1>2. ~ (i >= nextId)
  BY <1>1 DEF IInv, FreshInv
<1>3. nextId \in Nat /\ i \in Nat
  BY DEF IInv, TypeOK, Ids
<1>4. CASE UNCHANGED row
  BY <1>4
<1>5. ASSUME NEW s \in {"decided", "closed"}, row'[i] = [row[i] EXCEPT !.status = s] PROVE Goal
  BY <1>1, <1>5, Rows DEF Submitted, Open
<1>6. ASSUME NEW p \in Submitters, Reserve(p) PROVE Goal
  <2>1. row'[i] = row[i]
    BY <1>1, <1>2, <1>3, <1>6 DEF Reserve, OldestHalf, Drafts
  <2>2. QED
    BY <2>1
<1>7. CASE ReapDrafts
  <2>1. row'[i] = row[i]
    BY <1>1, <1>7 DEF ReapDrafts, Reaped, Drafts
  <2>2. QED
    BY <2>1
<1>8. ASSUME NEW p \in Submitters, Create(p) PROVE Goal
  <2>1. NewId(p) <= MaxId
    BY <1>8 DEF Create
  <2>2. i # NewId(p)
    BY <1>1, <2>1, NewIdFree
  <2>3. row'[i] = row[i] \/ row'[i] = [row[i] EXCEPT !.status = "closed"]
    BY <1>8, <2>2 DEF Create
  <2>4. QED
    BY <1>5, <2>3
<1>9. ASSUME NEW p \in Submitters, CreateBatch(p) PROVE Goal
  <2>1. i \notin nextId..(nextId + Len(sub[p].items) - 1)
    BY <1>2, <1>3
  <2>2. row'[i] = row[i]
    BY <1>9, <2>1 DEF CreateBatch
  <2>3. QED
    BY <2>2
<1>10. ASSUME NEW j \in Ids, Proceed(j) PROVE Goal
  <2>1. PICK s \in {"decided", "closed"} : row' = [row EXCEPT ![j].status = s]
    BY <1>10 DEF Proceed
  <2>2. row'[i] = row[i] \/ row'[i] = [row[i] EXCEPT !.status = s]
    BY <2>1 DEF IInv, TypeOK
  <2>3. QED
    BY <1>5, <2>2
<1> HIDE DEF Goal
<1>11. ASSUME NEW p \in Submitters, NEW qs,
              ReserveCount(p) \/ Recheck(p) \/ RecheckRefused(p)
              \/ ValidateWebBatch(p, qs) \/ ValidateSlackBatch(p, qs)
       PROVE  UNCHANGED row
  BY <1>11 DEF ReserveCount, Recheck, RecheckRefused, ValidateWebBatch, ValidateSlackBatch
<1>12. ASSUME NEW p \in Submitters, NEW q, NEW edits, NEW draft, Validate(p, q, edits, draft)
       PROVE  UNCHANGED row
  BY <1>12 DEF Validate
<1>13. CASE UNCHANGED vars
  BY <1>4, <1>13 DEF vars
<1>14. QED
  BY <1>4, <1>6, <1>7, <1>8, <1>9, <1>10, <1>11, <1>12, <1>13 DEF Next

\* A submitted request is not deleted, and its number is its own (_claim_draft).
THEOREM SubmittedIsKept == Spec => SubmittedNotLost
<1>1. IInv /\ [Next]_vars =>
        [\A i \in Ids : Submitted(row[i])
           => Submitted(row'[i]) /\ row'[i].query = row[i].query /\ row'[i].replaces = row[i].replaces]_vars
  BY SubmittedStays
<1>2. QED
  BY <1>1, Invariance, PTL DEF Spec, SubmittedNotLost
=============================================================================
