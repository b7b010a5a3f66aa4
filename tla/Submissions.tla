------------------------------ MODULE Submissions ------------------------------
(***************************************************************************)
(* The requests of one user: how a submission is validated and created,    *)
(* alone or in a batch, against the limit of open requests and the guard   *)
(* against doing the same work twice, under the numbers the open tabs      *)
(* reserve (core_submit.py; the batch paths of routes_queries.py and       *)
(* handlers.py).                                                           *)
(*                                                                         *)
(* validate_submission reads outside any transaction; create_request reads *)
(* again in its own, under an advisory lock of the user.  Decisions on the *)
(* user's other requests take no such lock and fall in between.            *)
(*                                                                         *)
(* Abstracted: a request is pending, decided (changes requested, approved, *)
(* scheduled or executing, which all count as open) or closed; the user is *)
(* no admin; a statement is a value; safety, grants and masking say yes.   *)
(* A request that is escalated to a DBA is not modelled here.              *)
(***************************************************************************)
EXTENDS Naturals, FiniteSets, Sequences, FiniteSetsExt

CONSTANTS
  Submitters,   \* handlers running for the user at one time
  Queries,      \* what there is to ask
  MaxOpen,      \* max_open_requests_per_user
  DraftCap,     \* draft_request_max_open
  BatchMax,     \* batch_max_items; 0: batch_enabled is off
  MaxId         \* bound: ids the sequence hands out

ASSUME SubmissionsAssumption ==
  /\ MaxOpen \in Nat \ {0} /\ DraftCap \in Nat \ {0} /\ BatchMax \in Nat /\ MaxId \in Nat \ {0}
  /\ "nobody" \notin Submitters

VARIABLES
  row,       \* requests, by id
  nextId,    \* the sequence
  sub,       \* what each handler does
  lock,      \* who holds the user's advisory lock
  overtaken  \* history: originals somebody decided while their edit was created

vars == <<row, nextId, sub, lock, overtaken>>

Ids    == 1..MaxId
NoOne  == "nobody"
Open   == {"pending", "decided"}
Row    == [status : Open \cup {"absent", "draft", "closed"}, query : Queries \cup {"none"},
           how : {"none", "single", "batch"}, replaces : 0..MaxId]
Absent == [status |-> "absent", query |-> "none", how |-> "none", replaces |-> 0]

\* Mutant: a status the table does not know.
DraftedAsNew == [Absent EXCEPT !.status = "new"]

Drafted == [Absent EXCEPT !.status = "draft"]

Idle == [step |-> "idle", how |-> "none", items |-> <<>>, edits |-> 0, draft |-> 0]
Handler == [step : {"idle", "count", "validated", "rechecked"},
            how : {"none", "single", "batch"}, items : UNION {[1..n -> Queries] : n \in 0..(BatchMax + 1)},
            edits : 0..MaxId, draft : 0..MaxId]

TypeOK ==
  /\ row \in [Ids -> Row] /\ nextId \in 1..(MaxId + 1)
  /\ sub \in [Submitters -> Handler]
  /\ lock \in Submitters \cup {NoOne}
  /\ overtaken \subseteq Ids

Init ==
  /\ row = [i \in Ids |-> Absent] /\ nextId = 1
  /\ sub = [p \in Submitters |-> Idle]
  /\ lock = NoOne /\ overtaken = {}

OpenOf(except) == {i \in Ids : row[i].status \in Open /\ i # except}
Drafts         == {i \in Ids : row[i].status = "draft"}
Submitted(r)   == r.status \in Open \cup {"closed"}

\* Mutant: one more than the limit.
UnderOrAtLimit(except) == Cardinality(OpenOf(except)) <= MaxOpen

\* requesters.open_request_count and the duplicate guard; `except` is the
\* original an edit withdraws, 0 when there is none.
UnderLimit(except)   == Cardinality(OpenOf(except)) < MaxOpen
Duplicate(q, except) == \E i \in OpenOf(except) : row[i].query = q

(***************************************************************************)
(* The number of a tab.                                                    *)
(***************************************************************************)
\* The oldest half of the drafts, one at least; a draft's age is its id.
OldestHalf == {i \in Drafts : Cardinality({j \in Drafts : j < i}) < Max({1, DraftCap \div 2})}

\* reserve_request_id counts, and inserts in a later statement.
ReserveCount(p) ==
  /\ sub[p].step = "idle"
  /\ sub' = [sub EXCEPT ![p].step = "count", ![p].draft = IF Cardinality(Drafts) >= DraftCap THEN 1 ELSE 0]
  /\ UNCHANGED <<row, nextId, lock, overtaken>>

Reserve(p) ==
  /\ sub[p].step = "count" /\ nextId <= MaxId
  /\ row' = [i \in Ids |-> IF i = nextId THEN Drafted
                           ELSE IF sub[p].draft = 1 /\ i \in OldestHalf THEN Absent ELSE row[i]]
  /\ nextId' = nextId + 1
  /\ sub' = [sub EXCEPT ![p] = Idle]
  /\ UNCHANGED <<lock, overtaken>>

\* What the scheduler's sweep deletes: drafts up to an age.
Reaped(limit) == {i \in Drafts : i <= limit}

ReapDrafts ==
  \E limit \in Ids :
    /\ Reaped(limit) # {}
    /\ row' = [i \in Ids |-> IF i \in Reaped(limit) THEN Absent ELSE row[i]]
    /\ UNCHANGED <<nextId, sub, lock, overtaken>>

(***************************************************************************)
(* Validation, outside any transaction.                                    *)
(***************************************************************************)
\* One statement, perhaps the edit of one that is still pending, under the
\* number of a tab.  Here the original still counts.
Validate(p, q, edits, draft) ==
  /\ sub[p].step = "idle"
  /\ edits # 0 => row[edits].status = "pending" /\ row[edits].query # "none"
  /\ draft # 0 => row[draft].status = "draft"
  /\ UnderLimit(0) /\ ~Duplicate(q, 0)
  /\ sub' = [sub EXCEPT ![p] = [step |-> "validated", how |-> "single", items |-> <<q>>,
                                edits |-> edits, draft |-> draft]]
  /\ UNCHANGED <<row, nextId, lock, overtaken>>

\* The batch of the web page: every item is validated as if it were alone.
ValidateWebBatch(p, qs) ==
  /\ sub[p].step = "idle" /\ Len(qs) \in 1..BatchMax
  /\ UnderLimit(0) /\ \A k \in DOMAIN qs : ~Duplicate(qs[k], 0)
  /\ sub' = [sub EXCEPT ![p] = [Idle EXCEPT !.step = "validated", !.how = "batch", !.items = qs]]
  /\ UNCHANGED <<row, nextId, lock, overtaken>>

\* The batch of Slack counts its items.
ValidateSlackBatch(p, qs) ==
  /\ Cardinality(OpenOf(0)) + Len(qs) <= MaxOpen
  /\ ValidateWebBatch(p, qs)

(***************************************************************************)
(* create_request.                                                         *)
(***************************************************************************)
\* pg_advisory_xact_lock, held to the end of the transaction.
Lock(p) == lock = NoOne /\ lock' = p

\* Mutant: what validation read is trusted.
RecheckedNot(p) == TRUE

Rechecked(p) ==
  UnderLimit(sub[p].edits) /\ ~Duplicate(sub[p].items[1], sub[p].edits)

Recheck(p) ==
  /\ sub[p].step = "validated" /\ sub[p].how = "single"
  /\ Lock(p) /\ Rechecked(p)
  /\ sub' = [sub EXCEPT ![p].step = "rechecked"]
  /\ UNCHANGED <<row, nextId, overtaken>>

\* The transaction ends with nothing written; the draft stays.
RecheckRefused(p) ==
  /\ sub[p].step = "validated" /\ sub[p].how = "single"
  /\ lock = NoOne /\ ~Rechecked(p)
  /\ sub' = [sub EXCEPT ![p] = Idle]
  /\ UNCHANGED <<row, nextId, lock, overtaken>>

\* Mutant: the row is deleted by its number alone.
ClaimedByNumber(p) == sub[p].draft # 0

\* _claim_draft: the number is kept if its draft is still there.
Claimed(p) == sub[p].draft # 0 /\ row[sub[p].draft].status = "draft"

NewId(p) == IF Claimed(p) THEN sub[p].draft ELSE nextId

\* The original of an edit is withdrawn if it is still pending.
Withdrawn(p) == sub[p].edits # 0 /\ row[sub[p].edits].status = "pending"

Create(p) ==
  /\ sub[p].step = "rechecked" /\ NewId(p) <= MaxId
  /\ \E verdict \in {"pending", "decided"} :
       row' = [i \in Ids |->
                 IF i = NewId(p) THEN [status |-> verdict, query |-> sub[p].items[1], how |-> "single",
                                       replaces |-> sub[p].edits]
                 ELSE IF Withdrawn(p) /\ i = sub[p].edits THEN [row[i] EXCEPT !.status = "closed"]
                 ELSE row[i]]
  /\ nextId' = IF NewId(p) = nextId THEN nextId + 1 ELSE nextId
  /\ overtaken' = IF sub[p].edits # 0 /\ row[sub[p].edits].status = "decided"
                  THEN overtaken \cup {sub[p].edits} ELSE overtaken
  /\ lock' = NoOne
  /\ sub' = [sub EXCEPT ![p] = Idle]

\* insert_bundle_with_items: no lock, and no second look.
CreateBatch(p) ==
  LET n   == Len(sub[p].items)
      new == nextId..(nextId + n - 1)
  IN /\ sub[p].step = "validated" /\ sub[p].how = "batch" /\ nextId + n <= MaxId + 1
     /\ \E auto \in SUBSET new :
          row' = [i \in Ids |->
                    IF i \in new
                    THEN [status |-> IF i \in auto THEN "decided" ELSE "pending",
                          query |-> sub[p].items[i - nextId + 1], how |-> "batch", replaces |-> 0]
                    ELSE row[i]]
     /\ nextId' = nextId + n
     /\ sub' = [sub EXCEPT ![p] = Idle]
     /\ UNCHANGED <<lock, overtaken>>

(***************************************************************************)
(* What becomes of a request meanwhile.                                    *)
(***************************************************************************)
\* An approval, a request for changes; a rejection, a withdrawal, the expiry of
\* a pending request, the end of its run.
Proceed(i) ==
  /\ row[i].status \in Open
  /\ \E s \in {"decided", "closed"} \ {row[i].status} : row' = [row EXCEPT ![i].status = s]
  /\ UNCHANGED <<nextId, sub, lock, overtaken>>

Next ==
  \/ \E p \in Submitters :
       \/ ReserveCount(p)
       \/ Reserve(p)
       \/ \E q \in Queries, edits \in {0} \cup {i \in Ids : row[i].status = "pending"}, draft \in {0} \cup Drafts :
            Validate(p, q, edits, draft)
       \/ \E n \in 1..BatchMax : \E qs \in [1..n -> Queries] :
            ValidateWebBatch(p, qs) \/ ValidateSlackBatch(p, qs)
       \/ Recheck(p)
       \/ RecheckRefused(p)
       \/ Create(p)
       \/ CreateBatch(p)
  \/ ReapDrafts
  \/ \E i \in Ids : Proceed(i)

Spec == Init /\ [][Next]_vars

(***************************************************************************)
(* Properties.                                                             *)
(***************************************************************************)
Alone == {i \in Ids : row[i].how = "single" /\ row[i].status \in Open} \ overtaken

\* Submissions of one user that race each other and the decisions on the others
\* do not pass the limit together: of the requests submitted one by one no more
\* are open than allowed, but for originals that were decided while their edit
\* was being created (create_request, _recheck_open_limits).
OpenWithinLimit == Cardinality(Alone) <= MaxOpen

\* Nor do they create the same work twice (_recheck_open_limits).
NoDuplicateWork == \A i, j \in Alone : i # j => row[i].query # row[j].query

\* A submitted request is never deleted, nor its number given to another one,
\* while drafts are reaped and two tabs claim one number (_claim_draft).
SubmittedNotLost ==
  [][\A i \in Ids : Submitted(row[i])
       => Submitted(row'[i]) /\ row'[i].query = row[i].query /\ row'[i].replaces = row[i].replaces]_vars

\* No user has more open requests than the limit (validate_submission: "cap
\* in-flight requests (pending / approved / scheduled / executing) per Slack
\* user"), requests of a batch and edited ones included.
LimitHolds == Cardinality(OpenOf(0)) <= MaxOpen
=============================================================================
