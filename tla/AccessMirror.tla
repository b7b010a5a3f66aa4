----------------------------- MODULE AccessMirror -----------------------------
(***************************************************************************)
(* The mirror that keeps the nine-table access model beside the legacy     *)
(* tables: triggers recompute a team's membership, or one person's rows,   *)
(* inside the transaction that wrote the legacy row (migrations 109, 111   *)
(* and 148; its writers in routes_admin.py).                               *)
(*                                                                         *)
(* Transactions run at READ COMMITTED: each statement of a trigger sees    *)
(* what was committed when it began and its own transaction's writes, and  *)
(* waits for a row another transaction has written.                        *)
(*                                                                         *)
(* Abstracted: one team, whose members are moved one at a time from the    *)
(* People tab; one person with auto-approve rules for one key (target,     *)
(* database and tier), all of which have begun and not ended; the mirror   *)
(* is on and every person has a principal.  A change of the team recomputes*)
(* the rows of its member too, which changes nothing here.                 *)
(***************************************************************************)
EXTENDS Naturals

CONSTANTS
  Members,  \* who may belong to the team
  Rules,    \* the auto_approve_grants of the person
  Ends,     \* when a rule may end; the greatest stands for no end
  Txns,
  NoTxn

\* Assumed of the constants where the module is instantiated.
AccessMirrorAssumption ==
  /\ NoTxn \notin Txns /\ NoTxn \notin Members \cup Rules
  /\ Members \cap Rules = {} /\ 1 \in Ends /\ Ends \subseteq Nat \ {0}
  /\ \E noEnd \in Ends : \A e \in Ends : e <= noEnd

VARIABLES
  legacy,  \* team_members and auto_approve_grants
  member,  \* team_member, of the nine tables
  copy,    \* the mirrored access_grant; `by` holds the row of the principal
  txn      \* what each transaction does

vars == <<legacy, member, copy, txn>>

\* A row as committed, the transaction that has written it, and what it wrote.
\* A member that is there has value 1, an enabled rule its end.
Off == 0
Row == [val : Ends \cup {Off}, by : Txns \cup {NoTxn}, new : Ends \cup {Off}]

\* `what` is the legacy row to write and `want` its value, `left` what the
\* running statement has still to visit.  `alone` is history: no other
\* transaction has been open.
Idle == [step |-> "idle", what |-> NoTxn, want |-> Off, left |-> {}, alone |-> TRUE]
Txn  == [step : {"idle", "write", "delete", "drop", "insert", "add", "lock", "recompute", "commit"},
         what : Members \cup Rules \cup {NoTxn}, want : Ends \cup {Off},
         left : SUBSET Members, alone : BOOLEAN]

TypeOK ==
  /\ legacy \in [Members \cup Rules -> Row]
  /\ member \in [Members -> Row]
  /\ copy \in Row
  /\ txn \in [Txns -> Txn]

Empty == [val |-> Off, by |-> NoTxn, new |-> Off]

Init ==
  /\ legacy = [x \in Members \cup Rules |-> Empty]
  /\ member = [m \in Members |-> Empty]
  /\ copy = Empty
  /\ txn = [t \in Txns |-> Idle]

Open(t)      == txn[t].step # "idle"
Free(t, row) == row.by \in {NoTxn, t}
Seen(t, row) == IF row.by = t THEN row.new ELSE row.val

Wrote(t, row, v) == [row EXCEPT !.by = t, !.new = v]
Goes(t, step)    == txn' = [txn EXCEPT ![t].step = step]

(***************************************************************************)
(* The legacy row.                                                         *)
(***************************************************************************)
\* A handler reads the row and decides what to write.
Begin(t) ==
  /\ ~Open(t)
  /\ \E x \in Members \cup Rules : \E v \in IF x \in Members THEN {Off, 1} ELSE Ends \cup {Off} :
       /\ legacy[x].val # v
       /\ txn' = [u \in Txns |->
            IF u = t THEN [Idle EXCEPT !.step = "write", !.what = x, !.want = v,
                                       !.alone = \A w \in Txns : ~Open(w)]
            ELSE IF Open(u) THEN [txn[u] EXCEPT !.alone = FALSE] ELSE txn[u]]
  /\ UNCHANGED <<legacy, member, copy>>

\* Nothing is left to change when another transaction has changed it so.
Write(t) ==
  LET x == txn[t].what
  IN /\ txn[t].step = "write" /\ Free(t, legacy[x])
     /\ IF legacy[x].val = txn[t].want
        THEN txn' = [txn EXCEPT ![t] = Idle] /\ UNCHANGED legacy
        ELSE /\ legacy' = [legacy EXCEPT ![x] = Wrote(t, @, txn[t].want)]
             /\ Goes(t, IF x \in Members THEN "delete" ELSE "lock")
     /\ UNCHANGED <<member, copy>>

(***************************************************************************)
(* mirror_team.                                                            *)
(***************************************************************************)
\* Mutant: the trigger fires before the row is written.
ListedBefore(t) == {m \in Members : legacy[m].val # Off}

\* DELETE ... WHERE NOT EXISTS, INSERT ... SELECT: what a statement will visit.
Gone(t)   == {m \in Members : Seen(t, member[m]) # Off /\ Seen(t, legacy[m]) = Off}
Listed(t) == {m \in Members : Seen(t, legacy[m]) # Off}

Statement(t, from, to, rows) ==
  /\ txn[t].step = from
  /\ txn' = [txn EXCEPT ![t].step = to, ![t].left = rows]
  /\ UNCHANGED <<legacy, member, copy>>

Delete(t) == Statement(t, "delete", "drop", Gone(t))
Insert(t) == txn[t].left = {} /\ Statement(t, "drop", "add", Listed(t))

\* The next row of the statement; one that another transaction has written it
\* waits for.  ON CONFLICT DO NOTHING leaves a row that is there alone.
Visit(t, m, step, v) ==
  /\ txn[t].step = step /\ m \in txn[t].left /\ Free(t, member[m])
  /\ member' = IF Seen(t, member[m]) = v THEN member ELSE [member EXCEPT ![m] = Wrote(t, @, v)]
  /\ txn' = [txn EXCEPT ![t].left = @ \ {m}]
  /\ UNCHANGED <<legacy, copy>>

Mirrored(t) ==
  /\ txn[t].step = "add" /\ txn[t].left = {}
  /\ Goes(t, "commit")
  /\ UNCHANGED <<legacy, member, copy>>

(***************************************************************************)
(* mirror_principal.                                                       *)
(***************************************************************************)
\* Mutant: the row of the principal is not written first.
PrincipalFreeAlways(t) == TRUE

PrincipalFree(t) == Free(t, copy)

\* UPDATE principal, whose row serves as the lock.
LockPrincipal(t) ==
  /\ txn[t].step = "lock" /\ PrincipalFree(t)
  /\ copy' = Wrote(t, copy, copy.val)
  /\ Goes(t, "recompute")
  /\ UNCHANGED <<legacy, member>>

\* DISTINCT ON ... ORDER BY valid_until DESC NULLS FIRST; Off without a source.
Latest(dates) == CHOOSE d \in dates \cup {Off} : \A e \in dates : e <= d

Recompute(t) ==
  /\ txn[t].step = "recompute"
  /\ copy' = Wrote(t, copy, Latest({Seen(t, legacy[r]) : r \in Rules}))
  /\ Goes(t, "commit")
  /\ UNCHANGED <<legacy, member>>

(***************************************************************************)
(* The end of a transaction.                                               *)
(***************************************************************************)
Kept(t, row)   == IF row.by = t THEN [val |-> row.new, by |-> NoTxn, new |-> Off] ELSE row
Undone(t, row) == IF row.by = t THEN [row EXCEPT !.by = NoTxn, !.new = Off] ELSE row

\* A row that is deleted leaves a DELETE that had still to visit it.
Commit(t) ==
  LET deleted == {m \in Members : member[m].by = t}
  IN /\ txn[t].step = "commit"
     /\ legacy' = [x \in DOMAIN legacy |-> Kept(t, legacy[x])]
     /\ member' = [m \in Members |-> Kept(t, member[m])]
     /\ copy' = Kept(t, copy)
     /\ txn' = [u \in Txns |-> IF u = t THEN Idle
                               ELSE IF txn[u].step = "drop" THEN [txn[u] EXCEPT !.left = @ \ deleted]
                               ELSE txn[u]]

\* An error, a deadlock or the death of the process.
Rollback(t) ==
  /\ Open(t)
  /\ legacy' = [x \in DOMAIN legacy |-> Undone(t, legacy[x])]
  /\ member' = [m \in Members |-> Undone(t, member[m])]
  /\ copy' = Undone(t, copy)
  /\ txn' = [txn EXCEPT ![t] = Idle]

Next ==
  \E t \in Txns :
    \/ Begin(t)
    \/ Write(t)
    \/ Delete(t)
    \/ Insert(t)
    \/ \E m \in Members : Visit(t, m, "drop", Off) \/ Visit(t, m, "add", 1)
    \/ Mirrored(t)
    \/ LockPrincipal(t)
    \/ Recompute(t)
    \/ Commit(t)
    \/ Rollback(t)

Spec == Init /\ [][Next]_vars

(***************************************************************************)
(* Properties.                                                             *)
(***************************************************************************)
\* However many admins change the rules of one person at once, the copy ends
\* when the last enabled rule does (mirror_principal recomputes under the row of
\* the principal, which it writes first).
PersonInSync == copy.val = Latest({legacy[r].val : r \in Rules})

\* A transaction that no other has overlapped leaves the team in step, whatever
\* had gone wrong before (migration 109: "a missed edge case shows up as a row
\* that gets corrected on the next write").
TeamHeals ==
  [][\A t \in Txns :
       txn[t].step = "commit" /\ txn[t].what \in Members /\ txn[t].alone
       /\ legacy'[txn[t].what].val # legacy[txn[t].what].val
         => \A m \in Members : member'[m].val = legacy'[m].val]_vars

\* When no transaction is open the two models agree on the members of the team
\* (docs/SCHEMA.md: "A mirror keeps the two models in sync").
TeamInSync ==
  (\A t \in Txns : ~Open(t)) => \A m \in Members : member[m].val = legacy[m].val
=============================================================================
