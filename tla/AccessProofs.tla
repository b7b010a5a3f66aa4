----------------------------- MODULE AccessProofs -----------------------------
(***************************************************************************)
(* Theorems about AccessGrants and AccessMirror, for any people, targets,  *)
(* deciders, rules and transactions, and about their composition.          *)
(*                                                                         *)
(* AccessGrants: a decision in several statements is as good as one made   *)
(* at once.  What a decision has read is what it finds when it commits:    *)
(* the row of the requester keeps other decisions and the admin's grants   *)
(* out, the row of the grant, where there is one, everything else.         *)
(*                                                                         *)
(* AccessMirror: who recomputes the copy of a person's rules has written   *)
(* the row of the principal, so what he has seen is what is committed when *)
(* he commits; a team is brought into step by whoever changes it alone.    *)
(***************************************************************************)
EXTENDS MCAccess, TLAPS, WellFoundedInduction

(***************************************************************************)
(* AccessGrants: the inductive invariant.                                  *)
(***************************************************************************)
\* An open decision is about a pending request and gives an end that is to come;
\* what it has read of the grant still stands.
TxnInv(d) ==
  txn[d] # NoTxn =>
    /\ ask[txn[d].req].status = "pending"
    /\ txn[d].end > now
    /\ txn[d].step = "read" =>
         /\ KeyOf(txn[d].req)[2] \in Targets \ ControlPlane
         /\ txn[d].seen = grant[KeyOf(txn[d].req)]

\* Two decisions are about two requests, and only one decision about a person has
\* come past the row of the requester.
TwoInv(d, e) ==
  d # e /\ txn[d] # NoTxn /\ txn[e] # NoTxn =>
    /\ txn[d].req # txn[e].req
    /\ txn[d].step = "read" /\ txn[e].step = "read" => ask[txn[d].req].user # ask[txn[e].req].user

\* A warning is recorded after its DM.
ToldInv == notices \subseteq told /\ (warning # NoWarning => warning \in told)

IInv ==
  /\ TypeOK
  /\ \A d \in Deciders : TxnInv(d)
  /\ \A d, e \in Deciders : TwoInv(d, e)
  /\ ToldInv

(***************************************************************************)
(* Lemmas about the operators.                                             *)
(***************************************************************************)
LEMMA BlankAsk ==
  ASSUME NEW u \in Users, NEW t \in Targets \cup {NoTarget}, NEW s \in Status
  PROVE  /\ [Blank(u, t) EXCEPT !.status = s] \in Ask
         /\ [Blank(u, t) EXCEPT !.status = s].status = s
         /\ Blank(u, t) \in Ask /\ Blank(u, t).status = "absent"
<1>1. PICK x \in Tiers : x = CHOOSE y \in Tiers : TRUE
  BY AccessAssumption
<1>2. Blank(u, t) = [status |-> "absent", user |-> u, target |-> t, tier |-> x, scope |-> {}, query |-> NoQuery]
  BY <1>1 DEF Blank
<1>3. QED
  BY <1>1, <1>2 DEF Ask, Status

LEMMA ClosedAsk ==
  ASSUME TypeOK, NEW r \in Requests, NEW s \in Status, ask' = Closed(r, s)
  PROVE  /\ ask' \in [Requests -> Ask] /\ ask'[r].status = s
         /\ \A q \in Requests \ {r} : ask'[q] = ask[q]
         /\ ask' = [ask EXCEPT ![r] = ask'[r]]
<1>1. ask[r].user \in Users /\ ask[r].target \in Targets \cup {NoTarget} /\ ask \in [Requests -> Ask]
  BY DEF TypeOK, Ask
<1>2. PICK new \in Ask : new.status = s /\ new = [Blank(ask[r].user, ask[r].target) EXCEPT !.status = s]
  <2> DEFINE new == [Blank(ask[r].user, ask[r].target) EXCEPT !.status = s]
  <2>1. new \in Ask /\ new.status = s
    BY <1>1, BlankAsk
  <2> HIDE DEF new
  <2>2. QED
    BY <2>1 DEF new
<1>3. ask' = [ask EXCEPT ![r] = new]
  BY <1>2 DEF Closed
<1>4. QED
  BY <1>1, <1>2, <1>3

LEMMA KeyIsKey ==
  ASSUME TypeOK, NEW r \in Requests
  PROVE  /\ KeyOf(r)[1] = ask[r].user /\ KeyOf(r)[2] = ask[r].target /\ ask[r].user \in Users
         /\ KeyOf(r)[2] \in Targets => KeyOf(r) \in Keys
  BY DEF TypeOK, Ask, KeyOf, Keys

\* What an open decision relies on stays, or the decision ends.
LEMMA Undisturbed ==
  ASSUME IInv, TypeOK', now' = now,
         \A d \in Deciders : txn'[d] = txn[d] \/ txn'[d] = NoTxn,
         \A d \in Deciders : txn[d] # NoTxn /\ txn'[d] = txn[d] =>
           /\ ask'[txn[d].req] = ask[txn[d].req]
           /\ txn[d].step = "read" => grant'[KeyOf(txn[d].req)] = grant[KeyOf(txn[d].req)]
  PROVE  (\A d \in Deciders : TxnInv(d)') /\ (\A d, e \in Deciders : TwoInv(d, e)')
<1>1. ASSUME NEW d \in Deciders, txn'[d] # NoTxn
      PROVE  /\ txn'[d] = txn[d] /\ ask'[txn'[d].req] = ask[txn[d].req] /\ KeyOf(txn[d].req)' = KeyOf(txn[d].req)
             /\ txn[d].step = "read" => grant'[KeyOf(txn[d].req)] = grant[KeyOf(txn[d].req)]
  <2>1. txn'[d] = txn[d] /\ txn[d] # NoTxn
    BY <1>1
  <2>2. ask'[txn'[d].req] = ask[txn[d].req]
    BY <2>1
  <2>3. QED
    BY <2>1, <2>2 DEF KeyOf
<1>2. ASSUME NEW d \in Deciders PROVE TxnInv(d)'
  <2> SUFFICES ASSUME txn'[d] # NoTxn PROVE TxnInv(d)'
    BY DEF TxnInv
  <2>1. PICK t : t = txn[d] /\ t = txn'[d]
    BY <1>1
  <2>2. TxnInv(d)
    BY DEF IInv
  <2>3. ask'[t.req] = ask[t.req] /\ KeyOf(t.req)' = KeyOf(t.req)
    BY <1>1, <2>1 DEF KeyOf
  <2>4. t.step = "read" => grant'[KeyOf(t.req)] = grant[KeyOf(t.req)]
    BY <1>1, <2>1
  <2>5. /\ ask[t.req].status = "pending" /\ t.end > now
        /\ t.step = "read" => KeyOf(t.req)[2] \in Targets \ ControlPlane /\ t.seen = grant[KeyOf(t.req)]
    BY <2>1, <2>2 DEF TxnInv
  <2>6. /\ ask'[t.req].status = "pending" /\ t.end > now'
        /\ t.step = "read" => KeyOf(t.req)'[2] \in Targets \ ControlPlane /\ t.seen = grant'[KeyOf(t.req)']
    BY <2>3, <2>4, <2>5
  <2>7. QED
    BY <2>1, <2>3, <2>6 DEF TxnInv, KeyOf
<1>3. \A d, e \in Deciders : TwoInv(d, e)'
  BY <1>1 DEF IInv, TwoInv
<1>4. QED
  BY <1>2, <1>3

\* What a person may use at one target.
At(k) ==
  IF Active(grant[k])
  THEN [tier |-> grant[k].tier, scope |-> grant[k].scope, end |-> grant[k].end]
  ELSE NoGrant

LEMMA AccessIsAt == AccessNow = [k \in Keys |-> At(k)]
  BY DEF AccessNow, At

LEMMA AccessKept ==
  ASSUME UNCHANGED <<grant, now>>
  PROVE  AccessNow' = AccessNow
  BY DEF AccessNow, Active

\* The access to one target changes with its grant.
LEMMA AccessChange ==
  ASSUME NEW k \in Keys, now' = now, \A j \in Keys \ {k} : grant'[j] = grant[j]
  PROVE  /\ AccessNow' = [AccessNow EXCEPT ![k] = AccessNow'[k]]
         /\ AccessNow[k] = At(k) /\ AccessNow'[k] = At(k)'
<1>1. AccessNow' = [j \in Keys |-> At(j)']
  BY DEF AccessNow, At
<1>2. \A j \in Keys \ {k} : At(j)' = At(j)
  BY DEF At, Active
<1>3. QED
  BY <1>1, <1>2, AccessIsAt

\* One grant changes that no open decision has read.
LEMMA GrantChanges ==
  ASSUME IInv, NEW k \in Keys, NEW new \in Grant, grant' = [grant EXCEPT ![k] = new],
         \A d \in Deciders : txn[d] # NoTxn /\ txn[d].step = "read" => KeyOf(txn[d].req) # k,
         UNCHANGED <<ask, txn, now, lastUse, told, notices, warning>>,
         enabled' \subseteq Users, reaping' \subseteq Keys, adminActs' \in 0..MaxAdminActs
  PROVE  /\ IInv' /\ grant'[k] = new
         /\ AccessNow' = [AccessNow EXCEPT ![k] = AccessNow'[k]]
         /\ AccessNow[k] = At(k) /\ AccessNow'[k] = At(k)'
<1>1. /\ grant' \in [Keys -> Grant \cup {NoGrant}] /\ grant'[k] = new
      /\ \A j \in Keys \ {k} : grant'[j] = grant[j]
  BY DEF IInv, TypeOK
<1>2. TypeOK'
  BY <1>1 DEF IInv, TypeOK
<1>3. ASSUME NEW d \in Deciders, txn[d] # NoTxn, txn[d].step = "read"
      PROVE  grant'[KeyOf(txn[d].req)] = grant[KeyOf(txn[d].req)]
  <2>1. txn[d].req \in Requests /\ KeyOf(txn[d].req)[2] \in Targets
    BY <1>3 DEF IInv, TypeOK, Txn, TxnInv
  <2>2. KeyOf(txn[d].req) \in Keys \ {k}
    BY <1>3, <2>1, KeyIsKey DEF IInv
  <2>3. QED
    BY <1>1, <2>2
<1>4. (\A d \in Deciders : TxnInv(d)') /\ (\A d, e \in Deciders : TwoInv(d, e)')
  BY <1>2, <1>3, Undisturbed
<1>5. IInv'
  BY <1>2, <1>4 DEF IInv, ToldInv
<1>6. QED
  BY <1>1, <1>5, AccessChange

\* A grant with no end that is live, and with one that is not.
LEMMA AtGrant ==
  ASSUME TypeOK, NEW k \in Keys
  PROVE  /\ Active(grant[k]) <=> At(k) # NoGrant
         /\ Active(grant[k]) => /\ At(k) \in Promise!Access /\ At(k).tier = grant[k].tier
                                /\ At(k).scope = grant[k].scope /\ At(k).end = grant[k].end
<1>1. grant[k] # NoGrant => grant[k] \in Grant
  BY DEF TypeOK
<1>2. CASE Active(grant[k])
  <2>1. grant[k] \in Grant
    BY <1>1, <1>2 DEF Active
  <2>2. At(k) = [tier |-> grant[k].tier, scope |-> grant[k].scope, end |-> grant[k].end]
    BY <1>2 DEF At
  <2>3. At(k) \in [tier: Tiers, scope: SUBSET Databases, end: Nat]
    BY <2>1, <2>2 DEF Grant
  <2>4. QED
    BY <1>2, <2>2, <2>3, AccessAssumption DEF Promise!Access
<1>3. CASE ~Active(grant[k])
  BY <1>3 DEF At
<1>4. QED
  BY <1>2, <1>3

LEMMA InitInv == Init => IInv
<1> SUFFICES ASSUME Init PROVE IInv
  OBVIOUS
<1>1. ask \in [Requests -> Ask]
  <2>1. PICK u \in Users, t \in ControlPlane \cup {NoTarget}, s \in SUBSET Requests :
          ask = [r \in Requests |->
                   [Blank(u, t) EXCEPT !.status = IF r \in s THEN "pending" ELSE "absent"]]
    BY DEF Init
  <2>2. t \in Targets \cup {NoTarget}
    BY AccessAssumption
  <2>3. ASSUME NEW r \in Requests
        PROVE  [Blank(u, t) EXCEPT !.status = IF r \in s THEN "pending" ELSE "absent"] \in Ask
    <3>1. PICK v \in Status : v = IF r \in s THEN "pending" ELSE "absent"
      BY DEF Status
    <3>2. [Blank(u, t) EXCEPT !.status = v] \in Ask
      BY <2>2, BlankAsk
    <3>3. QED
      BY <3>1, <3>2
  <2>4. QED
    BY <2>1, <2>3
<1>2. TypeOK
  BY <1>1, AccessAssumption DEF Init, TypeOK
<1>3. QED
  BY <1>2 DEF Init, IInv, TxnInv, TwoInv, ToldInv

LEMMA CreateInv ==
  ASSUME IInv, NEW r \in Requests, NEW u \in Users, NEW t \in Targets \cup {NoTarget}, NEW tier \in Tiers,
         NEW s \in Scopes, NEW q \in Queries, Create(r, u, t, tier, s, q)
  PROVE  IInv' /\ Promise!File(r) /\ AccessNow' = AccessNow
<1> USE DEF sweepVars, boundVars
<1> DEFINE new == [status |-> "pending", user |-> u, target |-> t, tier |-> tier, scope |-> s, query |-> q]
<1>1. ask' = [ask EXCEPT ![r] = new] /\ new \in Ask /\ new.status = "pending" /\ ask[r].status = "absent"
      /\ UNCHANGED <<enabled, grant, lastUse, txn, reaping, sweepVars, boundVars>>
  BY DEF Create, Ask, Status
<1> HIDE DEF new
<1>2. /\ ask' \in [Requests -> Ask] /\ ask'[r] = new /\ \A x \in Requests \ {r} : ask'[x] = ask[x]
      /\ ask' = [ask EXCEPT ![r] = ask'[r]]
  BY <1>1 DEF IInv, TypeOK
<1>3. TypeOK'
  BY <1>1, <1>2 DEF IInv, TypeOK
<1>4. ASSUME NEW d \in Deciders, txn[d] # NoTxn PROVE ask'[txn[d].req] = ask[txn[d].req]
  BY <1>1, <1>2, <1>4 DEF IInv, TypeOK, Txn, TxnInv
<1>5. (\A d \in Deciders : TxnInv(d)') /\ (\A d, e \in Deciders : TwoInv(d, e)')
  BY <1>1, <1>3, <1>4, Undisturbed
<1>6. IInv'
  BY <1>1, <1>3, <1>5 DEF IInv, ToldInv
<1>7. AccessNow' = AccessNow
  BY <1>1 DEF AccessNow, Active
<1>8. Promise!File(r)
  BY <1>1, <1>2, <1>7 DEF Promise!File, Promise!Becomes
<1>9. QED
  BY <1>6, <1>7, <1>8

\* A request is closed without a grant.
LEMMA CloseInv ==
  ASSUME IInv, NEW r \in Requests, NEW s \in {"rejected", "withdrawn"}, ask[r].status = "pending",
         RequestFree(r), ask' = Closed(r, s),
         UNCHANGED <<enabled, grant, lastUse, txn, reaping, sweepVars, boundVars>>
  PROVE  IInv' /\ Promise!Close(r)
<1> USE DEF sweepVars, boundVars
<1>1. /\ ask' \in [Requests -> Ask] /\ ask'[r].status = s
      /\ \A q \in Requests \ {r} : ask'[q] = ask[q]
      /\ ask' = [ask EXCEPT ![r] = ask'[r]]
  BY ClosedAsk DEF IInv, Status
<1>2. TypeOK'
  BY <1>1 DEF IInv, TypeOK
<1>3. ASSUME NEW d \in Deciders, txn[d] # NoTxn PROVE ask'[txn[d].req] = ask[txn[d].req]
  <2>1. txn[d].req \in Requests \ {r}
    BY <1>3 DEF IInv, TypeOK, Txn, RequestFree, HoldsRequest
  <2>2. QED
    BY <1>1, <2>1
<1>4. (\A d \in Deciders : TxnInv(d)') /\ (\A d, e \in Deciders : TwoInv(d, e)')
  BY <1>2, <1>3, Undisturbed
<1>5. IInv'
  BY <1>2, <1>4 DEF IInv, ToldInv
<1>6. AccessNow' = AccessNow
  BY AccessKept
<1>7. QED
  BY <1>1, <1>5, <1>6 DEF Promise!Close, Promise!Becomes

LEMMA EndsAhead ==
  ASSUME TypeOK, NEW end \in Ends
  PROVE  now \in Nat /\ end \in Nat /\ end > now
<1>1. now \in Nat /\ now <= MaxTime /\ MaxTime \in Nat
  BY AccessAssumption DEF TypeOK
<1>2. QED
  BY <1>1, AccessAssumption DEF Ends

LEMMA BeginApprovalInv ==
  ASSUME IInv, NEW d \in Deciders, NEW r \in Requests, NEW end \in Ends, BeginApproval(d, r, end)
  PROVE  IInv' /\ UNCHANGED <<ask, AccessNow>>
<1> USE DEF sweepVars, boundVars
<1>1. now \in Nat /\ end \in Nat /\ end > now
  BY EndsAhead DEF IInv
<1> DEFINE new == [req |-> r, end |-> end, step |-> "claimed", seen |-> NoGrant]
<1>2. /\ txn' = [txn EXCEPT ![d] = new] /\ new \in Txn /\ new.req = r /\ new.end = end /\ new.step = "claimed"
      /\ ask[r].status = "pending" /\ RequestFree(r)
      /\ UNCHANGED <<ask, enabled, grant, lastUse, reaping, sweepVars, boundVars>>
  BY <1>1 DEF BeginApproval, Txn
<1> HIDE DEF new
<1>3. \A e \in Deciders : txn'[e] = IF e = d THEN new ELSE txn[e]
  BY <1>2 DEF IInv, TypeOK
<1>4. TypeOK'
  BY <1>2 DEF IInv, TypeOK
<1>5. ASSUME NEW e \in Deciders PROVE TxnInv(e)'
  <2>1. CASE e = d
    BY <1>1, <1>2, <1>3, <2>1 DEF TxnInv
  <2>2. CASE e # d
    BY <1>2, <1>3, <2>2 DEF IInv, TxnInv, KeyOf
  <2>3. QED
    BY <2>1, <2>2
<1>6. \A e, f \in Deciders : TwoInv(e, f)'
  BY <1>2, <1>3 DEF IInv, TwoInv, RequestFree, HoldsRequest
<1>7. QED
  BY <1>2, <1>4, <1>5, <1>6, AccessKept DEF IInv, ToldInv

LEMMA WhitelistAndReadInv ==
  ASSUME IInv, NEW d \in Deciders, WhitelistAndRead(d)
  PROVE  IInv' /\ UNCHANGED <<ask, AccessNow>>
<1> USE DEF sweepVars, boundVars
<1>1. txn[d] # NoTxn /\ txn[d] \in Txn /\ txn[d].req \in Requests
  BY DEF WhitelistAndRead, IInv, TypeOK, Txn
<1>2. PICK k \in Keys : k = KeyOf(txn[d].req)
  <2>1. KeyOf(txn[d].req)[2] \in Targets
    BY DEF WhitelistAndRead
  <2>2. QED
    BY <1>1, <2>1, KeyIsKey DEF IInv
<1>3. PICK g \in Grant \cup {NoGrant} : g = grant[k]
  BY DEF IInv, TypeOK
<1>4. PICK new \in Txn : /\ new = [txn[d] EXCEPT !.step = "read", !.seen = g]
                         /\ new.req = txn[d].req /\ new.end = txn[d].end
                         /\ new.step = "read" /\ new.seen = g
  <2>1. [txn[d] EXCEPT !.step = "read", !.seen = g] \in Txn
    BY <1>1 DEF Txn
  <2>2. QED
    BY <1>1, <2>1 DEF Txn
<1>5. /\ k[2] \in Targets \ ControlPlane /\ RequesterFree(k[1])
      /\ txn' = [txn EXCEPT ![d] = new]
      /\ UNCHANGED <<ask, enabled, grant, lastUse, reaping, sweepVars, boundVars>>
  BY <1>2, <1>3, <1>4 DEF WhitelistAndRead, IInv, TypeOK
<1>6. \A e \in Deciders : txn'[e] = IF e = d THEN new ELSE txn[e]
  BY <1>5 DEF IInv, TypeOK
<1>7. TypeOK'
  BY <1>4, <1>5 DEF IInv, TypeOK
<1>8. ASSUME NEW e \in Deciders PROVE TxnInv(e)'
  <2>1. CASE e = d
    <3>1. ask[txn[d].req].status = "pending" /\ txn[d].end > now
      BY <1>1 DEF IInv, TxnInv
    <3>2. <<ask[new.req].user, ask[new.req].target>> = k
      BY <1>2, <1>4 DEF KeyOf
    <3>3. QED
      BY <1>3, <1>4, <1>5, <1>6, <2>1, <3>1, <3>2 DEF TxnInv, KeyOf
  <2>2. CASE e # d
    BY <1>5, <1>6, <2>2 DEF IInv, TxnInv, KeyOf
  <2>3. QED
    BY <2>1, <2>2
<1>9. \A e \in Deciders \ {d} : txn[e] # NoTxn /\ txn[e].step = "read" => ask[txn[e].req].user # ask[txn[d].req].user
  BY <1>1, <1>2, <1>5, KeyIsKey DEF IInv, RequesterFree, HoldsRequester
<1>10. \A e, f \in Deciders : TwoInv(e, f)'
  BY <1>1, <1>4, <1>5, <1>6, <1>9 DEF IInv, TwoInv
<1>11. QED
  BY <1>5, <1>7, <1>8, <1>10, AccessKept DEF IInv, ToldInv

\* A decision comes to its end, with its request approved and what it has granted.
LEMMA Decided ==
  ASSUME IInv, NEW d \in Deciders, txn[d] # NoTxn, Approved(d),
         grant' \in [Keys -> Grant \cup {NoGrant}], enabled' \subseteq Users,
         \A e \in Deciders \ {d} : txn[e] # NoTxn /\ txn[e].step = "read" =>
           grant'[KeyOf(txn[e].req)] = grant[KeyOf(txn[e].req)],
         UNCHANGED <<lastUse, reaping, sweepVars, boundVars>>
  PROVE  /\ IInv' /\ txn[d].req \in Requests /\ ask[txn[d].req].status = "pending"
         /\ ask' = [ask EXCEPT ![txn[d].req] = ask'[txn[d].req]] /\ ask'[txn[d].req].status = "approved"
<1> USE DEF sweepVars, boundVars
<1>1. PICK r \in Requests : r = txn[d].req
  BY DEF IInv, TypeOK, Txn
<1>2. ask[r].status = "pending" /\ ask' = Closed(r, "approved") /\ txn' = [txn EXCEPT ![d] = NoTxn]
  BY <1>1 DEF Approved, IInv, TxnInv
<1>3. /\ ask' \in [Requests -> Ask] /\ ask'[r].status = "approved"
      /\ \A q \in Requests \ {r} : ask'[q] = ask[q]
      /\ ask' = [ask EXCEPT ![r] = ask'[r]]
  BY <1>2, ClosedAsk DEF IInv, Status
<1>4. \A e \in Deciders : txn'[e] = IF e = d THEN NoTxn ELSE txn[e]
  BY <1>2 DEF IInv, TypeOK
<1>5. TypeOK'
  BY <1>2, <1>3 DEF IInv, TypeOK
<1>6. ASSUME NEW e \in Deciders, txn[e] # NoTxn, txn'[e] = txn[e]
      PROVE  e # d /\ ask'[txn[e].req] = ask[txn[e].req]
  <2>1. e # d
    BY <1>4, <1>6
  <2>2. txn[e].req \in Requests \ {r}
    BY <1>1, <1>6, <2>1 DEF IInv, TypeOK, Txn, TwoInv
  <2>3. QED
    BY <1>3, <2>1, <2>2
<1>7. (\A e \in Deciders : TxnInv(e)') /\ (\A e, f \in Deciders : TwoInv(e, f)')
  BY <1>4, <1>5, <1>6, Undisturbed
<1>8. IInv'
  BY <1>5, <1>7 DEF IInv, ToldInv
<1>9. QED
  BY <1>1, <1>2, <1>3, <1>8

LEMMA ApproveWithoutGrantInv ==
  ASSUME IInv, NEW d \in Deciders, ApproveWithoutGrant(d)
  PROVE  IInv' /\ \E r \in Requests : Promise!Approve(r)
<1>1. /\ txn[d] # NoTxn /\ Approved(d) /\ ask[txn[d].req].target \in ControlPlane \cup {NoTarget}
      /\ UNCHANGED <<enabled, grant, lastUse, reaping, sweepVars, boundVars>>
  BY DEF ApproveWithoutGrant
<1>2. grant \in [Keys -> Grant \cup {NoGrant}] /\ enabled \subseteq Users
  BY DEF IInv, TypeOK
<1>3. /\ IInv' /\ txn[d].req \in Requests /\ ask[txn[d].req].status = "pending"
      /\ ask' = [ask EXCEPT ![txn[d].req] = ask'[txn[d].req]] /\ ask'[txn[d].req].status = "approved"
  BY <1>1, <1>2, Decided
<1>4. AccessNow' = AccessNow
  BY <1>1, AccessKept DEF boundVars
<1>5. Promise!Approve(txn[d].req)
  BY <1>1, <1>3, <1>4 DEF Promise!Approve, Promise!Becomes
<1>6. QED
  BY <1>3, <1>5

\* What has been read still stands: the grant is what an approval at once would give.
LEMMA CommitApprovalInv ==
  ASSUME IInv, NEW d \in Deciders, CommitApproval(d)
  PROVE  IInv' /\ \E r \in Requests : Promise!Approve(r)
<1> USE DEF sweepVars, boundVars
<1>1. /\ txn[d] # NoTxn /\ txn[d].step = "read" /\ Approved(d)
      /\ enabled' = enabled \cup {ask[txn[d].req].user}
      /\ UNCHANGED <<lastUse, reaping, sweepVars, boundVars>>
  BY DEF CommitApproval
<1>2. PICK r \in Requests : r = txn[d].req
  BY <1>1 DEF IInv, TypeOK, Txn
<1>3. PICK q \in Ask : q = ask[r]
  BY DEF IInv, TypeOK
<1>4. PICK k \in Keys : k = KeyOf(r) /\ k = <<q.user, q.target>>
  <2>1. KeyOf(r)[2] \in Targets
    BY <1>1, <1>2 DEF IInv, TxnInv
  <2>2. KeyOf(r) \in Keys /\ KeyOf(r) = <<q.user, q.target>>
    BY <1>3, <2>1, KeyIsKey DEF IInv, KeyOf
  <2>3. QED
    BY <2>2
<1>5. /\ q.target \in Targets \ ControlPlane /\ txn[d].seen = grant[k]
      /\ txn[d].end > now /\ txn[d].end \in Nat /\ now \in Nat
  <2>1. txn[d] \in Txn /\ now \in Nat
    BY <1>1, AccessAssumption DEF IInv, TypeOK
  <2>2. txn[d].end \in Nat
    BY <2>1 DEF Txn
  <2>3. TxnInv(d)
    BY DEF IInv
  <2>4. /\ txn[d].end > now /\ KeyOf(r)[2] \in Targets \ ControlPlane
        /\ txn[d].seen = grant[KeyOf(r)]
    BY <1>1, <1>2, <2>3 DEF TxnInv
  <2>5. KeyOf(r)[2] = q.target
    BY <1>4
  <2>6. QED
    BY <1>4, <2>1, <2>2, <2>4, <2>5
<1>6. PICK g \in Grant \cup {NoGrant} : g = grant[k] /\ g = txn[d].seen
  BY <1>5 DEF IInv, TypeOK
<1>7. q.scope \in SUBSET Databases /\ q.tier \in Tiers /\ q.user \in Users
  BY AccessAssumption DEF Ask
<1>8. Active(g) => g \in Grant
  BY DEF Active
<1>9. PICK new \in Grant :
        /\ new.tier = q.tier /\ new.revoked = FALSE
        /\ new.scope = IF Active(g) THEN g.scope \cup q.scope ELSE q.scope
        /\ new.end = IF Active(g) THEN g.end ELSE txn[d].end
        /\ new = Granted(d)
  <2> DEFINE new == [tier |-> q.tier, since |-> now, revoked |-> FALSE,
                     scope |-> IF Active(g) THEN g.scope \cup q.scope ELSE q.scope,
                     end   |-> IF Active(g) THEN g.end ELSE txn[d].end]
  <2>1. new = Granted(d)
    BY <1>2, <1>3, <1>6 DEF Granted
  <2>2. new.scope \in SUBSET Databases /\ new.end \in Nat
    BY <1>5, <1>7, <1>8 DEF Grant
  <2>3. new \in Grant
    BY <1>5, <1>7, <2>2 DEF Grant
  <2>4. QED
    BY <2>1, <2>3
<1>10. grant' = IF Active(g) /\ g.tier # q.tier THEN grant ELSE [grant EXCEPT ![k] = new]
  BY <1>2, <1>3, <1>4, <1>6, <1>9 DEF CommitApproval
<1>11. grant' \in [Keys -> Grant \cup {NoGrant}] /\ \A j \in Keys \ {k} : grant'[j] = grant[j]
  BY <1>10 DEF IInv, TypeOK
<1>12. ASSUME NEW e \in Deciders \ {d}, txn[e] # NoTxn, txn[e].step = "read"
       PROVE  grant'[KeyOf(txn[e].req)] = grant[KeyOf(txn[e].req)]
  <2>1. txn[e].req \in Requests /\ KeyOf(txn[e].req)[2] \in Targets
    BY <1>12 DEF IInv, TypeOK, Txn, TxnInv
  <2>2. ask[txn[e].req].user # q.user
    BY <1>1, <1>2, <1>3, <1>12 DEF IInv, TwoInv
  <2>3. KeyOf(txn[e].req) \in Keys /\ KeyOf(txn[e].req)[1] # k[1]
    BY <1>4, <2>1, <2>2, KeyIsKey DEF IInv
  <2>4. QED
    BY <1>11, <2>3
<1>13. enabled' \subseteq Users
  BY <1>1, <1>2, <1>3, <1>7 DEF IInv, TypeOK
<1>14. /\ IInv' /\ ask[r].status = "pending"
       /\ ask' = [ask EXCEPT ![r] = ask'[r]] /\ ask'[r].status = "approved"
  BY <1>1, <1>2, <1>11, <1>12, <1>13, Decided
<1>15. /\ AccessNow' = [AccessNow EXCEPT ![k] = AccessNow'[k]]
       /\ AccessNow[k] = At(k) /\ AccessNow'[k] = At(k)'
  BY <1>1, <1>11, AccessChange
<1>16. CASE Active(g) /\ g.tier # q.tier
  <2>1. AccessNow' = AccessNow
    BY <1>1, <1>10, <1>16, AccessKept
  <2>2. At(k) # NoGrant /\ At(k).tier # q.tier
    BY <1>6, <1>16, AtGrant DEF IInv
  <2>3. Promise!Approve(r)
    BY <1>3, <1>4, <1>5, <1>14, <1>15, <2>1, <2>2, AccessAssumption DEF Promise!Approve, Promise!Becomes
  <2>4. QED
    BY <1>14, <2>3
<1>17. CASE Active(g) /\ g.tier = q.tier
  <2>1. grant'[k] = new
    BY <1>10, <1>17 DEF IInv, TypeOK
  <2>2. At(k) = [tier |-> g.tier, scope |-> g.scope, end |-> g.end] /\ At(k) # NoGrant
    BY <1>6, <1>17, AtGrant DEF IInv, At
  <2>3. Active(new)'
    BY <1>1, <1>8, <1>9, <1>17, AccessAssumption DEF Active, Grant
  <2>4. At(k)' = [tier |-> g.tier, scope |-> g.scope \cup q.scope, end |-> g.end]
    BY <1>9, <1>17, <2>1, <2>3 DEF At
  <2>5. At(k)' = [At(k) EXCEPT !.scope = At(k).scope \cup q.scope]
    <3>1. PICK x : x = g.scope \cup q.scope
      OBVIOUS
    <3>2. At(k).scope = g.scope /\ At(k)' = [tier |-> g.tier, scope |-> x, end |-> g.end]
      BY <2>2, <2>4, <3>1
    <3>3. [[tier |-> g.tier, scope |-> g.scope, end |-> g.end] EXCEPT !.scope = x]
          = [tier |-> g.tier, scope |-> x, end |-> g.end]
      OBVIOUS
    <3>4. QED
      BY <2>2, <3>1, <3>2, <3>3
  <2>6. AccessNow' = [AccessNow EXCEPT ![k].scope = @ \cup q.scope]
    <3>1. AccessNow' = [AccessNow EXCEPT ![k] = [At(k) EXCEPT !.scope = At(k).scope \cup q.scope]]
      BY <1>15, <2>5
    <3>2. QED
      BY <1>15, <3>1
  <2>7. Promise!Approve(r)
    BY <1>3, <1>4, <1>5, <1>14, <1>15, <1>17, <2>2, <2>6, AccessAssumption
    DEF Promise!Approve, Promise!Becomes
  <2>8. QED
    BY <1>14, <2>7
<1>18. CASE ~Active(g)
  <2>1. grant'[k] = new
    BY <1>10, <1>18 DEF IInv, TypeOK
  <2>2. At(k) = NoGrant
    BY <1>6, <1>18 DEF At
  <2>3. Active(new)'
    BY <1>1, <1>5, <1>9, <1>18, AccessAssumption DEF Active, Grant
  <2>4. At(k)' = [tier |-> q.tier, scope |-> q.scope, end |-> txn[d].end]
    BY <1>9, <1>18, <2>1, <2>3 DEF At
  <2>5. At(k)' \in Promise!Access /\ At(k)'.tier = q.tier /\ At(k)'.scope = q.scope
    BY <1>5, <1>7, <2>4 DEF Promise!Access
  <2>6. Promise!Approve(r)
    BY <1>3, <1>4, <1>5, <1>14, <1>15, <2>2, <2>5, AccessAssumption
    DEF Promise!Approve, Promise!Becomes, Promise!Gives
  <2>7. QED
    BY <1>14, <2>6
<1>19. QED
  BY <1>16, <1>17, <1>18

LEMMA RollbackInv ==
  ASSUME IInv, NEW d \in Deciders, Rollback(d)
  PROVE  IInv' /\ UNCHANGED <<ask, AccessNow>>
<1> USE DEF sweepVars, boundVars
<1>1. /\ txn' = [txn EXCEPT ![d] = NoTxn]
      /\ UNCHANGED <<ask, enabled, grant, lastUse, reaping, sweepVars, boundVars>>
  BY DEF Rollback
<1>2. TypeOK' /\ \A e \in Deciders : txn'[e] = txn[e] \/ txn'[e] = NoTxn
  BY <1>1 DEF IInv, TypeOK
<1>3. (\A e \in Deciders : TxnInv(e)') /\ (\A e, f \in Deciders : TwoInv(e, f)')
  BY <1>1, <1>2, Undisturbed
<1>4. QED
  BY <1>1, <1>2, <1>3, AccessKept DEF IInv, ToldInv

\* A grant that is not locked has not been read by an open decision.
LEMMA FreeIsUnread ==
  ASSUME IInv, NEW k \in Keys, GrantFree(k), grant[k] # NoGrant
  PROVE  \A d \in Deciders : txn[d] # NoTxn /\ txn[d].step = "read" => KeyOf(txn[d].req) # k
  BY DEF IInv, TxnInv, GrantFree, HoldsGrant

LEMMA AdminGrantInv ==
  ASSUME IInv, NEW u \in Users, NEW t \in Targets, NEW tier \in Tiers, NEW s \in Scopes, NEW end \in Ends,
         AdminGrant(u, t, tier, s, end)
  PROVE  IInv' /\ Promise!Give(u, t)
<1> USE DEF sweepVars
<1>1. PICK k \in Keys : k = <<u, t>> /\ k[1] = u
  <2>1. <<u, t>> \in Keys /\ <<u, t>>[1] = u
    BY DEF Keys
  <2>2. QED
    BY <2>1
<1>2. now \in Nat /\ end \in Nat /\ end > now
  BY EndsAhead DEF IInv
<1>3. PICK new \in Grant : /\ new = [tier |-> tier, scope |-> s, end |-> end, since |-> now, revoked |-> FALSE]
                           /\ new.tier = tier /\ new.scope = s /\ new.end = end /\ ~new.revoked
  <2> DEFINE new == [tier |-> tier, scope |-> s, end |-> end, since |-> now, revoked |-> FALSE]
  <2>1. new \in Grant
    BY <1>2, AccessAssumption DEF Grant
  <2>2. QED
    BY <2>1
<1>4. /\ AdminAct /\ t \notin ControlPlane /\ RequesterFree(u)
      /\ enabled' = enabled \cup {u} /\ grant' = [grant EXCEPT ![k] = new]
      /\ UNCHANGED <<ask, lastUse, txn, reaping, sweepVars>>
  BY <1>1, <1>3 DEF AdminGrant
<1>5. now' = now /\ adminActs' \in 0..MaxAdminActs /\ enabled' \subseteq Users /\ reaping' \subseteq Keys
  BY <1>4, AccessAssumption DEF AdminAct, IInv, TypeOK
<1>6. \A d \in Deciders : txn[d] # NoTxn /\ txn[d].step = "read" => KeyOf(txn[d].req) # k
  BY <1>1, <1>4 DEF RequesterFree, HoldsRequester, KeyOf
<1>7. /\ IInv' /\ grant'[k] = new
      /\ AccessNow' = [AccessNow EXCEPT ![k] = AccessNow'[k]] /\ AccessNow'[k] = At(k)'
  BY <1>4, <1>5, <1>6, GrantChanges
<1>8. new # NoGrant
  BY AccessAssumption DEF Grant
<1>9. At(k)' = [tier |-> tier, scope |-> s, end |-> end]
  BY <1>2, <1>3, <1>5, <1>7, <1>8 DEF At, Active
<1>10. AccessNow'[k] \in Promise!Access
  BY <1>2, <1>7, <1>9, AccessAssumption DEF Promise!Access
<1>11. QED
  BY <1>1, <1>4, <1>7, <1>10 DEF Promise!Give, Promise!Gives

LEMMA AdminExtendInv ==
  ASSUME IInv, NEW u \in Users, NEW t \in Targets, NEW end \in Ends, AdminExtend(u, t, end)
  PROVE  IInv' /\ Promise!Move(u, t)
<1> USE DEF sweepVars
<1>1. PICK k \in Keys : k = <<u, t>>
  BY DEF Keys
<1>2. now \in Nat /\ end \in Nat /\ end > now
  BY EndsAhead DEF IInv
<1>3. PICK g \in Grant : g = grant[k]
  BY <1>1 DEF AdminExtend, Active, IInv, TypeOK
<1>4. g # NoGrant /\ ~g.revoked
  BY <1>1, <1>3 DEF AdminExtend, Active
<1>5. PICK new \in Grant : /\ new = [g EXCEPT !.end = end] /\ new.tier = g.tier /\ new.scope = g.scope
                           /\ new.end = end /\ new.revoked = g.revoked
  <2>1. [g EXCEPT !.end = end] \in Grant
    BY <1>2 DEF Grant
  <2>2. QED
    BY <2>1 DEF Grant
<1>6. /\ AdminAct /\ GrantFree(k) /\ Active(grant[k]) /\ grant' = [grant EXCEPT ![k] = new]
      /\ UNCHANGED <<ask, enabled, lastUse, txn, reaping, sweepVars>>
  BY <1>1, <1>3, <1>5 DEF AdminExtend, IInv, TypeOK
<1>7. now' = now /\ adminActs' \in 0..MaxAdminActs /\ enabled' \subseteq Users /\ reaping' \subseteq Keys
  BY <1>6, AccessAssumption DEF AdminAct, IInv, TypeOK
<1>8. \A d \in Deciders : txn[d] # NoTxn /\ txn[d].step = "read" => KeyOf(txn[d].req) # k
  BY <1>3, <1>4, <1>6, FreeIsUnread
<1>9. /\ IInv' /\ grant'[k] = new
      /\ AccessNow' = [AccessNow EXCEPT ![k] = AccessNow'[k]] /\ AccessNow'[k] = At(k)' /\ AccessNow[k] = At(k)
  BY <1>6, <1>7, <1>8, GrantChanges
<1>10. new # NoGrant
  BY AccessAssumption DEF Grant
<1>11. At(k)' = [tier |-> g.tier, scope |-> g.scope, end |-> end]
  BY <1>2, <1>4, <1>5, <1>7, <1>9, <1>10 DEF At, Active
<1>12. At(k) = [tier |-> g.tier, scope |-> g.scope, end |-> g.end] /\ At(k) # NoGrant
  BY <1>3, <1>6, AtGrant DEF IInv, At
<1>13. AccessNow'[k] \in Promise!Access
  BY <1>2, <1>9, <1>11 DEF Promise!Access, Grant
<1>14. [AccessNow'[k] EXCEPT !.end = AccessNow[k].end] = AccessNow[k]
  BY <1>9, <1>11, <1>12
<1>15. QED
  BY <1>1, <1>6, <1>9, <1>12, <1>13, <1>14 DEF Promise!Move, Promise!Gives

\* Revoking takes live access away, or nothing.
LEMMA RevokeInv ==
  ASSUME IInv, NEW u \in Users, NEW t \in Targets, NEW k \in Keys, k = <<u, t>>, GrantFree(k),
         grant[k] # NoGrant, ~grant[k].revoked, grant' = [grant EXCEPT ![k].revoked = TRUE],
         UNCHANGED <<ask, enabled, lastUse, txn, now, told, notices, warning>>,
         adminActs' \in 0..MaxAdminActs, reaping' \subseteq Keys
  PROVE  IInv' /\ (Promise!Take(u, t) \/ UNCHANGED <<ask, AccessNow>>)
<1>1. PICK g \in Grant : g = grant[k]
  BY DEF IInv, TypeOK
<1>2. PICK new \in Grant : new = [g EXCEPT !.revoked = TRUE] /\ new.revoked
  <2>1. [g EXCEPT !.revoked = TRUE] \in Grant
    BY DEF Grant
  <2>2. QED
    BY <2>1 DEF Grant
<1>3. grant' = [grant EXCEPT ![k] = new]
  BY <1>1, <1>2 DEF IInv, TypeOK
<1>4. \A d \in Deciders : txn[d] # NoTxn /\ txn[d].step = "read" => KeyOf(txn[d].req) # k
  BY FreeIsUnread
<1>5. enabled' \subseteq Users
  BY DEF IInv, TypeOK
<1>6. /\ IInv' /\ grant'[k] = new
      /\ AccessNow' = [AccessNow EXCEPT ![k] = AccessNow'[k]] /\ AccessNow'[k] = At(k)' /\ AccessNow[k] = At(k)
  BY <1>3, <1>4, <1>5, GrantChanges
<1>7. At(k)' = NoGrant
  BY <1>2, <1>6 DEF At, Active
<1>8. CASE Active(grant[k])
  <2>1. AccessNow[k] # NoGrant
    BY <1>6, <1>8, AtGrant DEF IInv
  <2>2. QED
    BY <1>6, <1>7, <2>1 DEF Promise!Take
<1>9. CASE ~Active(grant[k])
  <2>1. AccessNow'[k] = AccessNow[k]
    BY <1>6, <1>7, <1>9 DEF At
  <2>2. AccessNow' = AccessNow
    BY <1>6, <2>1, AccessIsAt
  <2>3. QED
    BY <1>6, <2>2
<1>10. QED
  BY <1>8, <1>9

\* A step that touches neither a request nor a grant nor a decision.
LEMMA Aside ==
  ASSUME IInv, TypeOK', ToldInv', UNCHANGED <<ask, grant, txn, now>>
  PROVE  IInv' /\ UNCHANGED <<ask, AccessNow>>
  BY AccessKept DEF IInv, TxnInv, TwoInv, KeyOf

LEMMA ReapInv ==
  ASSUME IInv, NEW k \in Keys, Reap(k)
  PROVE  /\ IInv'
         /\ \/ \E u \in Users, t \in Targets : Promise!Take(u, t)
            \/ UNCHANGED <<ask, AccessNow>>
<1> USE DEF sweepVars, boundVars
<1>1. /\ GrantFree(k) /\ reaping' = reaping \ {k}
      /\ grant' = IF ReaperStops(k) THEN [grant EXCEPT ![k].revoked = TRUE] ELSE grant
      /\ UNCHANGED <<ask, enabled, lastUse, txn, sweepVars, boundVars>>
  BY DEF Reap
<1>2. PICK u \in Users, t \in Targets : k = <<u, t>>
  BY DEF Keys
<1>3. adminActs' \in 0..MaxAdminActs /\ reaping' \subseteq Keys
  BY <1>1 DEF IInv, TypeOK
<1>4. CASE ReaperStops(k)
  <2>1. IInv' /\ (Promise!Take(u, t) \/ UNCHANGED <<ask, AccessNow>>)
    BY <1>1, <1>2, <1>3, <1>4, RevokeInv DEF ReaperStops
  <2>2. QED
    BY <2>1
<1>5. CASE ~ReaperStops(k)
  BY <1>1, <1>3, <1>5, Aside DEF IInv, TypeOK, ToldInv
<1>6. QED
  BY <1>4, <1>5

\* A warning is about a person, a target, a threshold and the end of the grant.
LEMMA DueIsWarning ==
  ASSUME TypeOK
  PROVE  Due \subseteq Warnings
<1> SUFFICES ASSUME NEW w \in Due PROVE w \in Warnings
  OBVIOUS
<1>1. PICK k \in Keys, h \in Thresholds : Active(grant[k]) /\ w = <<k[1], k[2], h, grant[k].end>>
  BY DEF Due
<1>2. grant[k] \in Grant
  BY <1>1 DEF Active, TypeOK
<1>3. grant[k].end \in Nat /\ k[1] \in Users /\ k[2] \in Targets
  BY <1>2 DEF Grant, Keys
<1>4. QED
  BY <1>1, <1>3 DEF Warnings

LEMMA TickInv ==
  ASSUME IInv, Tick
  PROVE  IInv' /\ Promise!Lapse
<1> USE DEF sweepVars
<1>1. /\ now < MaxTime /\ now' = now + 1 /\ \A d \in Deciders : txn[d] = NoTxn
      /\ UNCHANGED <<ask, enabled, grant, lastUse, txn, reaping, sweepVars, adminActs>>
  BY DEF Tick
<1>2. IInv'
  BY <1>1, AccessAssumption DEF IInv, TypeOK, TxnInv, TwoInv, ToldInv
<1> DEFINE gone == {k \in Keys : ~Active(grant[k])'}
<1>3. ASSUME NEW k \in Keys PROVE At(k)' = IF k \in gone THEN NoGrant ELSE At(k)
  <2>1. CASE Active(grant[k])'
    <3>1. grant[k] \in Grant /\ now \in Nat
      BY <1>1, <2>1, AccessAssumption DEF Active, IInv, TypeOK
    <3>2. Active(grant[k])
      BY <1>1, <2>1, <3>1 DEF Active, Grant
    <3>3. At(k)' = At(k)
      BY <1>1, <2>1, <3>2 DEF At
    <3>4. QED
      BY <2>1, <3>3
  <2>2. CASE ~Active(grant[k])'
    BY <2>2 DEF At
  <2>3. QED
    BY <2>1, <2>2
<1>4. gone \in SUBSET Keys
  OBVIOUS
<1> HIDE DEF gone
<1>5. AccessNow' = [k \in Keys |-> At(k)']
  BY DEF AccessNow, At
<1>6. AccessNow' = [k \in Keys |-> IF k \in gone THEN NoGrant ELSE AccessNow[k]]
  BY <1>3, <1>5, AccessIsAt
<1>7. Promise!Lapse
  BY <1>1, <1>4, <1>6 DEF Promise!Lapse, Keys
<1>8. QED
  BY <1>2, <1>7

(***************************************************************************)
(* Every step keeps the invariant and is one step of the promise, or none. *)
(***************************************************************************)
Kept == IInv' /\ [Promise!Next]_(Promise!vars)

LEMMA PersonStep ==
  ASSUME IInv, NEW r \in Requests,
         \/ \E u \in Users, t \in Targets \cup {NoTarget}, tier \in Tiers, s \in Scopes, q \in Queries :
              Create(r, u, t, tier, s, q)
         \/ Withdraw(r)
         \/ Reject(r)
         \/ \E d \in Deciders, end \in Ends : BeginApproval(d, r, end)
  PROVE  Kept
<1>1. ASSUME NEW u \in Users, NEW t \in Targets \cup {NoTarget}, NEW tier \in Tiers, NEW s \in Scopes,
             NEW q \in Queries, Create(r, u, t, tier, s, q)
      PROVE  Kept
  BY <1>1, CreateInv DEF Kept, Promise!Next
<1>2. CASE Withdraw(r)
  <2>1. IInv' /\ Promise!Close(r)
    BY <1>2, CloseInv DEF Withdraw
  <2>2. QED
    BY <2>1 DEF Kept, Promise!Next
<1>3. CASE Reject(r)
  <2>1. IInv' /\ Promise!Close(r)
    BY <1>3, CloseInv DEF Reject
  <2>2. QED
    BY <2>1 DEF Kept, Promise!Next
<1>4. ASSUME NEW d \in Deciders, NEW end \in Ends, BeginApproval(d, r, end) PROVE Kept
  BY <1>4, BeginApprovalInv DEF Kept, Promise!vars
<1>5. QED
  BY <1>1, <1>2, <1>3, <1>4

LEMMA DecisionStep ==
  ASSUME IInv, NEW d \in Deciders,
         ApproveWithoutGrant(d) \/ WhitelistAndRead(d) \/ CommitApproval(d) \/ Rollback(d)
  PROVE  Kept
<1>1. CASE ApproveWithoutGrant(d)
  BY <1>1, ApproveWithoutGrantInv DEF Kept, Promise!Next
<1>2. CASE WhitelistAndRead(d)
  BY <1>2, WhitelistAndReadInv DEF Kept, Promise!vars
<1>3. CASE CommitApproval(d)
  BY <1>3, CommitApprovalInv DEF Kept, Promise!Next
<1>4. CASE Rollback(d)
  BY <1>4, RollbackInv DEF Kept, Promise!vars
<1>5. QED
  BY <1>1, <1>2, <1>3, <1>4

LEMMA AdminStep ==
  ASSUME IInv, NEW u \in Users, NEW t \in Targets,
         \/ \E tier \in Tiers, s \in Scopes, end \in Ends : AdminGrant(u, t, tier, s, end)
         \/ \E end \in Ends : AdminExtend(u, t, end)
         \/ Revoke(u, t)
         \/ Use(u, t)
  PROVE  Kept
<1>1. ASSUME NEW tier \in Tiers, NEW s \in Scopes, NEW end \in Ends, AdminGrant(u, t, tier, s, end)
      PROVE  Kept
  BY <1>1, AdminGrantInv DEF Kept, Promise!Next
<1>2. ASSUME NEW end \in Ends, AdminExtend(u, t, end) PROVE Kept
  BY <1>2, AdminExtendInv DEF Kept, Promise!Next
<1>3. CASE Revoke(u, t)
  <2>1. PICK k \in Keys : k = <<u, t>>
    <3>1. <<u, t>> \in Keys
      BY DEF Keys
    <3>2. QED
      BY <3>1
  <2>2. adminActs' \in 0..MaxAdminActs /\ reaping' \subseteq Keys /\ now' = now
    BY <1>3, AccessAssumption DEF Revoke, AdminAct, IInv, TypeOK
  <2>3. IInv' /\ (Promise!Take(u, t) \/ UNCHANGED <<ask, AccessNow>>)
    BY <1>3, <2>1, <2>2, RevokeInv DEF Revoke, sweepVars
  <2>4. QED
    BY <2>3 DEF Kept, Promise!Next, Promise!vars
<1>4. CASE Use(u, t)
  <2>1. TypeOK' /\ ToldInv' /\ UNCHANGED <<ask, grant, txn, now>>
    <3>1. now \in Nat /\ lastUse \in [Keys -> Nat]
      BY AccessAssumption DEF IInv, TypeOK
    <3>2. lastUse' \in [Keys -> Nat]
      BY <1>4, <3>1 DEF Use
    <3>3. QED
      BY <1>4, <3>2 DEF Use, sweepVars, boundVars, IInv, TypeOK, ToldInv
  <2>2. QED
    BY <2>1, Aside DEF Kept, Promise!vars
<1>5. QED
  BY <1>1, <1>2, <1>3, <1>4

LEMMA SweepStep ==
  ASSUME IInv,
         \/ \E u \in Users : DisableRequester(u)
         \/ ReaperScan
         \/ \E w \in Due : SendWarning(w)
         \/ RecordNotice
         \/ SweepDies
  PROVE  Kept
<1> USE DEF sweepVars, boundVars
<1>1. TypeOK' /\ ToldInv' /\ UNCHANGED <<ask, grant, txn, now>>
  <2>1. CASE \E u \in Users : DisableRequester(u)
    <3>1. PICK u \in Users : DisableRequester(u)
      BY <2>1
    <3>2. adminActs' \in 0..MaxAdminActs /\ now' = now
      BY <3>1, AccessAssumption DEF DisableRequester, AdminAct, IInv, TypeOK
    <3>3. QED
      BY <3>1, <3>2 DEF DisableRequester, IInv, TypeOK, ToldInv
  <2>2. CASE ReaperScan
    BY <2>2 DEF ReaperScan, IInv, TypeOK, ToldInv
  <2>3. ASSUME NEW w \in Due, SendWarning(w) PROVE TypeOK' /\ ToldInv' /\ UNCHANGED <<ask, grant, txn, now>>
    <3>1. w \in Warnings
      BY DueIsWarning DEF IInv
    <3>2. QED
      BY <2>3, <3>1, AccessAssumption DEF SendWarning, IInv, TypeOK, ToldInv, Warnings
  <2>4. CASE RecordNotice
    BY <2>4 DEF RecordNotice, IInv, TypeOK, ToldInv
  <2>5. CASE SweepDies
    BY <2>5 DEF SweepDies, IInv, TypeOK, ToldInv
  <2>6. QED
    BY <2>1, <2>2, <2>3, <2>4, <2>5
<1>2. QED
  BY <1>1, Aside DEF Kept, Promise!vars

LEMMA Step == IInv /\ [Next]_vars => Kept
<1> SUFFICES ASSUME IInv, [Next]_vars PROVE Kept
  OBVIOUS
<1>1. ASSUME NEW k \in Keys, Reap(k) PROVE Kept
  BY <1>1, ReapInv DEF Kept, Promise!Next, Promise!vars
<1>2. CASE Tick
  BY <1>2, TickInv DEF Kept, Promise!Next
<1>3. CASE UNCHANGED vars
  BY <1>3, Aside DEF vars, sweepVars, boundVars, IInv, TypeOK, ToldInv, Kept, Promise!vars
<1>4. QED
  BY <1>1, <1>2, <1>3, PersonStep, DecisionStep, AdminStep, SweepStep DEF Next

\* The narrowest threshold: no other owns the last stretch before an end.
LEMMA Narrowest ==
  ASSUME Thresholds # {}
  PROVE  \E h \in Thresholds : FloorOf(h) = 0
<1>1. Thresholds \subseteq Nat
  BY AccessAssumption
<1>2. \A i, j \in Nat : j < i => <<j, i>> \in OpToRel(<, Nat)
  BY SMT DEF OpToRel
<1>3. PICK h \in Thresholds : \A x \in Thresholds : ~ (<<x, h>> \in OpToRel(<, Nat))
  BY <1>1, NatLessThanWellFounded, WFMin
<1>4. {x \in Thresholds : x < h} = {}
  BY <1>1, <1>2, <1>3
<1>5. QED
  BY <1>4 DEF FloorOf

(***************************************************************************)
(* AccessGrants: the theorems.                                             *)
(***************************************************************************)
\* The strengthening from which the properties follow is an invariant.
THEOREM Invariance == Spec => []IInv
<1>1. IInv /\ [Next]_vars => IInv'
  BY Step DEF Kept
<1>2. QED
  BY InitInv, <1>1, PTL DEF Spec

\* Every state of every run has the types the module declares.
THEOREM TypeCorrect == Spec => []TypeOK
<1>1. IInv => TypeOK
  BY DEF IInv
<1>2. QED
  BY Invariance, <1>1, PTL

\* However many deciders, admins and reapers are at work, an approval made in
\* several statements does what one made at once would do (_auto_grant).
THEOREM DecidesAsPromised == Spec => ImplementsEntitlement
<1>1. Init => Promise!Init
  <2> SUFFICES ASSUME Init PROVE Promise!Init
    OBVIOUS
  <2>1. ASSUME NEW r \in Requests PROVE ask[r].status \in {"absent", "pending"}
    <3>1. PICK u \in Users, t \in ControlPlane \cup {NoTarget}, s \in SUBSET Requests :
            ask = [x \in Requests |->
                     [Blank(u, t) EXCEPT !.status = IF x \in s THEN "pending" ELSE "absent"]]
      BY DEF Init
    <3>2. PICK v \in {"absent", "pending"} : v = IF r \in s THEN "pending" ELSE "absent"
      OBVIOUS
    <3>3. ask[r] = [Blank(u, t) EXCEPT !.status = v]
      BY <3>1, <3>2
    <3>4. [Blank(u, t) EXCEPT !.status = v].status = v
      BY AccessAssumption, BlankAsk DEF Status
    <3>5. QED
      BY <3>3, <3>4
  <2>2. \A k \in Keys : ~Active(grant[k])
    BY DEF Init, Active
  <2>3. AccessNow = [k \in Keys |-> NoGrant]
    BY <2>2 DEF AccessNow
  <2>4. QED
    BY <2>1, <2>3 DEF Promise!Init, Keys
<1>2. IInv /\ [Next]_vars => [Promise!Next]_(Promise!vars)
  BY Step DEF Kept
<1>3. QED
  BY Invariance, <1>1, <1>2, PTL DEF Spec, ImplementsEntitlement, Promise!Spec

\* Where the warnings are on, no end, however it was moved or renewed and
\* wherever the sweep died, comes without its warning (grant_expiry.sweep).
THEOREM EndIsAnnounced ==
  ASSUME Thresholds # {}
  PROVE  Spec => WarnedBeforeLapse
<1>1. ASSUME IInv, [Next]_vars, NEW k \in Keys, Active(grant[k]), now' >= grant[k].end
      PROVE  \E h \in Thresholds : <<k[1], k[2], h, grant[k].end>> \in told
  <2>1. PICK e \in Nat : e = grant[k].end /\ e > now /\ now \in Nat /\ now <= MaxTime
    BY <1>1, AccessAssumption DEF Active, IInv, TypeOK, Grant
  <2>2. Tick
    <3>1. now' # now
      BY <1>1, <2>1
    <3>2. ASSUME NEW r \in Requests, NEW u, NEW t, NEW tier, NEW s, NEW q, Create(r, u, t, tier, s, q)
          PROVE  now' = now
      BY <3>2 DEF Create, boundVars
    <3>3. ASSUME NEW r, NEW d, NEW end, Withdraw(r) \/ Reject(r) \/ BeginApproval(d, r, end)
          PROVE  now' = now
      BY <3>3 DEF Withdraw, Reject, BeginApproval, boundVars
    <3>4. ASSUME NEW d, ApproveWithoutGrant(d) \/ WhitelistAndRead(d) \/ CommitApproval(d) \/ Rollback(d)
          PROVE  now' = now
      BY <3>4 DEF ApproveWithoutGrant, WhitelistAndRead, CommitApproval, Rollback, boundVars
    <3>5. ASSUME NEW u, NEW t, NEW tier, NEW s, NEW end,
                 AdminGrant(u, t, tier, s, end) \/ AdminExtend(u, t, end) \/ Revoke(u, t) \/ DisableRequester(u)
          PROVE  now' = now
      BY <3>5 DEF AdminAct, AdminGrant, AdminExtend, Revoke, DisableRequester
    <3>6. ASSUME NEW u, NEW t, NEW x, NEW w, \/ Use(u, t) \/ ReaperScan \/ Reap(x)
                                             \/ SendWarning(w) \/ RecordNotice \/ SweepDies
          PROVE  now' = now
      BY <3>6 DEF Use, ReaperScan, Reap, SendWarning, RecordNotice, SweepDies, boundVars
    <3>7. Next
      BY <1>1, <3>1 DEF vars, boundVars
    <3>8. QED
      BY <3>1, <3>2, <3>3, <3>4, <3>5, <3>6, <3>7 DEF Next
  <2>3. now < MaxTime /\ now' = now + 1 /\ Due = {}
    BY <2>2 DEF Tick
  <2>4. e = now + 1 /\ e # Forever
    BY <1>1, <2>1, <2>3, AccessAssumption
  <2>5. PICK h \in Thresholds : FloorOf(h) = 0
    BY Narrowest
  <2>6. h \in Nat /\ h > 0
    BY AccessAssumption
  <2>7. PICK w : w = <<k[1], k[2], h, e>> /\ w[3] = h /\ w[4] = e
    <3>1. <<k[1], k[2], h, e>>[3] = h /\ <<k[1], k[2], h, e>>[4] = e
      OBVIOUS
    <3>2. QED
      BY <3>1
  <2>8. w \in {<<x[1], x[2], i, grant[x].end>> : x \in {y \in Keys : Active(grant[y])}, i \in Thresholds}
    BY <1>1, <2>1, <2>7
  <2>9. w[4] # Forever /\ w[4] > now + FloorOf(w[3]) /\ w[4] <= now + w[3]
    BY <2>1, <2>4, <2>5, <2>6, <2>7
  <2>10. w \in notices
    BY <2>3, <2>8, <2>9 DEF Due
  <2>11. w \in told
    BY <1>1, <2>10 DEF IInv, ToldInv
  <2>12. QED
    BY <2>1, <2>7, <2>11
<1>2. IInv /\ [Next]_vars =>
        [\A k \in Keys :
           Active(grant[k]) /\ now' >= grant[k].end
             => \E h \in Thresholds : <<k[1], k[2], h, grant[k].end>> \in told]_vars
  BY <1>1
<1>3. QED
  BY Invariance, <1>2, PTL DEF Spec, WarnedBeforeLapse

(***************************************************************************)
(* AccessMirror: the inductive invariant.                                  *)
(***************************************************************************)
Views == Members \cup Rules

\* What a transaction has written is what its trigger has come to.
RowsInv(u) ==
  /\ \A x \in Views : legacy[x].by = u =>
       mirror[u].what = x /\ mirror[u].step \notin {"idle", "write"}
  /\ \A m \in Members : member[m].by = u =>
       mirror[u].what \in Members /\ mirror[u].step \in {"drop", "add", "commit"}
  /\ copy.by = u => mirror[u].what \in Rules /\ mirror[u].step \in {"recompute", "commit"}

\* The steps of the two triggers.
StageInv(u) ==
  /\ mirror[u].what \in Rules => mirror[u].step \in {"write", "lock", "recompute", "commit"}
  /\ mirror[u].what \in Members =>
       /\ mirror[u].step \in {"write", "delete", "drop", "add", "commit"}
       /\ mirror[u].want \in {Mirror!Off, 1}
  /\ mirror[u].what = NoTxn => mirror[u].step = "idle"

SeenEnds(u) == {Mirror!Seen(u, legacy[r]) : r \in Rules}

\* Who is past the row of the principal holds it, and what he has recomputed is
\* still what he would recompute.
CopyInv(u) ==
  /\ mirror[u].what \in Rules /\ mirror[u].step \in {"recompute", "commit"} => copy.by = u
  /\ mirror[u].what \in Rules /\ mirror[u].step = "commit" => copy.new = Mirror!Latest(SeenEnds(u))

Wanted(u, m) == Mirror!Seen(u, legacy[m]) # Mirror!Off
There(u, m)  == Mirror!Seen(u, member[m]) # Mirror!Off

\* How far the two statements have come for a transaction that is alone.
TeamInv(u) ==
  mirror[u].alone /\ mirror[u].what \in Members =>
    /\ mirror[u].step = "drop" =>
         \A m \in Members : There(u, m) /\ ~Wanted(u, m) => m \in mirror[u].left
    /\ mirror[u].step = "add" =>
         \A m \in Members : /\ m \in mirror[u].left \/ There(u, m) => Wanted(u, m)
                            /\ Wanted(u, m) => m \in mirror[u].left \/ There(u, m)
    /\ mirror[u].step = "commit" =>
         \A m \in Members : Wanted(u, m) <=> There(u, m)

MirrorTxnInv(u) == RowsInv(u) /\ StageInv(u) /\ CopyInv(u) /\ TeamInv(u)

\* Who is alone is alone.
AloneInv ==
  \A u, v \in Txns : Mirror!Open(u) /\ mirror[u].alone /\ Mirror!Open(v) => u = v

\* A member is there or not.
PairInv ==
  \A m \in Members :
    {legacy[m].val, legacy[m].new, member[m].val, member[m].new} \subseteq {Mirror!Off, 1}

\* The inductive invariant of AccessMirror.
MirrorInv ==
  /\ Mirror!TypeOK /\ AloneInv /\ PairInv /\ PersonInSync
  /\ \A u \in Txns : MirrorTxnInv(u)

-----------------------------------------------------------------------------
(* Rows and dates.                                                          *)

\* Writing, committing and undoing a row.
LEMMA RowFacts ==
  ASSUME NEW w \in Mirror!Row, NEW t \in Txns
  PROVE  /\ w.val \in RuleEnds \cup {Mirror!Off} /\ w.new \in RuleEnds \cup {Mirror!Off}
         /\ w.by \in Txns \cup {NoTxn} /\ t # NoTxn
         /\ Mirror!Seen(t, w) \in RuleEnds \cup {Mirror!Off}
         /\ \A v \in RuleEnds \cup {Mirror!Off} :
              LET n == Mirror!Wrote(t, w, v) IN
                n \in Mirror!Row /\ n.val = w.val /\ n.by = t /\ n.new = v /\ Mirror!Seen(t, n) = v
         /\ LET n == Mirror!Kept(t, w) IN
              /\ n \in Mirror!Row /\ n.val = Mirror!Seen(t, w) /\ n.by # t
              /\ w.by # t => n = w
              /\ n.new \in {w.new, Mirror!Off} /\ (n.by # w.by => n.by = NoTxn)
         /\ LET n == Mirror!Undone(t, w) IN
              /\ n \in Mirror!Row /\ n.val = w.val /\ n.by # t
              /\ w.by # t => n = w
              /\ n.new \in {w.new, Mirror!Off} /\ (n.by # w.by => n.by = NoTxn)
  <1>1. t # NoTxn /\ Mirror!Off \in RuleEnds \cup {Mirror!Off}
    BY MirrorAssumption DEF Mirror!AccessMirrorAssumption
  <1>2. /\ w.val \in RuleEnds \cup {Mirror!Off} /\ w.new \in RuleEnds \cup {Mirror!Off}
        /\ w.by \in Txns \cup {NoTxn}
    BY DEF Mirror!Row
  <1>3. QED
    BY <1>1, <1>2 DEF Mirror!Row, Mirror!Seen, Mirror!Wrote, Mirror!Kept, Mirror!Undone

\* The greatest of some dates, none without any.
LEMMA LatestIsGreatest ==
  ASSUME NEW D, D \subseteq RuleEnds \cup {Mirror!Off}
  PROVE  Mirror!Latest(D) \in RuleEnds \cup {Mirror!Off}
  <1>1. PICK noEnd \in RuleEnds : \A e \in RuleEnds : e <= noEnd
    BY MirrorAssumption DEF Mirror!AccessMirrorAssumption
  <1>2. RuleEnds \subseteq Nat \ {0} /\ Mirror!Off = 0
    BY MirrorAssumption DEF Mirror!AccessMirrorAssumption, Mirror!Off
  <1> DEFINE Below == {noEnd - e : e \in D \cup {Mirror!Off}}
  <1>3. Below \subseteq Nat /\ Below # {}
    BY <1>1, <1>2
  <1>4. PICK n \in Below : \A x \in Below : ~ (<<x, n>> \in OpToRel(<, Nat))
    BY <1>3, NatLessThanWellFounded, WFMin
  <1>5. \A x \in Below : ~ (x < n)
    <2>1. \A i, j \in Nat : j < i => <<j, i>> \in OpToRel(<, Nat)
      BY SMT DEF OpToRel
    <2>2. QED
      BY <1>3, <1>4, <2>1
  <1>6. PICK d \in D \cup {Mirror!Off} : n = noEnd - d
    OBVIOUS
  <1>7. \A e \in D : e <= d
    BY <1>1, <1>2, <1>5, <1>6
  <1>8. Mirror!Latest(D) \in D \cup {Mirror!Off}
    BY <1>7 DEF Mirror!Latest
  <1>9. QED
    BY <1>8

\* At first nothing is there.
LEMMA MirrorInit == Mirror!Init => MirrorInv
  <1> SUFFICES ASSUME Mirror!Init PROVE MirrorInv
    OBVIOUS
  <1>1. /\ Mirror!Empty \in Mirror!Row /\ Mirror!Idle \in Mirror!Txn
        /\ Mirror!Empty.by = NoTxn /\ Mirror!Empty.val = Mirror!Off /\ Mirror!Empty.new = Mirror!Off
    BY DEF Mirror!Empty, Mirror!Row, Mirror!Idle, Mirror!Txn
  <1>2. Mirror!TypeOK
    BY <1>1 DEF Mirror!Init, Mirror!TypeOK
  <1>3. \A u \in Txns : mirror[u] = Mirror!Idle /\ u # NoTxn
    BY MirrorAssumption DEF Mirror!AccessMirrorAssumption, Mirror!Init
  <1>4. AloneInv
    BY <1>3 DEF AloneInv, Mirror!Open, Mirror!Idle
  <1>5. PairInv
    BY <1>1 DEF PairInv, Mirror!Init
  <1>6. ASSUME NEW u \in Txns PROVE MirrorTxnInv(u)
    <2>1. RowsInv(u)
      BY <1>1, <1>3 DEF RowsInv, Mirror!Init, Views
    <2>2. NoTxn \notin Members \cup Rules
      BY MirrorAssumption DEF Mirror!AccessMirrorAssumption
    <2>3. QED
      BY <1>3, <2>1, <2>2 DEF MirrorTxnInv, StageInv, CopyInv, TeamInv, Mirror!Idle
  <1>7. PersonInSync
    <2>1. \A r \in Rules : legacy[r].val = Mirror!Off
      BY <1>1 DEF Mirror!Init
    <2>2. {legacy[r].val : r \in Rules} \subseteq {Mirror!Off}
      BY <2>1
    <2>3. Mirror!Latest({legacy[r].val : r \in Rules}) = Mirror!Off
      BY <2>2 DEF Mirror!Latest, Mirror!Off
    <2>4. QED
      BY <1>1, <2>3 DEF PersonInSync, Mirror!PersonInSync, Mirror!Init
  <1>8. QED
    BY <1>2, <1>4, <1>5, <1>6, <1>7 DEF MirrorInv

-----------------------------------------------------------------------------
(* A step that writes rows of its own and commits nothing.                  *)

\* What such a step makes of a row.
Own(t, w, n) ==
  \/ n = w
  \/ Mirror!Free(t, w) /\ n.val = w.val /\ n.by \in {NoTxn, t}

\* Nobody else sees anything of it.
LEMMA OwnUnseen ==
  ASSUME NEW t \in Txns, NEW u \in Txns \ {t},
         NEW w \in Mirror!Row, NEW n \in Mirror!Row, Own(t, w, n)
  PROVE  /\ Mirror!Seen(u, n) = Mirror!Seen(u, w)
         /\ n.by = u <=> w.by = u
         /\ w.by = u => n = w
         /\ n.val = w.val
  BY MirrorAssumption DEF Mirror!AccessMirrorAssumption, Own, Mirror!Free, Mirror!Seen

\* All that is left to show is what it means to the transaction itself.
LEMMA OwnStep ==
  ASSUME MirrorInv, NEW t \in Txns, NEW x \in Mirror!Txn,
         Mirror!Open(t), mirror' = [mirror EXCEPT ![t] = x],
         x.step # "idle" => x.alone = mirror[t].alone,
         legacy' \in [Views -> Mirror!Row], \A y \in Views : Own(t, legacy[y], legacy'[y]),
         member' \in [Members -> Mirror!Row], \A m \in Members : Own(t, member[m], member'[m]),
         copy' \in Mirror!Row, Own(t, copy, copy'),
         MirrorTxnInv(t)', PairInv'
  PROVE  MirrorInv'
  <1>1. /\ legacy \in [Views -> Mirror!Row] /\ member \in [Members -> Mirror!Row]
        /\ copy \in Mirror!Row /\ mirror \in [Txns -> Mirror!Txn]
    BY DEF MirrorInv, Mirror!TypeOK, Views
  <1>2. mirror'[t] = x /\ \A u \in Txns \ {t} : mirror'[u] = mirror[u]
    BY <1>1
  <1>3. Mirror!TypeOK'
    BY <1>1 DEF Mirror!TypeOK, Views
  <1>4. AloneInv'
    BY <1>2 DEF MirrorInv, AloneInv, Mirror!Open
  <1>5. PersonInSync'
    <2>1. copy'.val = copy.val /\ \A r \in Rules : legacy'[r].val = legacy[r].val
      BY <1>1 DEF Own, Views
    <2>2. {legacy'[r].val : r \in Rules} = {legacy[r].val : r \in Rules}
      BY <2>1
    <2>3. QED
      BY <2>1, <2>2 DEF MirrorInv, PersonInSync, Mirror!PersonInSync
  <1>6. ASSUME NEW u \in Txns \ {t} PROVE MirrorTxnInv(u)'
    <2>1. MirrorTxnInv(u)
      BY DEF MirrorInv
    <2>2. mirror'[u] = mirror[u]
      BY <1>2
    <2>3. /\ \A y \in Views : /\ Mirror!Seen(u, legacy'[y]) = Mirror!Seen(u, legacy[y])
                              /\ legacy'[y].by = u <=> legacy[y].by = u
          /\ \A m \in Members : member'[m].by = u <=> member[m].by = u
          /\ copy'.by = u <=> copy.by = u
          /\ copy.by = u => copy' = copy
      BY <1>1, OwnUnseen
    <2>4. RowsInv(u)'
      BY <2>1, <2>2, <2>3 DEF MirrorTxnInv, RowsInv
    <2>5. StageInv(u)'
      BY <2>1, <2>2 DEF MirrorTxnInv, StageInv
    <2>6. CopyInv(u)'
      <3>1. SeenEnds(u)' = SeenEnds(u)
        BY <2>3 DEF SeenEnds, Views, Mirror!Seen
      <3>2. QED
        BY <2>1, <2>2, <2>3, <3>1 DEF MirrorTxnInv, CopyInv
    <2>7. TeamInv(u)'
      <3>1. Mirror!Open(u) => ~mirror[u].alone
        BY DEF MirrorInv, AloneInv
      <3>2. QED
        BY <2>2, <3>1 DEF TeamInv, Mirror!Open
    <2>8. QED
      BY <2>4, <2>5, <2>6, <2>7 DEF MirrorTxnInv
  <1>7. \A u \in Txns : MirrorTxnInv(u)'
    <2> TAKE u \in Txns
    <2>1. CASE u = t
      BY <2>1
    <2>2. CASE u # t
      BY <1>6, <2>2
    <2>3. QED
      BY <2>1, <2>2
  <1>8. QED
    BY <1>3, <1>4, <1>5, <1>7 DEF MirrorInv

\* What one knows of a transaction and of the constants.
LEMMA MirrorFacts ==
  ASSUME MirrorInv, NEW t \in Txns
  PROVE  /\ legacy \in [Views -> Mirror!Row] /\ member \in [Members -> Mirror!Row]
         /\ copy \in Mirror!Row /\ mirror \in [Txns -> Mirror!Txn] /\ mirror[t] \in Mirror!Txn
         /\ RowsInv(t) /\ StageInv(t) /\ CopyInv(t) /\ TeamInv(t)
         /\ mirror[t].what \in Views \cup {NoTxn} /\ mirror[t].want \in RuleEnds \cup {Mirror!Off}
         /\ mirror[t].left \subseteq Members
         /\ t # NoTxn /\ NoTxn \notin Views /\ Members \cap Rules = {}
         /\ 1 \in RuleEnds \cup {Mirror!Off} /\ Mirror!Off \in RuleEnds \cup {Mirror!Off} /\ Mirror!Off # 1
         /\ Mirror!Idle \in Mirror!Txn /\ Mirror!Idle.step = "idle" /\ Mirror!Idle.what = NoTxn
         /\ Views = Members \cup Rules
  <1>1. /\ legacy \in [Views -> Mirror!Row] /\ member \in [Members -> Mirror!Row]
        /\ copy \in Mirror!Row /\ mirror \in [Txns -> Mirror!Txn]
        /\ MirrorTxnInv(t)
    BY DEF MirrorInv, Mirror!TypeOK, Views
  <1>2. /\ mirror[t].what \in Views \cup {NoTxn} /\ mirror[t].want \in RuleEnds \cup {Mirror!Off}
        /\ mirror[t].left \subseteq Members
    BY <1>1 DEF Mirror!Txn, Views
  <1>3. /\ t # NoTxn /\ NoTxn \notin Views /\ Members \cap Rules = {} /\ 1 \in RuleEnds
        /\ Mirror!Off # 1
    BY MirrorAssumption DEF Mirror!AccessMirrorAssumption, Views, Mirror!Off
  <1>4. Mirror!Idle \in Mirror!Txn /\ Mirror!Idle.step = "idle" /\ Mirror!Idle.what = NoTxn
    BY DEF Mirror!Idle, Mirror!Txn
  <1>5. QED
    BY <1>1, <1>2, <1>3, <1>4 DEF MirrorTxnInv, Views

\* A transaction that has gone idle and left no row.
LEMMA GoneIdle ==
  ASSUME NEW t \in Txns, mirror'[t] = Mirror!Idle, NoTxn \notin Views,
         \A x \in Views : legacy'[x].by # t, \A m \in Members : member'[m].by # t, copy'.by # t
  PROVE  MirrorTxnInv(t)'
  <1>1. mirror'[t].step = "idle" /\ mirror'[t].what = NoTxn
    BY DEF Mirror!Idle
  <1>2. QED
    BY <1>1 DEF MirrorTxnInv, RowsInv, StageInv, CopyInv, TeamInv, Views

\* A handler writes the legacy row, or finds it written.
LEMMA WriteKeepsMirror ==
  ASSUME MirrorInv, NEW t \in Txns, Mirror!Write(t)
  PROVE  MirrorInv'
  <1> USE MirrorFacts
  <1> DEFINE x == mirror[t].what
             n == Mirror!Wrote(t, legacy[x], mirror[t].want)
  <1>1. /\ mirror[t].step = "write" /\ Mirror!Free(t, legacy[x]) /\ Mirror!Open(t)
        /\ UNCHANGED <<member, copy>>
    BY DEF Mirror!Write, Mirror!Open
  <1>2. x \in Views
    BY <1>1 DEF StageInv
  <1>3. /\ \A y \in Views : legacy[y].by # t
        /\ \A m \in Members : member[m].by # t
        /\ copy.by # t
    BY <1>1 DEF RowsInv
  <1>4. CASE legacy[x].val = mirror[t].want
    <2>1. mirror' = [mirror EXCEPT ![t] = Mirror!Idle] /\ UNCHANGED legacy
      BY <1>4 DEF Mirror!Write
    <2>2. MirrorTxnInv(t)'
      BY <1>1, <1>3, <2>1, GoneIdle
    <2>3. PairInv'
      BY <1>1, <2>1 DEF MirrorInv, PairInv
    <2>4. QED
      BY <1>1, <2>1, <2>2, <2>3, OwnStep DEF Own
  <1>5. CASE legacy[x].val # mirror[t].want
    <2> DEFINE k == [mirror[t] EXCEPT !.step = IF x \in Members THEN "delete" ELSE "lock"]
    <2>1. legacy' = [legacy EXCEPT ![x] = n] /\ mirror' = [mirror EXCEPT ![t] = k]
      BY <1>5 DEF Mirror!Write, Mirror!Goes
    <2>2. /\ k \in Mirror!Txn /\ k.alone = mirror[t].alone /\ k.what = x /\ k.want = mirror[t].want
          /\ k.step = IF x \in Members THEN "delete" ELSE "lock"
      BY DEF Mirror!Txn
    <2>3. /\ n \in Mirror!Row /\ n.val = legacy[x].val /\ n.by = t /\ n.new = mirror[t].want
      BY <1>2, RowFacts
    <2> HIDE DEF k, n
    <2>4. mirror'[t] = k /\ legacy' \in [Views -> Mirror!Row] /\ legacy'[x] = n
          /\ \A y \in Views \ {x} : legacy'[y] = legacy[y]
      BY <1>2, <2>1, <2>2, <2>3
    <2>5. MirrorTxnInv(t)'
      <3>1. RowsInv(t)'
        BY <1>1, <1>3, <2>2, <2>4 DEF RowsInv
      <3>2. StageInv(t)' /\ CopyInv(t)' /\ TeamInv(t)'
        BY <1>1, <1>2, <2>2, <2>4 DEF StageInv, CopyInv, TeamInv
      <3>3. QED
        BY <3>1, <3>2 DEF MirrorTxnInv
    <2>6. PairInv'
      <3>1. x \in Members => mirror[t].want \in {Mirror!Off, 1}
        BY DEF StageInv
      <3>2. QED
        BY <1>1, <2>3, <2>4, <3>1 DEF MirrorInv, PairInv
    <2>7. \A y \in Views : Own(t, legacy[y], legacy'[y])
      BY <1>1, <2>3, <2>4 DEF Own
    <2>8. QED
      BY <1>1, <2>1, <2>2, <2>4, <2>5, <2>6, <2>7, OwnStep DEF Own
  <1>6. QED
    BY <1>4, <1>5

\* A statement of mirror_team begins, or the last is over.
LEMMA StatementKeepsMirror ==
  ASSUME MirrorInv, NEW t \in Txns, Mirror!Delete(t) \/ Mirror!Insert(t) \/ Mirror!Mirrored(t)
  PROVE  MirrorInv'
  <1> USE MirrorFacts
  <1>1. mirror[t].step \in {"delete", "drop", "add"} /\ UNCHANGED <<legacy, member, copy>>
    BY DEF Mirror!Delete, Mirror!Insert, Mirror!Mirrored, Mirror!Statement
  <1>2. PICK step \in {"drop", "add", "commit"}, left \in SUBSET Members :
          mirror' = [mirror EXCEPT ![t] = [mirror[t] EXCEPT !.step = step, !.left = left]]
    <2>1. CASE Mirror!Delete(t)
      <3>1. Mirror!Gone(t) \in SUBSET Members
        BY DEF Mirror!Gone
      <3>2. mirror' = [mirror EXCEPT ![t] = [mirror[t] EXCEPT !.step = "drop", !.left = Mirror!Gone(t)]]
        BY <2>1 DEF Mirror!Delete, Mirror!Statement
      <3>3. QED
        BY <3>1, <3>2
    <2>2. CASE Mirror!Insert(t)
      <3>1. Mirror!Listed(t) \in SUBSET Members
        BY DEF Mirror!Listed
      <3>2. mirror' = [mirror EXCEPT ![t] = [mirror[t] EXCEPT !.step = "add", !.left = Mirror!Listed(t)]]
        BY <2>2 DEF Mirror!Insert, Mirror!Statement
      <3>3. QED
        BY <3>1, <3>2
    <2>3. CASE Mirror!Mirrored(t)
      <3>1. mirror' = [mirror EXCEPT ![t] = [mirror[t] EXCEPT !.step = "commit"]]
        BY <2>3 DEF Mirror!Mirrored, Mirror!Goes
      <3>2. [mirror[t] EXCEPT !.step = "commit"] = [mirror[t] EXCEPT !.step = "commit", !.left = mirror[t].left]
        BY DEF Mirror!Txn
      <3>3. QED
        BY <3>1, <3>2
    <2>4. QED
      BY <2>1, <2>2, <2>3
  <1> DEFINE k == [mirror[t] EXCEPT !.step = step, !.left = left]
  <1>3. /\ k \in Mirror!Txn /\ k.step = step /\ k.left = left
        /\ k.what = mirror[t].what /\ k.want = mirror[t].want /\ k.alone = mirror[t].alone
    <2>1. mirror[t] \in Mirror!Txn
      OBVIOUS
    <2>2. step \in {"idle", "write", "delete", "drop", "insert", "add", "lock", "recompute", "commit"}
      OBVIOUS
    <2>3. QED
      BY <2>1, <2>2 DEF Mirror!Txn
  <1> HIDE DEF k
  <1>4. mirror'[t] = k /\ mirror' = [mirror EXCEPT ![t] = k]
    BY <1>2, <1>3 DEF k
  <1>5. mirror[t].what \in Members
    BY <1>1 DEF StageInv, Views
  <1>6. RowsInv(t)' /\ StageInv(t)' /\ CopyInv(t)'
    BY <1>1, <1>3, <1>4, <1>5 DEF RowsInv, StageInv, CopyInv, Views
  <1>7. TeamInv(t)'
    <2> SUFFICES ASSUME mirror[t].alone
                 PROVE  /\ k.step = "drop" =>
                             \A m \in Members : There(t, m) /\ ~Wanted(t, m) => m \in k.left
                        /\ k.step = "add" =>
                             \A m \in Members : /\ m \in k.left \/ There(t, m) => Wanted(t, m)
                                                /\ Wanted(t, m) => m \in k.left \/ There(t, m)
                        /\ k.step = "commit" =>
                             \A m \in Members : Wanted(t, m) <=> There(t, m)
      BY <1>1, <1>3, <1>4 DEF TeamInv, There, Wanted, Mirror!Seen
    <2>1. CASE Mirror!Delete(t)
      <3>1. mirror'[t].step = "drop" /\ mirror'[t].left = Mirror!Gone(t)
        BY <2>1 DEF Mirror!Delete, Mirror!Statement, Mirror!Txn
      <3>2. QED
        BY <1>4, <3>1 DEF Mirror!Gone, There, Wanted
    <2>2. CASE Mirror!Insert(t)
      <3>1. /\ mirror'[t].step = "add" /\ mirror'[t].left = Mirror!Listed(t)
            /\ mirror[t].step = "drop" /\ mirror[t].left = {}
        BY <2>2 DEF Mirror!Insert, Mirror!Statement, Mirror!Txn
      <3>2. QED
        BY <1>4, <1>5, <3>1 DEF Mirror!Listed, There, Wanted, TeamInv
    <2>3. CASE Mirror!Mirrored(t)
      <3>1. mirror'[t].step = "commit" /\ mirror[t].step = "add" /\ mirror[t].left = {}
        BY <2>3 DEF Mirror!Mirrored, Mirror!Goes, Mirror!Txn
      <3>2. QED
        BY <1>4, <1>5, <3>1 DEF TeamInv
    <2>4. QED
      BY <2>1, <2>2, <2>3
  <1>8. MirrorTxnInv(t)' /\ PairInv'
    BY <1>1, <1>6, <1>7 DEF MirrorTxnInv, MirrorInv, PairInv
  <1>9. QED
    BY <1>1, <1>3, <1>4, <1>8, OwnStep DEF Own, Mirror!Open

\* The next row of a statement.
LEMMA VisitKeepsMirror ==
  ASSUME MirrorInv, NEW t \in Txns, NEW m \in Members,
         Mirror!Visit(t, m, "drop", Mirror!Off) \/ Mirror!Visit(t, m, "add", 1)
  PROVE  MirrorInv'
  <1> USE MirrorFacts
  <1> DEFINE v == IF mirror[t].step = "drop" THEN Mirror!Off ELSE 1
             n == IF Mirror!Seen(t, member[m]) = v THEN member[m] ELSE Mirror!Wrote(t, member[m], v)
             k == [mirror[t] EXCEPT !.left = @ \ {m}]
  <1>1. /\ mirror[t].step \in {"drop", "add"} /\ m \in mirror[t].left /\ Mirror!Free(t, member[m])
        /\ mirror' = [mirror EXCEPT ![t] = k] /\ UNCHANGED <<legacy, copy>>
    BY DEF Mirror!Visit
  <1>2. member' = [member EXCEPT ![m] = n]
    BY DEF Mirror!Visit
  <1>3. /\ n \in Mirror!Row /\ n.val = member[m].val /\ n.by \in {member[m].by, t}
        /\ n.new \in {member[m].new, v} /\ Mirror!Seen(t, n) = v
    BY RowFacts
  <1>4. /\ k \in Mirror!Txn /\ k.step = mirror[t].step /\ k.left = mirror[t].left \ {m}
        /\ k.what = mirror[t].what /\ k.want = mirror[t].want /\ k.alone = mirror[t].alone
    <2>1. mirror[t] \in Mirror!Txn
      OBVIOUS
    <2>2. QED
      BY <2>1 DEF Mirror!Txn
  <1> HIDE DEF n, k
  <1>5. /\ mirror'[t] = k /\ member' \in [Members -> Mirror!Row] /\ member'[m] = n
        /\ \A o \in Members \ {m} : member'[o] = member[o]
    BY <1>1, <1>2, <1>3, <1>4
  <1>6. mirror[t].what \in Members
    BY <1>1 DEF StageInv, Views
  <1>7. RowsInv(t)' /\ StageInv(t)' /\ CopyInv(t)'
    BY <1>1, <1>4, <1>5, <1>6 DEF RowsInv, StageInv, CopyInv, Views
  <1>8. TeamInv(t)'
    <2>1. \A o \in Members : Wanted(t, o)' <=> Wanted(t, o)
      BY <1>1 DEF Wanted, Mirror!Seen
    <2>2. \A o \in Members \ {m} : There(t, o)' <=> There(t, o)
      BY <1>5 DEF There, Mirror!Seen
    <2>3. There(t, m)' <=> mirror[t].step = "add"
      <3>1. There(t, m)' <=> Mirror!Seen(t, n) # Mirror!Off
        BY <1>5 DEF There, Mirror!Seen
      <3>2. QED
        BY <1>1, <1>3, <3>1
    <2>4. QED
      BY <1>1, <1>4, <1>5, <1>6, <2>1, <2>2, <2>3 DEF TeamInv
  <1>9. PairInv'
    BY <1>1, <1>3, <1>5 DEF MirrorInv, PairInv
  <1>10. \A o \in Members : Own(t, member[o], member'[o])
    <2>1. n.by \in {NoTxn, t}
      BY <1>1, <1>3 DEF Mirror!Free
    <2>2. QED
      BY <1>1, <1>3, <1>5, <2>1 DEF Own
  <1>11. MirrorTxnInv(t)'
    BY <1>7, <1>8 DEF MirrorTxnInv
  <1>12. QED
    BY <1>1, <1>4, <1>5, <1>9, <1>10, <1>11, OwnStep DEF Own, Mirror!Open

\* The row of the principal is written first, then the copy.
LEMMA PrincipalKeepsMirror ==
  ASSUME MirrorInv, NEW t \in Txns, Mirror!LockPrincipal(t) \/ Mirror!Recompute(t)
  PROVE  MirrorInv'
  <1> USE MirrorFacts
  <1>1. mirror[t].step \in {"lock", "recompute"} /\ UNCHANGED <<legacy, member>>
    BY DEF Mirror!LockPrincipal, Mirror!Recompute
  <1>2. mirror[t].what \in Rules /\ mirror[t].what \notin Members /\ mirror[t].what # NoTxn
    BY <1>1 DEF StageInv, Views
  <1>3. SeenEnds(t) \subseteq RuleEnds \cup {Mirror!Off}
    BY RowFacts DEF SeenEnds
  <1>4. PICK step \in {"recompute", "commit"}, v \in RuleEnds \cup {Mirror!Off} :
          /\ mirror' = [mirror EXCEPT ![t] = [mirror[t] EXCEPT !.step = step]]
          /\ copy' = Mirror!Wrote(t, copy, v)
          /\ step = "commit" => v = Mirror!Latest(SeenEnds(t))
    <2>1. CASE Mirror!LockPrincipal(t)
      BY <2>1, RowFacts DEF Mirror!LockPrincipal, Mirror!Goes
    <2>2. CASE Mirror!Recompute(t)
      <3>1. Mirror!Latest(SeenEnds(t)) \in RuleEnds \cup {Mirror!Off}
        BY <1>3, LatestIsGreatest
      <3>2. QED
        BY <2>2, <3>1 DEF Mirror!Recompute, Mirror!Goes, SeenEnds
    <2>3. QED
      BY <2>1, <2>2
  <1>5. Mirror!Free(t, copy)
    BY <1>2 DEF Mirror!LockPrincipal, Mirror!PrincipalFree, Mirror!Recompute, CopyInv, Mirror!Free
  <1>6. copy' \in Mirror!Row /\ copy'.val = copy.val /\ copy'.by = t /\ copy'.new = v
    BY <1>4, RowFacts
  <1> DEFINE k == [mirror[t] EXCEPT !.step = step]
  <1>7. /\ k \in Mirror!Txn /\ k.step = step
        /\ k.what = mirror[t].what /\ k.want = mirror[t].want /\ k.alone = mirror[t].alone
    <2>1. mirror[t] \in Mirror!Txn
      OBVIOUS
    <2>2. QED
      BY <2>1 DEF Mirror!Txn
  <1> HIDE DEF k
  <1>8. mirror' = [mirror EXCEPT ![t] = k] /\ mirror'[t] = k
    BY <1>4, <1>7 DEF k
  <1>9. RowsInv(t)'
    BY <1>1, <1>2, <1>7, <1>8 DEF RowsInv, Views
  <1>10. StageInv(t)' /\ TeamInv(t)'
    BY <1>2, <1>7, <1>8 DEF StageInv, TeamInv
  <1>11. CopyInv(t)'
    <2>1. SeenEnds(t)' = SeenEnds(t)
      BY <1>1 DEF SeenEnds, Mirror!Seen
    <2>2. QED
      BY <1>4, <1>6, <1>7, <1>8, <2>1 DEF CopyInv
  <1>12. MirrorTxnInv(t)' /\ PairInv'
    BY <1>1, <1>9, <1>10, <1>11 DEF MirrorTxnInv, MirrorInv, PairInv
  <1>13. QED
    BY <1>1, <1>5, <1>6, <1>7, <1>8, <1>12, OwnStep DEF Own, Mirror!Open

\* What a transaction wrote is gone with it.
LEMMA RollbackKeepsMirror ==
  ASSUME MirrorInv, NEW t \in Txns, Mirror!Rollback(t)
  PROVE  MirrorInv'
  <1> USE MirrorFacts
  <1>1. /\ Mirror!Open(t) /\ mirror' = [mirror EXCEPT ![t] = Mirror!Idle]
        /\ legacy' = [x \in Views |-> Mirror!Undone(t, legacy[x])]
        /\ member' = [m \in Members |-> Mirror!Undone(t, member[m])]
        /\ copy' = Mirror!Undone(t, copy)
    BY DEF Mirror!Rollback
  <1>2. \A w \in Mirror!Row : /\ Own(t, w, Mirror!Undone(t, w)) /\ Mirror!Undone(t, w) \in Mirror!Row
                              /\ Mirror!Undone(t, w).by # t
                              /\ Mirror!Undone(t, w).val = w.val
                              /\ Mirror!Undone(t, w).new \in {w.new, Mirror!Off}
    BY RowFacts DEF Own, Mirror!Free
  <1>3. MirrorTxnInv(t)'
    BY <1>1, <1>2, GoneIdle
  <1>4. PairInv'
    <2> SUFFICES ASSUME NEW m \in Members
                 PROVE  {legacy'[m].val, legacy'[m].new, member'[m].val, member'[m].new} \subseteq {Mirror!Off, 1}
      BY DEF PairInv
    <2>1. {legacy[m].val, legacy[m].new, member[m].val, member[m].new} \subseteq {Mirror!Off, 1}
      BY DEF MirrorInv, PairInv
    <2>2. /\ legacy'[m] = Mirror!Undone(t, legacy[m]) /\ member'[m] = Mirror!Undone(t, member[m])
          /\ legacy[m] \in Mirror!Row /\ member[m] \in Mirror!Row
      BY <1>1
    <2>3. /\ legacy'[m].val = legacy[m].val /\ legacy'[m].new \in {legacy[m].new, Mirror!Off}
          /\ member'[m].val = member[m].val /\ member'[m].new \in {member[m].new, Mirror!Off}
      BY <1>2, <2>2
    <2>4. QED
      BY <2>1, <2>3
  <1>5. QED
    BY <1>1, <1>2, <1>3, <1>4, OwnStep

\* A handler opens a transaction: it is alone if nobody else is there, and nobody
\* else is alone any longer.
LEMMA BeginKeepsMirror ==
  ASSUME MirrorInv, NEW t \in Txns, Mirror!Begin(t)
  PROVE  MirrorInv'
  <1>1. /\ ~Mirror!Open(t) /\ mirror[t].step = "idle" /\ UNCHANGED <<legacy, member, copy>>
    BY DEF Mirror!Begin, Mirror!Open
  <1> DEFINE Opened(x, v) ==
        [u \in Txns |->
           IF u = t THEN [Mirror!Idle EXCEPT !.step = "write", !.what = x, !.want = v,
                                             !.alone = \A w \in Txns : ~Mirror!Open(w)]
           ELSE IF Mirror!Open(u) THEN [mirror[u] EXCEPT !.alone = FALSE] ELSE mirror[u]]
  <1>2. PICK x \in Views, v \in RuleEnds \cup {Mirror!Off} :
          (x \in Members => v \in {Mirror!Off, 1}) /\ mirror' = Opened(x, v)
    <2>1. PICK x \in Members \cup Rules :
            \E v \in IF x \in Members THEN {Mirror!Off, 1} ELSE RuleEnds \cup {Mirror!Off} :
              legacy[x].val # v /\ mirror' = Opened(x, v)
      BY Zenon DEF Mirror!Begin
    <2> HIDE DEF Opened
    <2>2. PICK v \in IF x \in Members THEN {Mirror!Off, 1} ELSE RuleEnds \cup {Mirror!Off} : mirror' = Opened(x, v)
      BY <2>1
    <2>3. x \in Views /\ v \in RuleEnds \cup {Mirror!Off} /\ (x \in Members => v \in {Mirror!Off, 1})
      BY <2>2, MirrorFacts
    <2>4. QED
      BY <2>2, <2>3
  <1> USE MirrorFacts
  <1>3. /\ mirror'[t] \in Mirror!Txn /\ mirror'[t].step = "write" /\ mirror'[t].what = x
        /\ mirror'[t].want = v /\ mirror'[t].alone = \A w \in Txns : ~Mirror!Open(w)
    BY <1>2 DEF Mirror!Idle, Mirror!Txn, Views
  <1>4. ASSUME NEW u \in Txns, u # t
        PROVE  /\ mirror'[u] \in Mirror!Txn /\ mirror'[u].step = mirror[u].step
               /\ mirror'[u].what = mirror[u].what /\ mirror'[u].want = mirror[u].want
               /\ Mirror!Open(u) => ~mirror'[u].alone
    <2>1. mirror[u] \in Mirror!Txn
      OBVIOUS
    <2>2. mirror'[u] = IF Mirror!Open(u) THEN [mirror[u] EXCEPT !.alone = FALSE] ELSE mirror[u]
      BY <1>2, <1>4
    <2>3. \A k \in Mirror!Txn :
            /\ [k EXCEPT !.alone = FALSE] \in Mirror!Txn /\ ~[k EXCEPT !.alone = FALSE].alone
            /\ [k EXCEPT !.alone = FALSE].step = k.step /\ [k EXCEPT !.alone = FALSE].what = k.what
            /\ [k EXCEPT !.alone = FALSE].want = k.want
      BY DEF Mirror!Txn
    <2>4. QED
      BY <2>1, <2>2, <2>3
  <1>5. Mirror!TypeOK'
    BY <1>1, <1>2, <1>3, <1>4 DEF Mirror!TypeOK, MirrorInv
  <1>6. AloneInv'
    BY <1>3, <1>4 DEF AloneInv, Mirror!Open
  <1>7. PairInv' /\ PersonInSync'
    BY <1>1 DEF MirrorInv, PairInv, PersonInSync, Mirror!PersonInSync
  <1>8. MirrorTxnInv(t)'
    <2>1. RowsInv(t)'
      BY <1>1, <1>3 DEF RowsInv
    <2>2. StageInv(t)' /\ CopyInv(t)' /\ TeamInv(t)'
      BY <1>2, <1>3 DEF StageInv, CopyInv, TeamInv, Views
    <2>3. QED
      BY <2>1, <2>2 DEF MirrorTxnInv
  <1>9. ASSUME NEW u \in Txns, u # t PROVE MirrorTxnInv(u)'
    <2>1. /\ mirror'[u].step = mirror[u].step
          /\ mirror'[u].what = mirror[u].what /\ mirror'[u].want = mirror[u].want
          /\ Mirror!Open(u) => ~mirror'[u].alone
      BY <1>4, <1>9
    <2>2. RowsInv(u)' /\ StageInv(u)'
      BY <1>1, <2>1 DEF RowsInv, StageInv
    <2>3. CopyInv(u)'
      <3>1. SeenEnds(u)' = SeenEnds(u)
        BY <1>1 DEF SeenEnds, Mirror!Seen
      <3>2. CopyInv(u)
        OBVIOUS
      <3>3. QED
        BY <1>1, <2>1, <3>1, <3>2 DEF CopyInv
    <2>4. TeamInv(u)'
      BY <2>1 DEF TeamInv, Mirror!Open
    <2>5. QED
      BY <2>2, <2>3, <2>4 DEF MirrorTxnInv
  <1>10. QED
    BY <1>5, <1>6, <1>7, <1>8, <1>9 DEF MirrorInv

\* The steps of the others at a commit.
LEMMA CommitOthers ==
  ASSUME MirrorInv, NEW t \in Txns, NEW u \in Txns, u # t, Mirror!Commit(t)
  PROVE  /\ mirror'[u] \in Mirror!Txn /\ mirror'[u].step = mirror[u].step
         /\ mirror'[u].what = mirror[u].what /\ mirror'[u].want = mirror[u].want
         /\ mirror'[u].alone = mirror[u].alone
  <1>1. mirror[u] \in Mirror!Txn
    BY MirrorFacts
  <1>2. PICK deleted : mirror'[u] = IF mirror[u].step = "drop" THEN [mirror[u] EXCEPT !.left = @ \ deleted]
                                                         ELSE mirror[u]
    BY DEF Mirror!Commit
  <1>3. QED
    BY <1>1, <1>2 DEF Mirror!Txn

\* What a row is after the commit of a transaction.
LEMMA KeptFacts ==
  ASSUME NEW t \in Txns
  PROVE  \A w \in Mirror!Row : /\ Mirror!Kept(t, w) \in Mirror!Row /\ Mirror!Kept(t, w).val = Mirror!Seen(t, w)
                               /\ Mirror!Kept(t, w).by # t /\ (w.by # t => Mirror!Kept(t, w) = w)
                               /\ Mirror!Kept(t, w).new \in {w.new, Mirror!Off}
                               /\ (Mirror!Kept(t, w).by # w.by => Mirror!Kept(t, w).by = NoTxn)
  <1> TAKE w \in Mirror!Row
  <1>1. /\ w.val \in RuleEnds \cup {Mirror!Off} /\ w.new \in RuleEnds \cup {Mirror!Off}
        /\ w.by \in Txns \cup {NoTxn} /\ t # NoTxn
    BY RowFacts
  <1>2. CASE w.by = t
    <2>1. Mirror!Kept(t, w) = [val |-> w.new, by |-> NoTxn, new |-> Mirror!Off] /\ Mirror!Seen(t, w) = w.new
      BY <1>2 DEF Mirror!Kept, Mirror!Seen
    <2>2. [val |-> w.new, by |-> NoTxn, new |-> Mirror!Off] \in Mirror!Row
      BY <1>1 DEF Mirror!Row
    <2>3. QED
      BY <1>1, <1>2, <2>1, <2>2
  <1>3. CASE w.by # t
    BY <1>1, <1>3 DEF Mirror!Kept, Mirror!Seen
  <1>4. QED
    BY <1>2, <1>3

\* A commit makes what the transaction saw what everybody sees.
LEMMA CommitKeepsMirror ==
  ASSUME MirrorInv, NEW t \in Txns, Mirror!Commit(t)
  PROVE  MirrorInv'
  <1> USE MirrorFacts
  <1>1. /\ mirror[t].step = "commit" /\ Mirror!Open(t)
        /\ mirror' \in [Txns -> {mirror'[u] : u \in Txns}] /\ mirror'[t] = Mirror!Idle
        /\ legacy' = [x \in Views |-> Mirror!Kept(t, legacy[x])]
        /\ member' = [m \in Members |-> Mirror!Kept(t, member[m])]
        /\ copy' = Mirror!Kept(t, copy)
    BY DEF Mirror!Commit, Mirror!Open
  <1>2. \A w \in Mirror!Row : /\ Mirror!Kept(t, w) \in Mirror!Row /\ Mirror!Kept(t, w).val = Mirror!Seen(t, w)
                              /\ Mirror!Kept(t, w).by # t /\ (w.by # t => Mirror!Kept(t, w) = w)
                              /\ Mirror!Kept(t, w).new \in {w.new, Mirror!Off}
                              /\ (Mirror!Kept(t, w).by # w.by => Mirror!Kept(t, w).by = NoTxn)
    BY KeptFacts
  <1>3. Mirror!TypeOK'
    <2>1. \A u \in Txns : mirror'[u] \in Mirror!Txn
      BY <1>1, CommitOthers
    <2>2. QED
      BY <1>1, <1>2, <2>1 DEF Mirror!TypeOK, Views
  <1>4. AloneInv'
    <2>1. ~Mirror!Open(t)'
      BY <1>1 DEF Mirror!Open
    <2>2. \A u \in Txns \ {t} : (Mirror!Open(u)' <=> Mirror!Open(u)) /\ mirror'[u].alone = mirror[u].alone
      BY CommitOthers DEF Mirror!Open
    <2>3. QED
      BY <2>1, <2>2 DEF MirrorInv, AloneInv
  <1>5. PairInv'
    <2> SUFFICES ASSUME NEW m \in Members
                 PROVE  {legacy'[m].val, legacy'[m].new, member'[m].val, member'[m].new} \subseteq {Mirror!Off, 1}
      BY DEF PairInv
    <2>1. {legacy[m].val, legacy[m].new, member[m].val, member[m].new} \subseteq {Mirror!Off, 1}
      BY DEF MirrorInv, PairInv
    <2>2. /\ legacy'[m] = Mirror!Kept(t, legacy[m]) /\ member'[m] = Mirror!Kept(t, member[m])
          /\ legacy[m] \in Mirror!Row /\ member[m] \in Mirror!Row
      BY <1>1
    <2>3. /\ legacy'[m].val \in {legacy[m].val, legacy[m].new}
          /\ legacy'[m].new \in {legacy[m].new, Mirror!Off}
          /\ member'[m].val \in {member[m].val, member[m].new}
          /\ member'[m].new \in {member[m].new, Mirror!Off}
      BY <1>2, <2>2 DEF Mirror!Seen
    <2>4. QED
      BY <2>1, <2>3
  <1>6. PersonInSync'
    <2>1. {legacy'[r].val : r \in Rules} = SeenEnds(t)
      <3>1. \A r \in Rules : legacy'[r].val = Mirror!Seen(t, legacy[r])
        BY <1>1, <1>2
      <3>2. QED
        BY <3>1 DEF SeenEnds
    <2>2. CASE mirror[t].what \in Rules
      BY <1>1, <1>2, <2>1, <2>2 DEF CopyInv, PersonInSync, Mirror!PersonInSync, Mirror!Seen
    <2>3. CASE mirror[t].what \notin Rules
      <3>1. copy.by # t /\ \A r \in Rules : legacy[r].by # t
        BY <2>3 DEF RowsInv
      <3>2. copy' = copy /\ \A r \in Rules : legacy'[r] = legacy[r]
        BY <1>1, <1>2, <3>1
      <3>3. {legacy'[r].val : r \in Rules} = {legacy[r].val : r \in Rules}
        BY <3>2
      <3>4. QED
        BY <3>2, <3>3 DEF MirrorInv, PersonInSync, Mirror!PersonInSync
    <2>4. QED
      BY <2>2, <2>3
  <1>7. MirrorTxnInv(t)'
    BY <1>1, <1>2, GoneIdle
  <1>8. ASSUME NEW u \in Txns, u # t PROVE MirrorTxnInv(u)'
    <2>1. /\ mirror'[u].step = mirror[u].step /\ mirror'[u].what = mirror[u].what
          /\ mirror'[u].want = mirror[u].want /\ mirror'[u].alone = mirror[u].alone
      BY <1>8, CommitOthers
    <2>2. RowsInv(u) /\ StageInv(u) /\ CopyInv(u) /\ u # NoTxn
      OBVIOUS
    <2>3. \A w \in Mirror!Row : Mirror!Kept(t, w).by = u => w.by = u
      BY <1>2, <2>2
    <2>4. RowsInv(u)'
      <3>1. /\ \A x \in Views : legacy'[x].by = u => legacy[x].by = u
            /\ \A m \in Members : member'[m].by = u => member[m].by = u
            /\ copy'.by = u => copy.by = u
        BY <1>1, <2>3
      <3>2. QED
        BY <2>1, <2>2, <3>1 DEF RowsInv
    <2>5. StageInv(u)'
      BY <2>1, <2>2 DEF StageInv
    <2>6. CopyInv(u)'
      <3> SUFFICES ASSUME mirror[u].what \in Rules, mirror[u].step \in {"recompute", "commit"}
                   PROVE  copy' = copy /\ SeenEnds(u)' = SeenEnds(u)
        BY <2>1, <2>2 DEF CopyInv
      <3>1. copy.by = u
        BY <2>2 DEF CopyInv
      <3>2. mirror[t].what \notin Rules
        BY <1>1, <1>8, <3>1 DEF CopyInv
      <3>3. \A r \in Rules : legacy[r].by # t
        BY <3>2 DEF RowsInv
      <3>4. copy' = copy /\ \A r \in Rules : legacy'[r] = legacy[r]
        BY <1>1, <1>2, <1>8, <3>1, <3>3
      <3>5. QED
        BY <3>4 DEF SeenEnds, Mirror!Seen
    <2>7. TeamInv(u)'
      <3>1. Mirror!Open(u) => ~mirror[u].alone
        BY <1>1, <1>8 DEF MirrorInv, AloneInv
      <3>2. QED
        BY <2>1, <3>1 DEF TeamInv, Mirror!Open
    <2>8. QED
      BY <2>4, <2>5, <2>6, <2>7 DEF MirrorTxnInv
  <1>9. QED
    BY <1>3, <1>4, <1>5, <1>6, <1>7, <1>8 DEF MirrorInv

\* MirrorInv is inductive.
LEMMA MirrorStep == MirrorInv /\ [Mirror!Next]_(Mirror!vars) => MirrorInv'
  <1> SUFFICES ASSUME MirrorInv, [Mirror!Next]_(Mirror!vars) PROVE MirrorInv'
    OBVIOUS
  <1>1. CASE UNCHANGED Mirror!vars
    <2>1. UNCHANGED <<legacy, member, copy, mirror>>
      BY <1>1 DEF Mirror!vars
    <2>2. Mirror!TypeOK' /\ AloneInv' /\ PairInv' /\ PersonInSync'
      BY <2>1 DEF MirrorInv, Mirror!TypeOK, AloneInv, Mirror!Open, PairInv, PersonInSync, Mirror!PersonInSync
    <2>3. ASSUME NEW u \in Txns PROVE MirrorTxnInv(u)'
      <3>1. MirrorTxnInv(u)
        BY DEF MirrorInv
      <3>2. RowsInv(u)' /\ StageInv(u)'
        BY <2>1, <3>1 DEF MirrorTxnInv, RowsInv, StageInv
      <3>3. SeenEnds(u)' = SeenEnds(u) /\ \A m \in Members : Wanted(u, m)' = Wanted(u, m) /\ There(u, m)' = There(u, m)
        BY <2>1 DEF SeenEnds, Wanted, There, Mirror!Seen
      <3>4. CopyInv(u)' /\ TeamInv(u)'
        BY <2>1, <3>1, <3>3 DEF MirrorTxnInv, CopyInv, TeamInv
      <3>5. QED
        BY <3>2, <3>4 DEF MirrorTxnInv
    <2>4. QED
      BY <2>2, <2>3 DEF MirrorInv
  <1>2. CASE Mirror!Next
    BY <1>2, BeginKeepsMirror, WriteKeepsMirror, StatementKeepsMirror, VisitKeepsMirror, PrincipalKeepsMirror,
       CommitKeepsMirror, RollbackKeepsMirror DEF Mirror!Next
  <1>3. QED
    BY <1>1, <1>2

(***************************************************************************)
(* AccessMirror: the theorems.                                             *)
(***************************************************************************)
\* MirrorInv holds in every reachable state of AccessMirror.
THEOREM MirrorInvariance == Mirror!Spec => []MirrorInv
  BY MirrorInit, MirrorStep, PTL DEF Mirror!Spec

\* However many admins change the rules of one person at once, the copy ends when
\* the last enabled rule does, for any rules, dates and transactions.
THEOREM CopyFollowsTheRules == Mirror!Spec => []PersonInSync
  <1>1. MirrorInv => PersonInSync
    BY DEF MirrorInv
  <1>2. QED
    BY <1>1, MirrorInvariance, PTL

\* Only a commit changes what is committed.
LEMMA OnlyCommitCounts ==
  ASSUME MirrorInv, [Mirror!Next]_(Mirror!vars), NEW x \in Views, legacy'[x].val # legacy[x].val
  PROVE  \E t \in Txns : Mirror!Commit(t)
  <1> USE MirrorFacts
  <1>1. PICK t \in Txns : Mirror!Write(t) \/ Mirror!Commit(t) \/ Mirror!Rollback(t)
    BY DEF Mirror!Next, Mirror!vars, Mirror!Begin, Mirror!Delete, Mirror!Insert, Mirror!Statement, Mirror!Visit,
       Mirror!Mirrored, Mirror!LockPrincipal, Mirror!Recompute
  <1>2. CASE Mirror!Write(t)
    <2>1. legacy' = [legacy EXCEPT ![mirror[t].what] = Mirror!Wrote(t, @, mirror[t].want)] \/ legacy' = legacy
      BY <1>2 DEF Mirror!Write
    <2>2. Mirror!Wrote(t, legacy[x], mirror[t].want).val = legacy[x].val
      BY RowFacts
    <2>3. QED
      BY <2>1, <2>2
  <1>3. CASE Mirror!Rollback(t)
    <2>1. legacy'[x] = Mirror!Undone(t, legacy[x])
      BY <1>3 DEF Mirror!Rollback
    <2>2. QED
      BY <2>1, RowFacts
  <1>4. QED
    BY <1>1, <1>2, <1>3

\* A transaction that no other has overlapped leaves the team in step, whatever had
\* gone wrong before, for any members and transactions (mirror_team).
THEOREM TeamsHeal == Mirror!Spec => TeamHeals
  <1> DEFINE Heals ==
        \A t \in Txns :
          mirror[t].step = "commit" /\ mirror[t].what \in Members /\ mirror[t].alone
          /\ legacy'[mirror[t].what].val # legacy[mirror[t].what].val
            => \A m \in Members : member'[m].val = legacy'[m].val
  <1>1. ASSUME MirrorInv, [Mirror!Next]_(Mirror!vars) PROVE Heals
    <2> SUFFICES ASSUME NEW t \in Txns, NEW m \in Members,
                        mirror[t].step = "commit", mirror[t].what \in Members, mirror[t].alone,
                        legacy'[mirror[t].what].val # legacy[mirror[t].what].val
                 PROVE  member'[m].val = legacy'[m].val
      OBVIOUS
    <2>1. PICK u \in Txns : Mirror!Commit(u)
      BY <1>1, OnlyCommitCounts DEF Views
    <2>2. u = t
      BY <1>1, <2>1 DEF MirrorInv, AloneInv, Mirror!Open, Mirror!Commit
    <2>3. legacy[m] \in Mirror!Row /\ member[m] \in Mirror!Row /\ m \in Views
      BY <1>1, MirrorFacts DEF Views
    <2>4. legacy'[m] = Mirror!Kept(t, legacy[m]) /\ member'[m] = Mirror!Kept(t, member[m])
      BY <1>1, <2>1, <2>2, <2>3, MirrorFacts DEF Mirror!Commit
    <2>5. legacy'[m].val = Mirror!Seen(t, legacy[m]) /\ member'[m].val = Mirror!Seen(t, member[m])
      BY <2>3, <2>4, RowFacts
    <2>6. Wanted(t, m) <=> There(t, m)
      BY <1>1, MirrorFacts DEF TeamInv
    <2>7. Mirror!Seen(t, legacy[m]) \in {Mirror!Off, 1} /\ Mirror!Seen(t, member[m]) \in {Mirror!Off, 1}
      BY <1>1 DEF MirrorInv, PairInv, Mirror!Seen
    <2>8. QED
      BY <2>5, <2>6, <2>7 DEF Wanted, There
  <1>2. MirrorInv /\ [Mirror!Next]_(Mirror!vars) => [Heals]_(Mirror!vars)
    BY <1>1
  <1>3. QED
    BY <1>2, MirrorInvariance, PTL DEF Mirror!Spec, TeamHeals, Mirror!TeamHeals

(***************************************************************************)
(* The composition: one part moves, and each behaves as it does alone.     *)
(***************************************************************************)
\* What holds of a part holds in the composition.
LEMMA PartsBehave == MCSpec => Spec /\ Mirror!Spec
  <1>1. MCInit => Init /\ Mirror!Init
    BY DEF MCInit
  <1>2. [MCNext]_<<part, vars, mirrorVars>> => [Next]_vars
    BY DEF MCNext
  <1>3. [MCNext]_<<part, vars, mirrorVars>> => [Mirror!Next]_(Mirror!vars)
    BY DEF MCNext, mirrorVars, Mirror!vars
  <1>4. QED
    BY <1>1, <1>2, <1>3, PTL DEF MCSpec, Spec, Mirror!Spec

\* Every reachable state of the two parts has the declared types.
THEOREM AccessTyped == MCSpec => []TypesOK
  <1>1. MirrorInv => Mirror!TypeOK
    BY DEF MirrorInv
  <1>2. TypeOK /\ Mirror!TypeOK => TypesOK
    BY DEF TypesOK
  <1>3. QED
    BY <1>1, <1>2, PartsBehave, TypeCorrect, MirrorInvariance, PTL

\* What the run of the composition checks of its parts holds of the composition for
\* any values of the constants. The warnings are stated apart, above: they need that
\* the threshold is not zero.
THEOREM AccessSafe ==
  MCSpec => ImplementsEntitlement /\ []PersonInSync /\ TeamHeals
  BY PartsBehave, DecidesAsPromised, CopyFollowsTheRules, TeamsHeal
=============================================================================
