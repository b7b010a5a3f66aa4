--------------------------- MODULE AutoApproveProofs ---------------------------
(***************************************************************************)
(* Theorems about AutoApprove, for any windows, waivers, admins, requests  *)
(* and days.                                                               *)
(*                                                                         *)
(* A waiver written for a window is its decider's alone until it commits,  *)
(* and commits only while the window waits, so that a second decider finds *)
(* the window decided.  A waiver that was ever in force is remembered, so  *)
(* that what it covered once stays covered by it.                          *)
(***************************************************************************)
EXTENDS AutoApprove, TLAPS, FiniteSetTheorems

(***************************************************************************)
(* The inductive invariant.                                                *)
(***************************************************************************)
\* Waivers that were in force once.
Made  == {"on", "off", "gone"}
Of(w) == {g \in Waivers : waiver[g].of = w /\ waiver[g].state \in Made}

Covered(tier, at) ==
  \E g \in Waivers : /\ waiver[g].state \in Made /\ waiver[g].tier >= tier
                     /\ waiver[g].from <= at /\ waiver[g].until > at

\* The transactions of the deciders: each has one row at most.
TxnInv ==
  /\ \A g \in Waivers :
       /\ waiver[g].state # "written" => waiver[g].by = NoDecider
       /\ waiver[g].state = "written" =>
            /\ waiver[g].by \in Deciders
            /\ decider[waiver[g].by].step = "written" /\ decider[waiver[g].by].of = waiver[g].of
  /\ \A g, h \in Waivers : waiver[g].by \in Deciders /\ waiver[g].by = waiver[h].by => g = h
  /\ \A d \in Deciders :
       /\ decider[d].step # "idle" => decider[d].of \in Windows
       /\ decider[d].step = "written" => \E g \in Waivers : waiver[g].by = d

\* A window and its waiver.
WindowInv ==
  /\ \A w \in Windows : \A g, h \in Of(w) : g = h
  /\ \A w \in Windows : window[w].status = "approved" <=> Of(w) # {}

\* A read that somebody, or a waiver, let run.
Origin == \E q \in Requests : /\ request[q].basis \in {"person", "waiver"}
                              /\ request[q].tier = 0 /\ request[q].step = "completed"

ReasonInv(k) ==
  /\ k.due >= k.at
  /\ k.step = "asked" /\ k.basis = "waiver" => Covered(k.tier, k.at)
  /\ k.step \in {"approved", "completed"} =>
       /\ k.basis # "none"
       /\ k.basis = "waiver" => Covered(k.tier, k.at) /\ Covered(k.tier, k.due)
       /\ k.basis = "cache" => k.tier = 0 /\ Origin

IInv ==
  /\ TypeOK
  /\ TxnInv
  /\ WindowInv
  /\ \A r \in Requests : ReasonInv(request[r])

(***************************************************************************)
(* Lemmas about the constants and the frames of the actions.               *)
(***************************************************************************)
LEMMA ConstantFacts ==
  /\ NoWindow \notin Windows /\ NoDecider \notin Deciders
  /\ MaxLength \in Nat /\ MaxDay \in Nat /\ MaxActs \in Nat /\ Ttl \in Nat
  /\ 0 \in Days /\ 0 \in Ends /\ 0 \in Levels /\ 1 \in Levels
  /\ Days \subseteq Nat /\ Ends \subseteq Nat /\ Levels \subseteq Nat /\ Days \subseteq Ends
  /\ \A n \in Days : n + MaxLength \in Ends
  BY AutoApproveAssumption DEF Days, Ends, Levels

LEMMA RowFacts ==
  /\ Unwritten \in Waiver /\ Unwritten.state = "none" /\ Unwritten.by = NoDecider
  /\ Unwritten.of = NoWindow
  /\ Free \in Decider /\ Free.step = "idle"
  BY ConstantFacts DEF Unwritten, Waiver, Free, Decider

\* No waiver that was in force is forgotten or changes what it covers.
Kept == \A g \in Waivers : waiver[g].state \in Made =>
          /\ waiver'[g].state \in Made /\ waiver'[g].tier = waiver[g].tier
          /\ waiver'[g].from = waiver[g].from /\ waiver'[g].until = waiver[g].until

LEMMA ReasonsKept ==
  ASSUME IInv, Kept, UNCHANGED request
  PROVE  \A r \in Requests : ReasonInv(request[r])'
<1>1. ASSUME NEW tier, NEW at, Covered(tier, at) PROVE Covered(tier, at)'
  BY <1>1 DEF Covered, Kept
<1>2. Origin <=> Origin'
  BY DEF Origin
<1>3. ASSUME NEW r \in Requests PROVE ReasonInv(request[r])'
  <2>1. PICK k : k = request[r]
    OBVIOUS
  <2>2. ReasonInv(k)
    BY <2>1 DEF IInv
  <2>3. ReasonInv(k)'
    BY <1>1, <1>2, <2>2 DEF ReasonInv
  <2>4. QED
    BY <2>1, <2>3
<1>4. QED
  BY <1>3

LEMMA WindowsKept ==
  ASSUME WindowInv, \A w \in Windows : Of(w)' = Of(w),
         \A w \in Windows : window'[w].status = "approved" <=> window[w].status = "approved"
  PROVE  WindowInv'
  BY DEF WindowInv

LEMMA InitInv == Init => IInv
<1> SUFFICES ASSUME Init PROVE IInv
  OBVIOUS
<1>1. TypeOK
  BY ConstantFacts, RowFacts DEF Init, TypeOK, Window, Request
<1>2. \A g \in Waivers : waiver[g].state = "none" /\ waiver[g].by = NoDecider
  BY RowFacts DEF Init
<1>3. \A w \in Windows : Of(w) = {} /\ window[w].status = "none"
  BY <1>2 DEF Of, Made, Init
<1>4. TxnInv
  BY <1>2, ConstantFacts, RowFacts DEF TxnInv, Init
<1>5. \A r \in Requests : ReasonInv(request[r])
  BY DEF Init, ReasonInv
<1>6. QED
  BY <1>1, <1>3, <1>4, <1>5 DEF IInv, WindowInv

(***************************************************************************)
(* Windows.                                                                *)
(***************************************************************************)
\* A window that is not approved becomes another that is not.
LEMMA WindowMoves ==
  ASSUME IInv, NEW w \in Windows, NEW v \in Window, window' = [window EXCEPT ![w] = v],
         window[w].status # "approved", v.status # "approved",
         UNCHANGED <<waiver, decider, request, held, rwOn, day, acts>>
  PROVE  IInv'
<1>1. TypeOK'
  BY DEF IInv, TypeOK
<1>2. TxnInv'
  BY DEF IInv, TxnInv
<1>3. \A x \in Windows : window'[x].status = "approved" <=> window[x].status = "approved"
  BY DEF IInv, TypeOK
<1>4. WindowInv'
  BY <1>3, WindowsKept DEF IInv, Of
<1>5. \A r \in Requests : ReasonInv(request[r])'
  BY ReasonsKept DEF Kept
<1>6. QED
  BY <1>1, <1>2, <1>4, <1>5 DEF IInv

LEMMA AskWindowInv ==
  ASSUME IInv, NEW w \in Windows, NEW tier \in Levels, AskWindow(w, tier)
  PROVE  IInv'
<1>1. PICK v \in Window : v = [status |-> "pending", tier |-> tier] /\ v.status = "pending"
  <2>1. [status |-> "pending", tier |-> tier] \in Window
    BY DEF Window
  <2>2. QED
    BY <2>1
<1>2. QED
  BY <1>1, WindowMoves DEF AskWindow

LEMMA CloseInv ==
  ASSUME IInv, NEW w \in Windows, NEW status \in {"rejected", "withdrawn"},
         Close(w, status)
  PROVE  IInv'
<1>1. window[w] \in Window
  BY DEF IInv, TypeOK
<1>2. PICK v \in Window : v = [window[w] EXCEPT !.status = status] /\ v.status = status
  <2>1. [window[w] EXCEPT !.status = status] \in Window
    BY <1>1 DEF Window
  <2>2. [window[w] EXCEPT !.status = status].status = status
    BY <1>1 DEF Window
  <2>3. QED
    BY <2>1, <2>2
<1>3. window' = [window EXCEPT ![w] = v]
  BY <1>2 DEF Close
<1>4. QED
  BY <1>2, <1>3, WindowMoves DEF Close

LEMMA CheckWindowInv ==
  ASSUME IInv, NEW d \in Deciders, NEW w \in Windows, CheckWindow(d, w)
  PROVE  IInv'
<1>1. PICK c \in Decider : c = [step |-> "checked", of |-> w] /\ c.step = "checked" /\ c.of = w
  <2>1. [step |-> "checked", of |-> w] \in Decider
    BY DEF Decider
  <2>2. QED
    BY <2>1
<1>2. /\ decider[d].step = "idle" /\ decider' = [decider EXCEPT ![d] = c]
      /\ UNCHANGED <<window, waiver, request, held, rwOn, day, acts>>
  BY <1>1 DEF CheckWindow
<1>3. TypeOK' /\ \A x \in Deciders : decider'[x] = IF x = d THEN c ELSE decider[x]
  BY <1>2 DEF IInv, TypeOK
<1>4. TxnInv'
  BY <1>1, <1>2, <1>3 DEF IInv, TxnInv
<1>5. WindowInv'
  BY <1>2, WindowsKept DEF IInv, Of
<1>6. \A r \in Requests : ReasonInv(request[r])'
  BY <1>2, ReasonsKept DEF Kept
<1>7. QED
  BY <1>3, <1>4, <1>5, <1>6 DEF IInv

LEMMA WriteWaiverInv ==
  ASSUME IInv, NEW d \in Deciders, NEW g \in Waivers, WriteWaiver(d, g)
  PROVE  IInv'
<1>0. /\ decider[d] \in Decider /\ decider[d].step = "checked" /\ waiver[g].state = "none"
      /\ UNCHANGED <<window, request, held, rwOn, day, acts>>
  BY DEF WriteWaiver, IInv, TypeOK
<1>1. PICK w \in Windows : w = decider[d].of
  BY <1>0 DEF IInv, TxnInv
<1>2. PICK v \in Waiver : /\ v = [state |-> "written", by |-> d, of |-> w, tier |-> window[w].tier,
                                  from |-> day, until |-> day + MaxLength]
                          /\ v.state = "written" /\ v.by = d /\ v.of = w
  <2>1. window[w].tier \in Levels /\ day \in Days /\ day + MaxLength \in Ends
    BY ConstantFacts DEF IInv, TypeOK, Window
  <2>2. [state |-> "written", by |-> d, of |-> w, tier |-> window[w].tier,
         from |-> day, until |-> day + MaxLength] \in Waiver
    BY <2>1 DEF Waiver
  <2>3. QED
    BY <2>2
<1>3. PICK c \in Decider : c = [decider[d] EXCEPT !.step = "written"] /\ c.step = "written" /\ c.of = w
  <2>1. [decider[d] EXCEPT !.step = "written"] \in Decider
    BY <1>0 DEF Decider
  <2>2. [decider[d] EXCEPT !.step = "written"].step = "written"
        /\ [decider[d] EXCEPT !.step = "written"].of = decider[d].of
    BY <1>0 DEF Decider
  <2>3. QED
    BY <1>1, <2>1, <2>2
<1>4. waiver' = [waiver EXCEPT ![g] = v] /\ decider' = [decider EXCEPT ![d] = c]
  BY <1>1, <1>2, <1>3 DEF WriteWaiver
<1>5. /\ TypeOK'
      /\ \A h \in Waivers : waiver'[h] = IF h = g THEN v ELSE waiver[h]
      /\ \A x \in Deciders : decider'[x] = IF x = d THEN c ELSE decider[x]
  BY <1>0, <1>4 DEF IInv, TypeOK
<1>6. \A h \in Waivers : waiver[h].by # d
  BY <1>0, ConstantFacts DEF IInv, TxnInv
<1>7. TxnInv'
  <2>1. ASSUME NEW h \in Waivers
        PROVE  /\ waiver'[h].state # "written" => waiver'[h].by = NoDecider
               /\ waiver'[h].state = "written" =>
                    /\ waiver'[h].by \in Deciders
                    /\ decider'[waiver'[h].by].step = "written"
                    /\ decider'[waiver'[h].by].of = waiver'[h].of
    <3>1. CASE h = g
      BY <1>2, <1>3, <1>5, <3>1
    <3>2. CASE h # g
      BY <1>5, <1>6, <3>2 DEF IInv, TxnInv
    <3>3. QED
      BY <3>1, <3>2
  <2>2. \A h, i \in Waivers : waiver'[h].by \in Deciders /\ waiver'[h].by = waiver'[i].by => h = i
    BY <1>2, <1>5, <1>6 DEF IInv, TxnInv
  <2>3. ASSUME NEW x \in Deciders
        PROVE  /\ decider'[x].step # "idle" => decider'[x].of \in Windows
               /\ decider'[x].step = "written" => \E h \in Waivers : waiver'[h].by = x
    <3>1. CASE x = d
      BY <1>2, <1>3, <1>5, <3>1
    <3>2. CASE x # d
      <4>1. waiver[g].by \notin Deciders
        BY <1>0, ConstantFacts DEF IInv, TxnInv
      <4>2. decider'[x] = decider[x] /\ \A h \in Waivers : waiver[h].by = x => waiver'[h].by = x
        BY <1>5, <3>2, <4>1
      <4>3. QED
        BY <4>2 DEF IInv, TxnInv
    <3>3. QED
      BY <3>1, <3>2
  <2>4. QED
    BY <2>1, <2>2, <2>3 DEF TxnInv
<1>8. \A x \in Windows : Of(x)' = Of(x)
  BY <1>0, <1>2, <1>5 DEF Of, Made
<1>9. WindowInv'
  BY <1>0, <1>8, WindowsKept DEF IInv
<1>10. \A r \in Requests : ReasonInv(request[r])'
  BY <1>0, <1>5, ReasonsKept DEF Kept, Made
<1>11. QED
  BY <1>5, <1>7, <1>9, <1>10 DEF IInv

\* The transaction of d ends without its row.
LEMMA RolledBackInv ==
  ASSUME IInv, NEW d \in Deciders, waiver' = RolledBack(d),
         decider' = [decider EXCEPT ![d] = Free], UNCHANGED <<window, request, held, rwOn, day, acts>>
  PROVE  IInv'
<1>1. \A g \in Waivers : waiver'[g] = IF waiver[g].by = d THEN Unwritten ELSE waiver[g]
  BY DEF RolledBack
<1>2. waiver' \in [Waivers -> Waiver]
  BY RowFacts DEF RolledBack, IInv, TypeOK
<1>3. TypeOK' /\ \A x \in Deciders : decider'[x] = IF x = d THEN Free ELSE decider[x]
  BY <1>2, RowFacts DEF IInv, TypeOK
<1>4. \A g \in Waivers : waiver[g].by = d => waiver[g].state = "written"
  BY ConstantFacts DEF IInv, TxnInv
<1>5. TxnInv'
  BY <1>1, <1>3, RowFacts, ConstantFacts DEF IInv, TxnInv
<1>6. \A x \in Windows : Of(x)' = Of(x)
  BY <1>1, <1>4, RowFacts DEF Of, Made
<1>7. WindowInv'
  BY <1>6, WindowsKept DEF IInv
<1>8. \A r \in Requests : ReasonInv(request[r])'
  BY <1>1, <1>4, ReasonsKept DEF Kept, Made
<1>9. QED
  BY <1>3, <1>5, <1>7, <1>8 DEF IInv

\* The transaction of d commits: its row comes into force and its window, which
\* waited, is approved.
LEMMA CommittedInv ==
  ASSUME IInv, NEW d \in Deciders, MarkWindow(d),
         window[decider[d].of].status = "pending"
  PROVE  IInv'
<1>0. /\ decider[d].step = "written"
      /\ waiver' = Committed(d) /\ decider' = [decider EXCEPT ![d] = Free]
      /\ UNCHANGED <<request, held, rwOn, day, acts>>
  BY DEF MarkWindow
<1>1. PICK w \in Windows : w = decider[d].of /\ window[w].status = "pending"
  BY <1>0 DEF IInv, TxnInv
<1>2. PICK g \in Waivers : /\ waiver[g].by = d /\ waiver[g].state = "written" /\ waiver[g].of = w
                           /\ \A h \in Waivers : waiver[h].by = d => h = g
  BY <1>0, <1>1, ConstantFacts DEF IInv, TxnInv
<1>3. waiver[g] \in Waiver /\ window[w] \in Window
  BY DEF IInv, TypeOK
<1>4. PICK v \in Waiver : /\ v = [waiver[g] EXCEPT !.state = "on", !.by = NoDecider]
                          /\ v.state = "on" /\ v.by = NoDecider /\ v.of = w
  <2> DEFINE v == [waiver[g] EXCEPT !.state = "on", !.by = NoDecider]
  <2>1. v \in Waiver
    BY <1>3 DEF Waiver
  <2>2. v.state = "on" /\ v.by = NoDecider /\ v.of = waiver[g].of
    BY <1>3 DEF Waiver
  <2> HIDE DEF v
  <2>3. QED
    BY <1>2, <2>1, <2>2 DEF v
<1>5. \A h \in Waivers : waiver'[h] = IF h = g THEN v ELSE waiver[h]
  BY <1>0, <1>2, <1>4 DEF Committed
<1>6. PICK u \in Window : u = [window[w] EXCEPT !.status = "approved"] /\ u.status = "approved"
  <2>1. [window[w] EXCEPT !.status = "approved"] \in Window
    BY <1>3 DEF Window
  <2>2. [window[w] EXCEPT !.status = "approved"].status = "approved"
    BY <1>3 DEF Window
  <2>3. QED
    BY <2>1, <2>2
<1>7. window' = [window EXCEPT ![w] = u]
  BY <1>1, <1>6 DEF MarkWindow
<1>8. /\ \A x \in Windows : window'[x] = IF x = w THEN u ELSE window[x]
      /\ \A x \in Deciders : decider'[x] = IF x = d THEN Free ELSE decider[x]
  BY <1>0, <1>7 DEF IInv, TypeOK
<1>9. TypeOK'
  <2>1. waiver' \in [Waivers -> Waiver]
    <3>1. waiver' = [h \in Waivers |-> waiver'[h]]
      BY <1>0 DEF Committed
    <3>2. \A h \in Waivers : waiver'[h] \in Waiver
      BY <1>5 DEF IInv, TypeOK
    <3>3. QED
      BY <3>1, <3>2
  <2>2. QED
    BY <1>0, <1>7, <2>1, RowFacts DEF IInv, TypeOK
<1>10. TxnInv'
  <2>1. ASSUME NEW h \in Waivers
        PROVE  /\ waiver'[h].state # "written" => waiver'[h].by = NoDecider
               /\ waiver'[h].state = "written" =>
                    /\ waiver'[h].by \in Deciders
                    /\ decider'[waiver'[h].by].step = "written"
                    /\ decider'[waiver'[h].by].of = waiver'[h].of
    <3>1. CASE h = g
      BY <1>4, <1>5, <3>1
    <3>2. CASE h # g
      <4>1. waiver'[h] = waiver[h] /\ waiver[h].by # d
        BY <1>2, <1>5, <3>2
      <4>2. QED
        BY <1>8, <4>1 DEF IInv, TxnInv
    <3>3. QED
      BY <3>1, <3>2
  <2>2. \A h, i \in Waivers : waiver'[h].by \in Deciders /\ waiver'[h].by = waiver'[i].by => h = i
    <3>1. \A h \in Waivers : waiver'[h].by \in Deciders => waiver'[h] = waiver[h]
      BY <1>4, <1>5, ConstantFacts
    <3>2. \A h, i \in Waivers : waiver[h].by \in Deciders /\ waiver[h].by = waiver[i].by => h = i
      BY DEF IInv, TxnInv
    <3>3. ASSUME NEW h \in Waivers, NEW i \in Waivers, waiver'[h].by \in Deciders, waiver'[h].by = waiver'[i].by
          PROVE  h = i
      <4>1. waiver'[h] = waiver[h] /\ waiver'[i] = waiver[i]
        BY <3>1, <3>3
      <4>2. QED
        BY <3>2, <3>3, <4>1
    <3>4. QED
      BY <3>3
  <2>3. ASSUME NEW x \in Deciders
        PROVE  /\ decider'[x].step # "idle" => decider'[x].of \in Windows
               /\ decider'[x].step = "written" => \E h \in Waivers : waiver'[h].by = x
    <3>1. CASE x = d
      BY <1>8, <3>1, RowFacts
    <3>2. CASE x # d
      <4>1. decider'[x] = decider[x] /\ \A h \in Waivers : waiver[h].by = x => waiver'[h].by = x
        BY <1>2, <1>5, <1>8, <3>2
      <4>2. QED
        BY <4>1 DEF IInv, TxnInv
    <3>3. QED
      BY <3>1, <3>2
  <2>4. QED
    BY <2>1, <2>2, <2>3 DEF TxnInv
<1>11. Of(w) = {} /\ Of(w)' = {g} /\ \A x \in Windows \ {w} : Of(x)' = Of(x)
  <2>1. Of(w) = {}
    BY <1>1 DEF IInv, WindowInv
  <2>2. Of(w)' = {g}
    BY <1>4, <1>5, <2>1 DEF Of, Made
  <2>3. \A x \in Windows \ {w} : Of(x)' = Of(x)
    BY <1>2, <1>4, <1>5 DEF Of, Made
  <2>4. QED
    BY <2>1, <2>2, <2>3
<1>12. WindowInv'
  <2>1. ASSUME NEW x \in Windows
        PROVE  /\ \A h, i \in Of(x)' : h = i
               /\ window'[x].status = "approved" <=> Of(x)' # {}
    <3>1. CASE x = w
      BY <1>6, <1>8, <1>11, <3>1
    <3>2. CASE x # w
      <4>1. Of(x)' = Of(x) /\ window'[x] = window[x]
        BY <1>8, <1>11, <3>2
      <4>2. (\A h, i \in Of(x) : h = i) /\ (window[x].status = "approved" <=> Of(x) # {})
        BY DEF IInv, WindowInv
      <4>3. QED
        BY <4>1, <4>2
    <3>3. QED
      BY <3>1, <3>2
  <2>2. QED
    BY <2>1 DEF WindowInv
<1>13. \A r \in Requests : ReasonInv(request[r])'
  BY <1>0, <1>2, <1>5, ReasonsKept DEF Kept, Made
<1>14. QED
  BY <1>9, <1>10, <1>12, <1>13 DEF IInv

LEMMA MarkWindowInv ==
  ASSUME IInv, NEW d \in Deciders, MarkWindow(d)
  PROVE  IInv'
<1>1. CASE window[decider[d].of].status = "pending"
  BY <1>1, CommittedInv
<1>2. CASE window[decider[d].of].status # "pending"
  <2>1. /\ waiver' = RolledBack(d) /\ decider' = [decider EXCEPT ![d] = Free]
        /\ UNCHANGED <<window, request, held, rwOn, day, acts>>
    BY <1>2 DEF MarkWindow
  <2>2. QED
    BY <2>1, RolledBackInv
<1>3. QED
  BY <1>1, <1>2

(***************************************************************************)
(* What admins change.                                                     *)
(***************************************************************************)
\* A rule appears, or one that is in force, or waits, changes its state only.
LEMMA RuleMoves ==
  ASSUME IInv, Act, UNCHANGED <<held, rwOn>>, NEW g \in Waivers, NEW v \in Waiver,
         waiver' = [waiver EXCEPT ![g] = v], v.state \in Made, v.by = NoDecider,
         waiver[g].state = "none" => v.of = NoWindow,
         waiver[g].state # "none" => /\ waiver[g].state \in Made /\ v.of = waiver[g].of
                                     /\ v.tier = waiver[g].tier /\ v.from = waiver[g].from
                                     /\ v.until = waiver[g].until
  PROVE  IInv'
<1>1. UNCHANGED <<window, decider, request, day>> /\ acts' \in 0 .. MaxActs
  BY ConstantFacts DEF Act, IInv, TypeOK
<1>2. TypeOK' /\ \A h \in Waivers : waiver'[h] = IF h = g THEN v ELSE waiver[h]
  BY <1>1 DEF IInv, TypeOK
<1>3. waiver[g].state # "written"
  BY DEF Made
<1>4. TxnInv'
  BY <1>1, <1>2, <1>3, ConstantFacts DEF IInv, TxnInv, Made
<1>5. \A x \in Windows : Of(x)' = Of(x)
  <2>1. waiver[g].state = "none" => v.of \notin Windows /\ waiver[g].state \notin Made
    BY ConstantFacts DEF Made
  <2>2. QED
    BY <1>2, <2>1 DEF Of
<1>6. WindowInv'
  BY <1>1, <1>5, WindowsKept DEF IInv
<1>7. Kept
  BY <1>2 DEF Kept, Made
<1>8. \A r \in Requests : ReasonInv(request[r])'
  BY <1>1, <1>7, ReasonsKept
<1>9. QED
  BY <1>2, <1>4, <1>6, <1>8 DEF IInv

LEMMA CreateRuleInv ==
  ASSUME IInv, NEW g \in Waivers, NEW tier \in Levels, NEW until \in Ends,
         CreateRule(g, tier, until)
  PROVE  IInv'
<1>1. Act /\ UNCHANGED <<held, rwOn>> /\ waiver[g].state = "none" /\ day \in Days
  BY DEF CreateRule, IInv, TypeOK
<1>2. PICK v \in Waiver : /\ v = [Unwritten EXCEPT !.state = "on", !.tier = tier, !.from = day, !.until = until]
                          /\ v.state = "on" /\ v.by = NoDecider /\ v.of = NoWindow
  <2> DEFINE v == [Unwritten EXCEPT !.state = "on", !.tier = tier, !.from = day, !.until = until]
  <2>1. v \in Waiver
    BY <1>1, RowFacts DEF Waiver
  <2>2. v.state = "on" /\ v.by = NoDecider /\ v.of = NoWindow
    BY DEF Unwritten
  <2> HIDE DEF v
  <2>3. QED
    BY <2>1, <2>2 DEF v
<1>3. waiver' = [waiver EXCEPT ![g] = v]
  BY <1>2 DEF CreateRule
<1>4. QED
  BY <1>1, <1>2, <1>3, RuleMoves DEF Made

\* A rule changes its state.
LEMMA RuleState ==
  ASSUME IInv, Act, UNCHANGED <<held, rwOn>>, NEW g \in Waivers,
         NEW state \in Made, waiver[g].state \in {"on", "off"},
         waiver' = [waiver EXCEPT ![g] = [waiver[g] EXCEPT !.state = state]]
  PROVE  IInv'
<1>1. waiver[g] \in Waiver
  BY DEF IInv, TypeOK
<1>2. waiver[g].by = NoDecider
  BY DEF IInv, TxnInv
<1>3. PICK v \in Waiver : /\ v = [waiver[g] EXCEPT !.state = state]
                          /\ v.state = state /\ v.by = waiver[g].by /\ v.of = waiver[g].of
                          /\ v.tier = waiver[g].tier /\ v.from = waiver[g].from /\ v.until = waiver[g].until
  <2> DEFINE v == [waiver[g] EXCEPT !.state = state]
  <2>1. v \in Waiver
    BY <1>1 DEF Waiver, Made
  <2>2. /\ v.state = state /\ v.by = waiver[g].by /\ v.of = waiver[g].of
        /\ v.tier = waiver[g].tier /\ v.from = waiver[g].from /\ v.until = waiver[g].until
    BY <1>1 DEF Waiver
  <2> HIDE DEF v
  <2>3. QED
    BY <2>1, <2>2 DEF v
<1>4. waiver' = [waiver EXCEPT ![g] = v]
  BY <1>3
<1>5. waiver[g].state \in Made
  BY DEF Made
<1>6. QED
  BY <1>2, <1>3, <1>4, <1>5, RuleMoves DEF Made

LEMMA SwitchRuleInv ==
  ASSUME IInv, NEW g \in Waivers, SwitchRule(g)
  PROVE  IInv'
<1>1. PICK state \in Made : state = IF waiver[g].state = "on" THEN "off" ELSE "on"
  BY DEF Made
<1>2. QED
  BY <1>1, RuleState DEF SwitchRule

LEMMA DeleteRuleInv ==
  ASSUME IInv, NEW g \in Waivers, DeleteRule(g)
  PROVE  IInv'
<1>1. "gone" \in Made
  BY DEF Made
<1>2. QED
  BY <1>1, RuleState DEF DeleteRule

\* What changes nothing but the access, the switch or the day.
LEMMA AroundInv ==
  ASSUME IInv, TypeOK', UNCHANGED <<window, waiver, decider, request>>
  PROVE  IInv'
<1>1. TxnInv' /\ WindowInv'
  BY DEF IInv, TxnInv, WindowInv, Of
<1>2. \A r \in Requests : ReasonInv(request[r])'
  BY ReasonsKept DEF Kept
<1>3. QED
  BY <1>1, <1>2 DEF IInv

LEMMA ElsewhereInv ==
  ASSUME IInv, ChangeAccess \/ SwitchRw \/ Tick
  PROVE  IInv'
<1>1. UNCHANGED <<window, waiver, decider, request>>
  BY DEF ChangeAccess, SwitchRw, Tick, Act
<1>2. held' \in Levels
  BY DEF ChangeAccess, SwitchRw, Tick, IInv, TypeOK, Levels
<1>3. rwOn' \in BOOLEAN
  BY DEF ChangeAccess, SwitchRw, Tick, IInv, TypeOK
<1>4. day' \in Days
  BY ConstantFacts DEF ChangeAccess, SwitchRw, Tick, Act, IInv, TypeOK, Days
<1>5. acts' \in 0 .. MaxActs
  BY ConstantFacts DEF ChangeAccess, SwitchRw, Tick, Act, IInv, TypeOK
<1>6. TypeOK'
  BY <1>1, <1>2, <1>3, <1>4, <1>5 DEF IInv, TypeOK
<1>7. QED
  BY <1>1, <1>6, AroundInv

(***************************************************************************)
(* Requests.                                                               *)
(***************************************************************************)
\* Request r, which has not completed, becomes k.
LEMMA RequestMoves ==
  ASSUME IInv, NEW r \in Requests, NEW k \in Request, request[r].step # "completed", ReasonInv(k),
         request' = [request EXCEPT ![r] = k],
         UNCHANGED <<window, waiver, decider, held, rwOn, day, acts>>
  PROVE  IInv'
<1>1. TypeOK' /\ \A q \in Requests : request'[q] = IF q = r THEN k ELSE request[q]
  BY DEF IInv, TypeOK
<1>2. TxnInv' /\ WindowInv'
  BY DEF IInv, TxnInv, WindowInv, Of
<1>3. Origin => Origin'
  BY <1>1 DEF Origin
<1>4. ASSUME NEW x, ReasonInv(x) PROVE ReasonInv(x)'
  BY <1>3, <1>4 DEF ReasonInv, Covered
<1>5. ASSUME NEW q \in Requests PROVE ReasonInv(request[q])'
  <2>1. PICK x : x = request'[q] /\ ReasonInv(x)
    BY <1>1 DEF IInv
  <2>2. QED
    BY <1>4, <2>1
<1>6. QED
  BY <1>1, <1>2, <1>5 DEF IInv

\* Covers looks at the waivers in force.
LEMMA CoversCovered ==
  ASSUME NEW tier, NEW at, Covers(tier, at)
  PROVE  Covered(tier, at)
  BY DEF Covers, Covered, Made

LEMMA SubmitInv ==
  ASSUME IInv, NEW r \in Requests, NEW tier \in Levels, NEW due \in Days,
         Submit(r, tier, due)
  PROVE  IInv'
<1> DEFINE basis == IF Covers(tier, day) THEN "waiver" ELSE "none"
<1>1. day \in Days /\ due \in Ends /\ due >= day /\ 0 \in Days
  BY ConstantFacts DEF Submit, IInv, TypeOK
<1>2. PICK k \in Request : /\ k = [step |-> "asked", basis |-> basis, tier |-> tier, at |-> day,
                                   due |-> due, done |-> 0]
                           /\ k.step = "asked" /\ k.basis = basis /\ k.tier = tier
                           /\ k.at = day /\ k.due = due
  <2>1. [step |-> "asked", basis |-> basis, tier |-> tier, at |-> day, due |-> due, done |-> 0] \in Request
    BY <1>1 DEF Request
  <2>2. QED
    BY <2>1
<1>3. ReasonInv(k)
  BY <1>1, <1>2, CoversCovered DEF ReasonInv
<1>4. /\ request[r].step = "new" /\ request' = [request EXCEPT ![r] = k]
      /\ UNCHANGED <<window, waiver, decider, held, rwOn, day, acts>>
  BY <1>2 DEF Submit
<1>5. QED
  BY <1>3, <1>4, RequestMoves

\* A request as it is but for its step and its basis.
As(k, basis, step) == [k EXCEPT !.basis = basis, !.step = step]

Bases == {"none", "waiver", "cache", "person"}
Sides == {"pending", "approved", "rejected"}

LEMMA Decided ==
  ASSUME NEW j \in Request, NEW basis \in Bases, NEW step \in Sides
  PROVE  /\ As(j, basis, step) \in Request
         /\ As(j, basis, step).step = step /\ As(j, basis, step).basis = basis
         /\ As(j, basis, step).tier = j.tier
         /\ As(j, basis, step).at = j.at /\ As(j, basis, step).due = j.due
<1>1. As(j, basis, step) \in Request
  BY DEF Request, As, Bases, Sides
<1>2. QED
  BY <1>1 DEF Request, As

\* What the cache finds goes back to an origin.
LEMMA CacheHasOrigin ==
  ASSUME IInv, CacheHit
  PROVE  Origin
<1>1. PICK q \in Requests : request[q].tier = 0 /\ request[q].step = "completed"
  BY DEF CacheHit, Counts
<1>2. ReasonInv(request[q]) /\ request[q].basis \in {"none", "waiver", "cache", "person"}
  BY DEF IInv, TypeOK, Request
<1>3. request[q].basis # "none" /\ (request[q].basis = "cache" => Origin)
  BY <1>1, <1>2 DEF ReasonInv
<1>4. QED
  BY <1>1, <1>2, <1>3 DEF Origin

LEMMA InsertInv ==
  ASSUME IInv, NEW r \in Requests, Insert(r)
  PROVE  IInv'
<1> DEFINE waived == request[r].basis = "waiver" /\ ~Lapses(r)
           cached == ~waived /\ request[r].tier = 0 /\ CacheHit
<1>0. PICK j \in Request : j = request[r] /\ ReasonInv(j) /\ j.step = "asked" /\ j.at \in Nat /\ j.due \in Nat
  BY ConstantFacts DEF IInv, TypeOK, Insert, Request
<1>1. PICK basis \in Bases : basis = IF waived THEN "waiver" ELSE IF cached THEN "cache" ELSE "none"
  BY DEF Bases
<1>2. PICK step \in Sides : step = IF basis = "none" THEN "pending" ELSE "approved"
  BY DEF Sides
<1>3. PICK k \in Request : /\ k = As(j, basis, step)
                           /\ k.step = step /\ k.basis = basis /\ k.tier = j.tier
                           /\ k.at = j.at /\ k.due = j.due
  BY Decided
<1>4. request' = [request EXCEPT ![r] = k] /\ UNCHANGED <<window, waiver, decider, held, rwOn, day, acts>>
  BY <1>0, <1>1, <1>2, <1>3 DEF Insert, As
<1>5. waived => Covered(j.tier, j.at) /\ Covered(j.tier, j.due)
  <2>1. waived => Covered(j.tier, j.at)
    BY <1>0 DEF ReasonInv
  <2>2. waived => j.due = j.at \/ Covered(j.tier, j.due)
    BY <1>0, CoversCovered DEF Lapses, ReasonInv
  <2>3. QED
    BY <2>1, <2>2
<1>6. cached => j.tier = 0 /\ Origin
  BY <1>0, CacheHasOrigin
<1>7. ReasonInv(k)
  BY <1>0, <1>1, <1>2, <1>3, <1>5, <1>6 DEF ReasonInv
<1>8. QED
  BY <1>0, <1>4, <1>7, RequestMoves

LEMMA ReviewInv ==
  ASSUME IInv, NEW r \in Requests, NEW step \in {"approved", "rejected"},
         Review(r, step)
  PROVE  IInv'
<1>1. PICK j \in Request : j = request[r] /\ ReasonInv(j) /\ j.step = "pending"
  BY DEF IInv, TypeOK, Review
<1>2. PICK k \in Request : /\ k = As(j, "person", step)
                           /\ k.step = step /\ k.basis = "person" /\ k.tier = j.tier
                           /\ k.at = j.at /\ k.due = j.due
  <2>1. "person" \in Bases /\ step \in Sides
    BY DEF Bases, Sides
  <2>2. QED
    BY <2>1, Decided
<1>3. request' = [request EXCEPT ![r] = k] /\ UNCHANGED <<window, waiver, decider, held, rwOn, day, acts>>
  <2>1. k = [j EXCEPT !.step = step, !.basis = "person"]
    BY <1>2 DEF As, Request
  <2>2. QED
    BY <1>1, <2>1 DEF Review
<1>4. ReasonInv(k)
  BY <1>1, <1>2 DEF ReasonInv
<1>5. QED
  BY <1>1, <1>3, <1>4, RequestMoves

LEMMA CompleteInv ==
  ASSUME IInv, NEW r \in Requests, Complete(r)
  PROVE  IInv'
<1>1. PICK j \in Request : j = request[r] /\ ReasonInv(j) /\ j.step = "approved"
  BY DEF IInv, TypeOK, Complete
<1>2. day \in Days
  BY DEF IInv, TypeOK
<1>3. PICK k \in Request : /\ k = [j EXCEPT !.step = "completed", !.done = day]
                           /\ k.step = "completed" /\ k.basis = j.basis /\ k.tier = j.tier
                           /\ k.at = j.at /\ k.due = j.due
  <2> DEFINE k == [j EXCEPT !.step = "completed", !.done = day]
  <2>1. k \in Request
    BY <1>2 DEF Request
  <2>2. /\ k.step = "completed" /\ k.basis = j.basis /\ k.tier = j.tier
        /\ k.at = j.at /\ k.due = j.due
    BY DEF Request
  <2> HIDE DEF k
  <2>3. QED
    BY <2>1, <2>2 DEF k
<1>4. request' = [request EXCEPT ![r] = k] /\ UNCHANGED <<window, waiver, decider, held, rwOn, day, acts>>
  BY <1>1, <1>3 DEF Complete
<1>5. ReasonInv(k)
  BY <1>1, <1>3 DEF ReasonInv
<1>6. QED
  BY <1>1, <1>4, <1>5, RequestMoves

LEMMA StepInv ==
  ASSUME IInv, [Next]_vars
  PROVE  IInv'
<1>1. ASSUME NEW w \in Windows, NEW tier \in Levels, AskWindow(w, tier) PROVE IInv'
  BY <1>1, AskWindowInv
<1>2. ASSUME NEW w \in Windows, NEW status \in {"rejected", "withdrawn"}, Close(w, status) PROVE IInv'
  BY <1>2, CloseInv
<1>3. ASSUME NEW d \in Deciders, NEW w \in Windows, CheckWindow(d, w) PROVE IInv'
  BY <1>3, CheckWindowInv
<1>4. ASSUME NEW d \in Deciders, NEW g \in Waivers, WriteWaiver(d, g) PROVE IInv'
  BY <1>4, WriteWaiverInv
<1>5. ASSUME NEW d \in Deciders, MarkWindow(d) \/ Crash(d) PROVE IInv'
  BY <1>5, MarkWindowInv, RolledBackInv DEF Crash
<1>6. ASSUME NEW g \in Waivers, NEW tier \in Levels, NEW until \in Ends, CreateRule(g, tier, until)
      PROVE  IInv'
  BY <1>6, CreateRuleInv
<1>7. ASSUME NEW g \in Waivers, SwitchRule(g) \/ DeleteRule(g) PROVE IInv'
  BY <1>7, SwitchRuleInv, DeleteRuleInv
<1>8. CASE ChangeAccess \/ SwitchRw \/ Tick
  BY <1>8, ElsewhereInv
<1>9. ASSUME NEW r \in Requests, NEW tier \in Levels, NEW due \in Days, Submit(r, tier, due) PROVE IInv'
  BY <1>9, SubmitInv
<1>10. ASSUME NEW r \in Requests, Insert(r) \/ Complete(r) PROVE IInv'
  BY <1>10, InsertInv, CompleteInv
<1>11. ASSUME NEW r \in Requests, NEW step \in {"approved", "rejected"}, Review(r, step) PROVE IInv'
  BY <1>11, ReviewInv
<1>12. CASE UNCHANGED vars
  <2>1. TypeOK' /\ UNCHANGED <<window, waiver, decider, request>>
    BY <1>12 DEF vars, IInv, TypeOK
  <2>2. QED
    BY <2>1, AroundInv
<1>13. QED
  BY <1>1, <1>2, <1>3, <1>4, <1>5, <1>6, <1>7, <1>8, <1>9, <1>10, <1>11, <1>12 DEF Next

(***************************************************************************)
(* Theorems.                                                               *)
(***************************************************************************)
\* The strengthening from which the properties follow is an invariant.
THEOREM Invariance == Spec => []IInv
<1>1. Init => IInv
  BY InitInv
<1>2. IInv /\ [Next]_vars => IInv'
  BY StepInv
<1>3. QED
  BY <1>1, <1>2, PTL DEF Spec

\* Every reachable state has the declared types.
THEOREM TypeCorrect == Spec => []TypeOK
<1>1. IInv => TypeOK
  BY DEF IInv
<1>2. QED
  BY Invariance, <1>1, PTL

\* However many admins decide a window at once, and wherever they crash, it has
\* one waiver when it is approved and none otherwise (decide_window).
THEOREM WindowsAndWaivers == Spec => []WindowHasItsWaiver
<1>1. IInv => WindowHasItsWaiver
  <2> SUFFICES ASSUME IInv, NEW w \in Windows
               PROVE  Cardinality(Of(w)) = IF window[w].status = "approved" THEN 1 ELSE 0
    BY DEF WindowHasItsWaiver, Of, Made
  <2>1. CASE window[w].status = "approved"
    <3>1. PICK g : Of(w) = {g}
      BY <2>1 DEF IInv, WindowInv
    <3>2. QED
      BY <2>1, <3>1, FS_Singleton
  <2>2. CASE window[w].status # "approved"
    <3>1. Of(w) = {}
      BY <2>2 DEF IInv, WindowInv
    <3>2. QED
      BY <2>2, <3>1, FS_EmptySet
  <2>3. QED
    BY <2>1, <2>2
<1>2. QED
  BY Invariance, <1>1, PTL

\* Whatever admins switch and delete between the submission and the insertion,
\* and however long the chain of repeats, what skips review rests on a waiver of
\* both days or on a read that somebody approved (auto_approve.decision).
THEOREM ReviewIsSkippedWithReason == Spec => []SkipsWithReason
<1>1. IInv => SkipsWithReason
  <2> SUFFICES ASSUME IInv, NEW r \in Requests, request[r].step \in {"approved", "completed"}
               PROVE  /\ request[r].basis = "waiver" =>
                           Covered(request[r].tier, request[r].at) /\ Covered(request[r].tier, request[r].due)
                      /\ request[r].basis = "cache" => request[r].tier = 0 /\ Origin
    BY DEF SkipsWithReason, Covered, Origin, Made
  <2>1. QED
    BY DEF IInv, ReasonInv
<1>2. QED
  BY Invariance, <1>1, PTL
=============================================================================
