------------------------- MODULE WebSessionsProofs -------------------------
(***************************************************************************)
(* Theorems about WebSessions, for any number of tabs, sessions and names, *)
(* and any lengths of the times.                                           *)
(*                                                                         *)
(* That the browser never falls behind by two tokens rests on time alone:  *)
(* a tab asks for the next token only when its access has run out, which   *)
(* is later than any answer to a request from before that token's issue.   *)
(***************************************************************************)
EXTENDS WebSessions, TLAPS, SequenceTheorems, WellFoundedInduction

(***************************************************************************)
(* The inductive invariant.                                                *)
(***************************************************************************)
Typed ==
  /\ session \in [Sessions -> Row]
  /\ refresh \in Token \cup {NoCookie}
  /\ access \in (Sessions \X Nat) \cup {NoCookie}
  /\ tab \in [Tabs -> Request \cup {NoRequest}]
  /\ lostAt \in 0..Never /\ now \in 0..MaxTime
  /\ failures \in [Keys -> Seq(0..MaxTime)] /\ guesses \in Seq(0..MaxTime)

\* The tokens of a session follow each other, and the grace period runs from
\* their rotation; it is not in the future.
RowInv(s) ==
  /\ session[s].last = session[s].real /\ session[s].real <= now
  /\ session[s].prev # NoToken => session[s].cur = session[s].prev + 1
  /\ session[s].prev = NoToken => session[s].cur = 0

\* A token that was handed out.
Known(token) ==
  /\ session[token[1]].state # "absent"
  /\ token[2] <= session[token[1]].cur

\* The one that the server expects.
Newest(token) == token[2] = session[token[1]].cur

\* A tab that has the newest token asks for the next when the access that came
\* with it has run out; an answer with another token was asked for before the
\* newest was issued.
TabInv(t) ==
  tab[t] # NoRequest =>
    LET token == tab[t].token
        issued == session[token[1]].real
    IN /\ tab[t].at <= now /\ now <= tab[t].at + MaxDelay
       /\ token # NoCookie => Known(token)
       /\ tab[t].kind = "signout" => tab[t].step # "rotated"
       /\ tab[t].kind = "signout" /\ tab[t].step = "answered" => token = NoCookie
       /\ tab[t].kind = "refresh" =>
            /\ tab[t].step \in {"sent", "rotated"} => token # NoCookie
            /\ tab[t].step = "sent" /\ Newest(token) => tab[t].at >= issued + AccessTime
            /\ tab[t].step # "sent" /\ token # NoCookie =>
                 Newest(token) \/ (token[2] = session[token[1]].prev /\ tab[t].at <= issued)
            /\ tab[t].step = "answered" /\ token # NoCookie =>
                 /\ tab[t].ticket # NoCookie
                 /\ Newest(token) => tab[t].ticket[2] >= issued + AccessTime
            /\ tab[t].step = "answered" /\ token = NoCookie => tab[t].ticket = NoCookie

\* What the browser holds: with the newest token an access that came with it, and
\* with the one before it no request for the next.
CookieInv ==
  refresh # NoCookie =>
    /\ Known(refresh)
    /\ refresh[2] \in {session[refresh[1]].cur, session[refresh[1]].prev}
    /\ Newest(refresh) => access # NoCookie /\ access[2] >= session[refresh[1]].real + AccessTime
    /\ ~Newest(refresh) =>
         \A t \in Tabs :
           tab[t] # NoRequest /\ tab[t].kind = "refresh" /\ tab[t].step = "sent"
           /\ tab[t].token[1] = refresh[1] => ~Newest(tab[t].token)

\* Nobody's access outlasts the time of an access from when the right to enter was
\* lost, or from now.
Limit == IF lostAt <= now THEN lostAt ELSE now

AccessInv ==
  /\ lostAt = Never \/ lostAt <= now
  /\ access # NoCookie => access[2] <= Limit + AccessTime
  /\ \A t \in Tabs :
       tab[t] # NoRequest /\ tab[t].ticket # NoCookie => tab[t].ticket[2] <= Limit + AccessTime

\* The address is never forgiven.
GuessInv == guesses = failures[Ip] /\ Len(guesses) <= MaxFailures

IInv == Typed /\ (\A s \in Sessions : RowInv(s)) /\ (\A t \in Tabs : TabInv(t)) /\ CookieInv /\ AccessInv /\ GuessInv

(***************************************************************************)
(* Lemmas about the operators.                                             *)
(***************************************************************************)
\* A set of positions has a first one.
LEMMA FirstPosition ==
  ASSUME NEW S, S \subseteq Nat, S # {}
  PROVE  Min(S) \in S
<1>1. \A i, j \in Nat : j < i => <<j, i>> \in OpToRel(<, Nat)
  BY SMT DEF OpToRel
<1>2. PICK i \in S : \A j \in S : ~ (<<j, i>> \in OpToRel(<, Nat))
  BY NatLessThanWellFounded, WFMin
<1>3. ASSUME NEW j \in S PROVE i <= j
  <2>1. i \in Nat /\ j \in Nat
    OBVIOUS
  <2>2. ~ (j < i)
    BY <1>1, <1>2, <2>1
  <2>3. QED
    BY <2>1, <2>2
<1>4. QED
  BY <1>3 DEF Min

\* The queue only gets shorter.
LEMMA PrunedTyped ==
  ASSUME NEW times \in Seq(0..MaxTime), NEW at
  PROVE  Pruned(times, at) \in Seq(0..MaxTime) /\ Len(Pruned(times, at)) <= Len(times)
<1> DEFINE fresh == {i \in DOMAIN times : at - times[i] <= Window}
<1>1. DOMAIN times = 1..Len(times) /\ Len(times) \in Nat
  BY LenProperties
<1>2. CASE fresh = {}
  <2>1. Pruned(times, at) = <<>>
    BY <1>2 DEF Pruned
  <2>2. QED
    BY <1>1, <2>1, EmptySeq
<1>3. CASE fresh # {}
  <2>1. Pruned(times, at) = SubSeq(times, Min(fresh), Len(times))
    BY <1>3 DEF Pruned
  <2>2. Min(fresh) \in 1..Len(times)
    <3>1. fresh \subseteq 1..Len(times) /\ fresh \subseteq Nat
      BY <1>1
    <3> HIDE DEF fresh
    <3>2. QED
      BY <1>3, <3>1, FirstPosition
  <2> HIDE DEF fresh
  <2> DEFINE m == Min(fresh)
  <2> HIDE DEF m
  <2>3. m \in 1..Len(times)
    BY <2>2 DEF m
  <2>4. /\ SubSeq(times, m, Len(times)) \in Seq(0..MaxTime)
        /\ Len(SubSeq(times, m, Len(times))) = Len(times) - m + 1
    <3>1. m \in Int /\ Len(times) \in Int /\ m <= Len(times)
      BY <1>1, <2>3
    <3>2. ASSUME NEW i \in m..Len(times) PROVE times[i] \in 0..MaxTime
      <4>1. i \in 1..Len(times)
        BY <1>1, <2>3
      <4> DEFINE T == 0..MaxTime
      <4>2. times \in Seq(T)
        OBVIOUS
      <4> HIDE DEF T
      <4>3. times[i] \in T
        BY <4>1, <4>2, ElementOfSeq
      <4>4. QED
        BY <4>3 DEF T
    <3>3. QED
      BY <3>1, <3>2, SubSeqProperties
  <2>5. QED
    BY <1>1, <2>1, <2>3, <2>4 DEF m
<1>4. QED
  BY <1>2, <1>3

\* The rows keep their tokens.
RowsKept ==
  /\ session' \in [Sessions -> Row]
  /\ \A s \in Sessions :
       /\ session'[s].cur = session[s].cur /\ session'[s].prev = session[s].prev
       /\ session'[s].last = session[s].last /\ session'[s].real = session[s].real
       /\ session'[s].state = "absent" <=> session[s].state = "absent"

LEMMA RevokedKeeps ==
  ASSUME Typed, NEW rows, session' = Revoked(rows)
  PROVE  RowsKept
  BY DEF Typed, Row, Revoked, RowsKept

LEMMA SameKeeps ==
  ASSUME Typed, session' = session
  PROVE  RowsKept
  BY DEF Typed, RowsKept

LEMMA RowKept ==
  ASSUME IInv, RowsKept, now' >= now, Typed', NEW s \in Sessions
  PROVE  RowInv(s)'
  BY DEF IInv, Typed, RowInv, Row, RowsKept

LEMMA TabKept ==
  ASSUME IInv, RowsKept, now' = now, NEW t \in Tabs, tab'[t] = tab[t]
  PROVE  TabInv(t)'
<1>1. CASE tab[t] = NoRequest
  BY <1>1 DEF TabInv
<1>2. CASE tab[t] # NoRequest /\ tab[t].token = NoCookie
  BY <1>2 DEF IInv, TabInv
<1>3. CASE tab[t] # NoRequest /\ tab[t].token # NoCookie
  <2>1. tab[t].token[1] \in Sessions
    BY <1>3 DEF IInv, Typed, Request, Token
  <2>2. QED
    BY <1>3, <2>1 DEF IInv, TabInv, RowsKept, Known, Newest
<1>4. QED
  BY <1>1, <1>2, <1>3

\* No tab asks for a token that did not ask before.
NoNewAsk ==
  \A u \in Tabs :
    tab'[u] # NoRequest /\ tab'[u].kind = "refresh" /\ tab'[u].step = "sent" => tab'[u] = tab[u]

LEMMA CookieKept ==
  ASSUME IInv, RowsKept, UNCHANGED cookies, NoNewAsk
  PROVE  CookieInv'
<1>1. CASE refresh = NoCookie
  BY <1>1 DEF CookieInv, cookies
<1>2. CASE refresh # NoCookie
  <2>1. refresh[1] \in Sessions
    BY <1>2 DEF IInv, Typed, Token
  <2>2. QED
    BY <1>2, <2>1 DEF IInv, CookieInv, NoNewAsk, RowsKept, Known, Newest, cookies
<1>3. QED
  BY <1>1, <1>2

\* An answer goes to one tab.
LEMMA AnswerAt ==
  ASSUME Typed, NEW t \in Tabs, tab[t] # NoRequest, NEW token \in Token \cup {NoCookie},
         NEW ticket \in (Sessions \X Nat) \cup {NoCookie}, Answer(t, token, ticket)
  PROVE  /\ tab' \in [Tabs -> Request \cup {NoRequest}]
         /\ tab'[t].kind = tab[t].kind /\ tab'[t].at = tab[t].at
         /\ tab'[t].step = "answered" /\ tab'[t].token = token /\ tab'[t].ticket = ticket
         /\ \A u \in Tabs \ {t} : tab'[u] = tab[u]
<1>1. tab[t] \in Request
  BY DEF Typed
<1> DEFINE new == [tab[t] EXCEPT !.step = "answered", !.token = token, !.ticket = ticket]
<1>2. /\ new \in Request /\ new.kind = tab[t].kind /\ new.at = tab[t].at
      /\ new.step = "answered" /\ new.token = token /\ new.ticket = ticket
  BY <1>1 DEF Request
<1>3. tab' = [tab EXCEPT ![t] = new]
  BY <1>1 DEF Answer, Typed
<1> HIDE DEF new
<1>4. QED
  BY <1>2, <1>3 DEF Typed

\* The rights that are on their way stay as they are.
LEMMA AccessKept ==
  ASSUME IInv, UNCHANGED <<access, lostAt, now>>,
         \A u \in Tabs : tab'[u] # NoRequest /\ tab'[u].ticket # NoCookie =>
           tab[u] # NoRequest /\ tab'[u].ticket = tab[u].ticket
  PROVE  AccessInv'
  BY DEF IInv, AccessInv, Limit, Never

\* A tab is sent away; at most sessions end.
LEMMA SentAway ==
  ASSUME IInv, NEW t \in Tabs, tab[t] # NoRequest, RowsKept, Answer(t, NoCookie, NoCookie),
         UNCHANGED <<cookies, loginVars, now>>
  PROVE  IInv'
<1> USE DEF cookies, loginVars
<1>1. Typed
  BY DEF IInv
<1>2. /\ tab' \in [Tabs -> Request \cup {NoRequest}]
      /\ tab'[t].kind = tab[t].kind /\ tab'[t].at = tab[t].at
      /\ tab'[t].step = "answered" /\ tab'[t].token = NoCookie /\ tab'[t].ticket = NoCookie
      /\ \A u \in Tabs \ {t} : tab'[u] = tab[u]
  BY <1>1, AnswerAt
<1>3. Typed'
  BY <1>1, <1>2 DEF Typed, RowsKept, Never
<1>4. \A s \in Sessions : RowInv(s)'
  BY <1>1, <1>3, RowKept DEF Typed
<1>5. \A u \in Tabs : TabInv(u)'
  <2>1. TabInv(t)'
    BY <1>2 DEF IInv, TabInv
  <2>2. \A u \in Tabs \ {t} : TabInv(u)'
    BY <1>2, TabKept
  <2>3. QED
    BY <2>1, <2>2
<1>6. NoNewAsk
  BY <1>2 DEF NoNewAsk
<1>7. CookieInv'
  BY <1>6, CookieKept
<1>8. AccessInv'
  BY <1>2, AccessKept
<1>9. GuessInv'
  BY DEF IInv, GuessInv
<1>10. QED
  BY <1>3, <1>4, <1>5, <1>7, <1>8, <1>9 DEF IInv

(***************************************************************************)
(* One lemma per action.                                                   *)
(***************************************************************************)
LEMMA InitInv == Init => IInv
<1> SUFFICES ASSUME Init PROVE IInv
  OBVIOUS
<1>1. Typed
  BY SessionAssumption, EmptySeq DEF Init, Typed, Row, Never
<1>2. \A s \in Sessions : RowInv(s)
  BY SessionAssumption DEF Init, RowInv
<1>3. \A t \in Tabs : TabInv(t)
  BY DEF Init, TabInv
<1>4. CookieInv /\ AccessInv
  BY DEF Init, CookieInv, AccessInv
<1>5. GuessInv
  BY SessionAssumption, EmptySeq DEF Init, GuessInv, Keys
<1>6. QED
  BY <1>1, <1>2, <1>3, <1>4, <1>5 DEF IInv

LEMMA WrongPasswordInv ==
  ASSUME IInv, NEW u \in Names, WrongPassword(u)
  PROVE  IInv'
<1> USE DEF WrongPassword, cookies
<1>1. \A k \in Keys : failures[k] \in Seq(0..MaxTime)
  BY DEF IInv, Typed
<1>2. /\ \A k \in Keys : /\ Append(failures[k], now) \in Seq(0..MaxTime)
                         /\ Len(Append(failures[k], now)) = Len(failures[k]) + 1
      /\ Append(guesses, now) \in Seq(0..MaxTime)
  BY <1>1 DEF IInv, Typed
<1>3. Typed'
  <2>1. failures' \in [Keys -> Seq(0..MaxTime)] /\ guesses' \in Seq(0..MaxTime)
    BY <1>1, <1>2
  <2>2. QED
    BY <2>1 DEF IInv, Typed, Never
<1>4. RowsKept /\ NoNewAsk
  BY SameKeeps DEF IInv, NoNewAsk
<1>5. (\A s \in Sessions : RowInv(s)') /\ (\A t \in Tabs : TabInv(t)') /\ CookieInv'
  BY <1>3, <1>4, RowKept, TabKept, CookieKept DEF IInv, Typed
<1>6. AccessInv'
  BY DEF IInv, AccessInv, Limit
<1>7. GuessInv'
  <2>1. Len(failures[Ip]) < MaxFailures /\ Len(failures[Ip]) \in Nat
    BY <1>1, SessionAssumption, LenProperties DEF Throttled, Keys
  <2>2. failures'[Ip] = Append(failures[Ip], now)
    BY DEF Keys
  <2>3. QED
    BY <1>2, <2>1, <2>2, SessionAssumption DEF IInv, GuessInv, Keys
<1>8. QED
  BY <1>3, <1>5, <1>6, <1>7 DEF IInv

LEMMA LoginInv ==
  ASSUME IInv, NEW s \in Sessions, NEW u \in Names, Login(s, u)
  PROVE  IInv'
<1> USE DEF Login
<1> DEFINE new == [state |-> "live", cur |-> 0, prev |-> NoToken, last |-> now, real |-> now,
                   end |-> now + RefreshTime]
<1>1. new \in Row
  BY SessionAssumption DEF IInv, Typed, Row
<1>2. session' = [session EXCEPT ![s] = new]
  OBVIOUS
<1>3. /\ new.state = "live" /\ new.cur = 0 /\ new.prev = NoToken /\ new.last = now /\ new.real = now
  OBVIOUS
<1> HIDE DEF new
<1>4. session' \in [Sessions -> Row] /\ session'[s] = new /\ \A r \in Sessions \ {s} : session'[r] = session[r]
  BY <1>1, <1>2 DEF IInv, Typed
<1>5. /\ refresh' = <<s, 0>> /\ refresh' \in Token /\ access' = <<s, now + AccessTime>>
      /\ access' \in Sessions \X Nat /\ now \in Nat /\ AccessTime \in Nat
  BY SessionAssumption DEF IInv, Typed, Token
<1>6. Typed'
  BY <1>4, <1>5, EmptySeq DEF IInv, Typed, Cleared, Keys
<1>7. \A r \in Sessions : RowInv(r)'
  BY <1>3, <1>4, <1>5 DEF IInv, Typed, RowInv
<1>8. ASSUME NEW t \in Tabs PROVE TabInv(t)'
  <2>1. CASE tab[t] = NoRequest
    BY <2>1 DEF TabInv
  <2>2. CASE tab[t] # NoRequest /\ tab[t].token = NoCookie
    BY <2>2 DEF IInv, TabInv
  <2>3. CASE tab[t] # NoRequest /\ tab[t].token # NoCookie
    <3>1. tab[t].token[1] \in Sessions \ {s}
      BY <2>3 DEF IInv, Typed, Request, Token, TabInv, Known
    <3>2. QED
      BY <1>4, <2>3, <3>1 DEF IInv, TabInv, Known, Newest
  <2>4. QED
    BY <2>1, <2>2, <2>3
<1>9. CookieInv'
  BY <1>3, <1>4, <1>5, SessionAssumption DEF CookieInv, Known, Newest
<1>10. AccessInv'
  BY <1>5 DEF IInv, Typed, AccessInv, Limit, Allowed
<1>11. GuessInv'
  BY SessionAssumption DEF IInv, Typed, GuessInv, Cleared, Keys, Ip
<1>12. QED
  BY <1>6, <1>7, <1>8, <1>9, <1>10, <1>11 DEF IInv

LEMMA SendRefreshInv ==
  ASSUME IInv, NEW t \in Tabs, SendRefresh(t)
  PROVE  IInv'
<1> USE DEF SendRefresh, Ask, cookies, loginVars
<1> DEFINE new == [kind |-> "refresh", at |-> now, step |-> "sent", token |-> refresh, ticket |-> NoCookie]
<1>1. tab' = [tab EXCEPT ![t] = new]
  OBVIOUS
<1>2. new \in Request /\ new.kind = "refresh" /\ new.at = now /\ new.step = "sent"
      /\ new.token = refresh /\ new.ticket = NoCookie
  BY DEF IInv, Typed, Request
<1> HIDE DEF new
<1>3. tab'[t] = new /\ \A u \in Tabs \ {t} : tab'[u] = tab[u]
  BY <1>1 DEF IInv, Typed
<1>4. Typed'
  BY <1>1, <1>2 DEF IInv, Typed
<1>5. RowsKept
  BY SameKeeps DEF IInv
<1>6. \A s \in Sessions : RowInv(s)'
  BY <1>4, <1>5, RowKept DEF IInv, Typed
<1>7. refresh[1] \in Sessions /\ session[refresh[1]].real \in Nat /\ now \in Nat
  BY DEF IInv, Typed, Token, Row
<1>8. ~Newest(refresh) \/ now >= session[refresh[1]].real + AccessTime
  BY <1>7, SessionAssumption DEF IInv, Typed, CookieInv, HasAccess
<1>9. TabInv(t)'
  BY <1>2, <1>3, <1>7, <1>8, SessionAssumption DEF IInv, CookieInv, TabInv, Known, Newest
<1>10. \A u \in Tabs \ {t} : TabInv(u)'
  BY <1>3, <1>5, TabKept
<1>11. CookieInv'
  BY <1>2, <1>3 DEF IInv, CookieInv, Known, Newest
<1>12. AccessInv' /\ GuessInv'
  BY <1>2, <1>3 DEF IInv, AccessInv, Limit, GuessInv
<1>13. QED
  BY <1>4, <1>6, <1>9, <1>10, <1>11, <1>12 DEF IInv

LEMMA RowWith ==
  ASSUME NEW row \in Row, NEW n \in Nat, NEW at \in 0..MaxTime
  PROVE  [row EXCEPT !.cur = n + 1, !.prev = n, !.last = at, !.real = at] \in Row
<1>1. ASSUME NEW St, NEW P, NEW T, NEW c \in Nat, NEW p \in P, NEW l \in T,
             NEW r \in [state: St, cur: Nat, prev: P, last: T, real: T, end: Nat]
      PROVE  [r EXCEPT !.cur = c, !.prev = p, !.last = l, !.real = l]
               \in [state: St, cur: Nat, prev: P, last: T, real: T, end: Nat]
  OBVIOUS
<1>2. n + 1 \in Nat /\ n \in Nat \cup {NoToken}
  OBVIOUS
<1>3. QED
  BY <1>1, <1>2 DEF Row

\* The present token is rotated: who asked for it did so an access time after it
\* was issued, and nothing from before that is on its way any more.
LEMMA RotateNewest ==
  ASSUME IInv, NEW t \in Tabs, NEW s \in Sessions, NEW n \in Nat,
         tab[t] # NoRequest, tab[t].kind = "refresh", tab[t].step = "sent", tab[t].token = <<s, n>>,
         Current(s, n), session' = Rotated(s, n),
         tab' = [tab EXCEPT ![t].step = "rotated", ![t].token = <<s, session'[s].cur>>],
         UNCHANGED <<cookies, loginVars, now>>
  PROVE  IInv'
<1> USE DEF cookies, loginVars
<1>1. /\ session[s] \in Row /\ now \in 0..MaxTime /\ tab[t] \in Request /\ now \in Nat
      /\ session[s].real \in Nat /\ AccessTime \in Nat /\ MaxDelay \in Nat /\ MaxDelay < AccessTime
  BY SessionAssumption DEF IInv, Typed, Row
<1> DEFINE row == [session[s] EXCEPT !.cur = n + 1, !.prev = n, !.last = now, !.real = now]
<1>2. /\ row \in Row /\ row.state = session[s].state /\ row.cur = n + 1 /\ row.prev = n
      /\ row.last = now /\ row.real = now
  <2>1. row \in Row
    BY <1>1, RowWith
  <2>2. /\ row.state = session[s].state /\ row.cur = n + 1 /\ row.prev = n
        /\ row.last = now /\ row.real = now
    BY <1>1 DEF Row
  <2>3. QED
    BY <2>1, <2>2
<1>3. session' = [session EXCEPT ![s] = row]
  BY DEF Rotated, IInv, Typed
<1> HIDE DEF row
<1>4. /\ session' \in [Sessions -> Row] /\ session'[s] = row
      /\ \A r \in Sessions \ {s} : session'[r] = session[r]
  BY <1>2, <1>3 DEF IInv, Typed
<1> DEFINE new == [tab[t] EXCEPT !.step = "rotated", !.token = <<s, n + 1>>]
<1>5. /\ new \in Request /\ new.kind = "refresh" /\ new.at = tab[t].at /\ new.step = "rotated"
      /\ new.token = <<s, n + 1>> /\ new.ticket = tab[t].ticket
  <2>1. new \in Request
    <3>1. <<s, n + 1>> \in Token
      BY DEF Token
    <3>2. QED
      BY <1>1, <3>1 DEF Request
  <2>2. /\ new.kind = "refresh" /\ new.at = tab[t].at /\ new.step = "rotated"
        /\ new.token = <<s, n + 1>> /\ new.ticket = tab[t].ticket
    BY <1>1 DEF Request
  <2>3. QED
    BY <2>1, <2>2
<1>6. tab' = [tab EXCEPT ![t] = new]
  BY <1>2, <1>4 DEF IInv, Typed
<1> HIDE DEF new
<1>7. /\ tab' \in [Tabs -> Request \cup {NoRequest}] /\ tab'[t] = new
      /\ \A u \in Tabs \ {t} : tab'[u] = tab[u]
  BY <1>5, <1>6 DEF IInv, Typed
<1>8. Typed'
  BY <1>4, <1>7 DEF IInv, Typed, Never
<1>9. session[s].state = "live" /\ session[s].cur = n
  BY DEF Current
<1>10. now >= session[s].real + AccessTime
  BY <1>1, <1>9 DEF IInv, TabInv, Newest, Request
<1>11. \A r \in Sessions : RowInv(r)'
  <2>1. RowInv(s)'
    BY <1>1, <1>2, <1>4, SessionAssumption DEF RowInv
  <2>2. \A r \in Sessions \ {s} : RowInv(r)'
    BY <1>4 DEF IInv, RowInv
  <2>3. QED
    BY <2>1, <2>2
<1>12. ASSUME NEW u \in Tabs \ {t} PROVE TabInv(u)'
  <2>1. CASE tab[u] = NoRequest
    BY <1>7, <2>1 DEF TabInv
  <2>2. CASE tab[u] # NoRequest /\ tab[u].token = NoCookie
    BY <1>7, <2>2 DEF IInv, TabInv
  <2>3. CASE tab[u] # NoRequest /\ tab[u].token # NoCookie /\ tab[u].token[1] # s
    <3>1. tab[u].token[1] \in Sessions \ {s}
      BY <2>3 DEF IInv, Typed, Request, Token
    <3>2. tab'[u] = tab[u] /\ session'[tab[u].token[1]] = session[tab[u].token[1]] /\ now' = now
      BY <1>4, <1>7, <3>1
    <3>3. TabInv(u)
      BY DEF IInv
    <3>4. QED
      BY <3>2, <3>3 DEF TabInv, Known, Newest
  <2>4. CASE tab[u] # NoRequest /\ tab[u].token # NoCookie /\ tab[u].token[1] = s
    <3>1. tab[u].token[2] \in Nat /\ tab[u].at \in Nat
      BY <2>4 DEF IInv, Typed, Request, Token
    <3>2. tab[u].token[2] <= n /\ tab[u].at <= now /\ now <= tab[u].at + MaxDelay
      BY <1>9, <2>4 DEF IInv, TabInv, Known
    <3>3. ~ (tab[u].at <= session[s].real)
      BY <1>1, <1>10, <3>1, <3>2
    <3>4. tab[u].kind = "refresh" /\ tab[u].step # "sent" => tab[u].token[2] = n
      BY <1>9, <2>4, <3>3 DEF IInv, TabInv, Newest
    <3>5. /\ tab[u].kind = "signout" => tab[u].step # "rotated"
          /\ tab[u].kind = "signout" /\ tab[u].step = "answered" => tab[u].token = NoCookie
          /\ tab[u].kind = "refresh" /\ tab[u].step = "answered" => tab[u].ticket # NoCookie
      BY <2>4 DEF IInv, TabInv
    <3>6. Known(tab[u].token)' /\ tab[u].token[2] # session'[s].cur
      BY <1>2, <1>4, <1>7, <1>9, <2>4, <3>1, <3>2 DEF Known
    <3>7. QED
      BY <1>2, <1>4, <1>7, <2>4, <3>2, <3>4, <3>5, <3>6 DEF TabInv, Newest, Known
  <2>5. QED
    BY <2>1, <2>2, <2>3, <2>4
<1>13. TabInv(t)'
  <2>1. tab[t].at <= now /\ now <= tab[t].at + MaxDelay
    BY DEF IInv, TabInv
  <2>2. Known(<<s, n + 1>>)' /\ Newest(<<s, n + 1>>)'
    BY <1>2, <1>4, <1>9 DEF Known, Newest
  <2>3. Known(tab[t].token)' /\ Newest(tab[t].token)'
    BY <1>5, <1>7, <2>2 DEF Known, Newest
  <2>4. /\ tab'[t].kind = "refresh" /\ tab'[t].step = "rotated" /\ tab'[t].at = tab[t].at
        /\ tab'[t].token # NoCookie
    <3>1. <<s, n + 1>> \in Sessions \X Nat
      OBVIOUS
    <3>2. QED
      BY <1>5, <1>7, <3>1, SessionAssumption
  <2>5. QED
    BY <2>1, <2>3, <2>4 DEF TabInv
<1>14. CookieInv'
  <2>1. CASE refresh = NoCookie
    BY <2>1 DEF CookieInv
  <2>2. CASE refresh # NoCookie /\ refresh[1] # s
    <3>1. refresh[1] \in Sessions \ {s}
      BY <2>2 DEF IInv, Typed, Token
    <3>2. \A u \in Tabs :
            tab'[u] # NoRequest /\ tab'[u].kind = "refresh" /\ tab'[u].step = "sent" => tab'[u] = tab[u]
      BY <1>5, <1>7
    <3>3. QED
      <4>1. session'[refresh[1]] = session[refresh[1]]
        BY <1>4, <3>1
      <4>2. /\ Known(refresh)'
            /\ refresh[2] \in {session'[refresh[1]].cur, session'[refresh[1]].prev}
            /\ Newest(refresh)' =>
                 access # NoCookie /\ access[2] >= session'[refresh[1]].real + AccessTime
        BY <2>2, <4>1 DEF IInv, CookieInv, Known, Newest
      <4>3. ASSUME ~Newest(refresh)', NEW u \in Tabs,
                   tab'[u] # NoRequest, tab'[u].kind = "refresh", tab'[u].step = "sent",
                   tab'[u].token[1] = refresh[1]
            PROVE  tab'[u].token[2] # session'[tab'[u].token[1]].cur
        <5>1. tab'[u] = tab[u]
          BY <3>2, <4>3
        <5>2. ~Newest(refresh)
          BY <4>1, <4>3 DEF Newest
        <5>3. ~Newest(tab[u].token)
          BY <2>2, <4>3, <5>1, <5>2 DEF IInv, CookieInv
        <5>4. QED
          BY <4>1, <4>3, <5>1, <5>3 DEF Newest
      <4>4. QED
        BY <4>2, <4>3 DEF CookieInv, Newest
  <2>3. CASE refresh # NoCookie /\ refresh[1] = s
    <3>1. Newest(refresh)
      BY <1>9, <2>3 DEF IInv, CookieInv, Newest
    <3>2. refresh[2] = n
      BY <1>9, <2>3, <3>1 DEF Newest
    <3>3. Known(refresh)' /\ ~Newest(refresh)' /\ refresh'[2] = session'[s].prev
      BY <1>2, <1>4, <1>9, <2>3, <3>2 DEF Known, Newest
    <3>4. ASSUME NEW u \in Tabs, tab'[u] # NoRequest, tab'[u].kind = "refresh", tab'[u].step = "sent",
                 tab'[u].token[1] = s
          PROVE  tab'[u].token[2] # session'[tab'[u].token[1]].cur
      <4>1. u # t /\ tab'[u] = tab[u]
        BY <1>5, <1>7, <3>4
      <4>2. tab[u].token \in Token /\ tab[u].token # NoCookie
        BY <3>4, <4>1 DEF IInv, Typed, Request, TabInv
      <4>3. tab[u].token[2] \in Nat /\ tab[u].token[2] <= n
        BY <1>9, <3>4, <4>1, <4>2 DEF IInv, TabInv, Known, Token
      <4>4. session'[tab'[u].token[1]].cur = n + 1 /\ tab'[u].token[2] # n + 1
        BY <1>2, <1>4, <3>4, <4>1, <4>3
      <4>5. QED
        BY <4>4
    <3>5. QED
      BY <2>3, <3>3, <3>4 DEF CookieInv, Newest
  <2>4. QED
    BY <2>1, <2>2, <2>3
<1>15. AccessInv'
  BY <1>5, <1>7, AccessKept
<1>16. GuessInv'
  BY DEF IInv, GuessInv
<1>17. QED
  BY <1>8, <1>11, <1>12, <1>13, <1>14, <1>15, <1>16 DEF IInv

\* Within the grace period the row is as the rotation left it.
LEMMA RotateAgain ==
  ASSUME IInv, NEW t \in Tabs, NEW s \in Sessions, NEW n \in Nat,
         tab[t] # NoRequest, tab[t].kind = "refresh", tab[t].step = "sent", tab[t].token = <<s, n>>,
         Superseded(s, n), session' = Repaired(s, n),
         tab' = [tab EXCEPT ![t].step = "rotated", ![t].token = <<s, session'[s].cur>>],
         UNCHANGED <<cookies, loginVars, now>>
  PROVE  IInv'
<1> USE DEF cookies, loginVars
<1>1. session[s] \in Row /\ tab[t] \in Request
  BY DEF IInv, Typed
<1>2. session[s].prev = n /\ n # NoToken /\ session[s].cur = n + 1 /\ session[s].state = "live"
  BY SessionAssumption DEF Superseded, IInv, RowInv
<1>3. session' = session
  <2>1. [session[s] EXCEPT !.cur = n + 1, !.prev = n] = session[s]
    BY <1>1, <1>2 DEF Row
  <2>2. session' = [session EXCEPT ![s] = [session[s] EXCEPT !.cur = n + 1, !.prev = n]]
    BY DEF Repaired, IInv, Typed
  <2>3. QED
    BY <2>1, <2>2 DEF IInv, Typed
<1>4. RowsKept
  BY <1>3, SameKeeps DEF IInv
<1> DEFINE new == [tab[t] EXCEPT !.step = "rotated", !.token = <<s, n + 1>>]
<1>5. /\ new \in Request /\ new.kind = "refresh" /\ new.at = tab[t].at /\ new.step = "rotated"
      /\ new.token = <<s, n + 1>> /\ new.ticket = tab[t].ticket
  <2>1. <<s, n + 1>> \in Token
    BY DEF Token
  <2>2. new \in Request
    BY <1>1, <2>1 DEF Request
  <2>3. /\ new.kind = "refresh" /\ new.at = tab[t].at /\ new.step = "rotated"
        /\ new.token = <<s, n + 1>> /\ new.ticket = tab[t].ticket
    BY <1>1 DEF Request
  <2>4. QED
    BY <2>2, <2>3
<1>6. tab' = [tab EXCEPT ![t] = new]
  BY <1>2, <1>3 DEF IInv, Typed
<1> HIDE DEF new
<1>7. /\ tab' \in [Tabs -> Request \cup {NoRequest}] /\ tab'[t] = new
      /\ \A u \in Tabs \ {t} : tab'[u] = tab[u]
  BY <1>5, <1>6 DEF IInv, Typed
<1>8. Typed'
  BY <1>3, <1>7 DEF IInv, Typed, Never
<1>9. \A r \in Sessions : RowInv(r)'
  BY <1>4, <1>8, RowKept DEF IInv, Typed
<1>10. TabInv(t)'
  <2>1. tab[t].at <= now /\ now <= tab[t].at + MaxDelay
    BY DEF IInv, TabInv
  <2>2. Known(tab[t].token)' /\ Newest(tab[t].token)'
    BY <1>2, <1>3, <1>5, <1>7 DEF Known, Newest
  <2>3. /\ tab'[t].kind = "refresh" /\ tab'[t].step = "rotated" /\ tab'[t].at = tab[t].at
        /\ tab'[t].token # NoCookie
    <3>1. <<s, n + 1>> \in Sessions \X Nat
      OBVIOUS
    <3>2. QED
      BY <1>5, <1>7, <3>1, SessionAssumption
  <2>4. QED
    BY <2>1, <2>2, <2>3 DEF TabInv
<1>11. \A u \in Tabs \ {t} : TabInv(u)'
  BY <1>4, <1>7, TabKept
<1>12. NoNewAsk
  BY <1>5, <1>7 DEF NoNewAsk
<1>13. CookieInv'
  BY <1>4, <1>12, CookieKept
<1>14. AccessInv'
  BY <1>5, <1>7, AccessKept
<1>15. GuessInv'
  BY DEF IInv, GuessInv
<1>16. QED
  BY <1>8, <1>9, <1>10, <1>11, <1>13, <1>14, <1>15 DEF IInv

LEMMA RotateInv ==
  ASSUME IInv, NEW t \in Tabs, Rotate(t)
  PROVE  IInv'
<1> DEFINE s == tab[t].token[1]
<1> DEFINE n == tab[t].token[2]
<1>1. /\ tab[t] # NoRequest /\ tab[t].kind = "refresh" /\ tab[t].step = "sent"
      /\ UNCHANGED <<cookies, loginVars, now>>
  BY DEF Rotate
<1>2. s \in Sessions /\ n \in Nat /\ tab[t].token = <<s, n>>
  BY <1>1 DEF IInv, Typed, Request, Token, TabInv
<1>3. CASE Accept(t)
  <2>1. tab' = [tab EXCEPT ![t].step = "rotated", ![t].token = <<s, session'[s].cur>>]
    BY <1>3 DEF Accept
  <2>2. \/ Current(s, n) /\ session' = Rotated(s, n)
        \/ Superseded(s, n) /\ session' = Repaired(s, n)
    BY <1>3 DEF Accept
  <2> HIDE DEF s, n
  <2>3. QED
    BY <1>1, <1>2, <2>1, <2>2, RotateNewest, RotateAgain
<1>4. CASE Refuse(t)
  <2>1. session' = Revoked({s}) \/ session' = session
    BY <1>4 DEF Refuse
  <2>2. Answer(t, NoCookie, NoCookie)
    BY <1>4 DEF Refuse
  <2>3. RowsKept
    BY <2>1, RevokedKeeps, SameKeeps DEF IInv
  <2>4. QED
    BY <1>1, <2>2, <2>3, SentAway
<1>5. QED
  BY <1>3, <1>4 DEF Rotate

LEMMA CheckInv ==
  ASSUME IInv, NEW t \in Tabs, Check(t)
  PROVE  IInv'
<1> USE DEF cookies, loginVars
<1>1. /\ tab[t] # NoRequest /\ tab[t].kind = "refresh" /\ tab[t].step = "rotated"
      /\ UNCHANGED <<cookies, loginVars, now>>
  BY DEF Check
<1>2. CASE ~Allowed
  <2>1. RowsKept
    BY <1>2, RevokedKeeps DEF Check, IInv
  <2>2. Answer(t, NoCookie, NoCookie)
    BY <1>2 DEF Check
  <2>3. QED
    BY <1>1, <2>1, <2>2, SentAway
<1>3. CASE Allowed
  <2>1. PICK token \in Token : token = tab[t].token
    BY <1>1 DEF IInv, Typed, Request, TabInv
  <2>2. token # NoCookie /\ token[1] \in Sessions
    BY SessionAssumption DEF Token
  <2>3. now \in Nat /\ AccessTime \in Nat /\ now + AccessTime \in Nat
    BY SessionAssumption DEF IInv, Typed
  <2>4. PICK ticket \in Sessions \X Nat : ticket = <<token[1], now + AccessTime>>
    BY <2>2, <2>3
  <2>5. ticket[2] = now + AccessTime /\ ticket # NoCookie
    BY <2>4, SessionAssumption
  <2>6. Answer(t, token, ticket) /\ session' = session
    BY <1>3, <2>1, <2>4 DEF Check
  <2>7. Known(token) /\ session[token[1]].real \in Nat /\ session[token[1]].real <= now
    BY <1>1, <2>1, <2>2 DEF IInv, Typed, TabInv, RowInv, Row
  <2>8. Newest(token) \/ (token[2] = session[token[1]].prev /\ tab[t].at <= session[token[1]].real)
    BY <1>1, <2>1, <2>2 DEF IInv, TabInv
  <2>9. tab[t].at <= now /\ now <= tab[t].at + MaxDelay
    BY <1>1 DEF IInv, TabInv
  <2>10. now <= Limit /\ now = Limit
    BY <1>3, <2>3 DEF Limit, Allowed, IInv, Typed, Never
  <2>11. /\ tab' \in [Tabs -> Request \cup {NoRequest}]
        /\ tab'[t].kind = tab[t].kind /\ tab'[t].at = tab[t].at
        /\ tab'[t].step = "answered" /\ tab'[t].token = token /\ tab'[t].ticket = ticket
        /\ \A u \in Tabs \ {t} : tab'[u] = tab[u]
    BY <1>1, <2>6, AnswerAt DEF IInv
  <2>12. Typed'
    BY <1>1, <2>6, <2>11 DEF IInv, Typed, Never
  <2>13. RowsKept
    BY <2>6, SameKeeps DEF IInv
  <2>14. \A r \in Sessions : RowInv(r)'
    BY <1>1, <2>12, <2>13, RowKept DEF IInv, Typed
  <2>15. TabInv(t)'
    <3>1. Known(token)' /\ (Newest(token)' <=> Newest(token))
      BY <2>6, <2>7 DEF Known, Newest
    <3>2. ticket[2] >= session[token[1]].real + AccessTime
      BY <2>3, <2>5, <2>7
    <3>3. QED
      BY <1>1, <2>6, <2>2, <2>5, <2>8, <2>9, <2>11, <3>1, <3>2 DEF TabInv, Known, Newest
  <2>16. \A u \in Tabs \ {t} : TabInv(u)'
    BY <1>1, <2>11, <2>13, TabKept
  <2>17. NoNewAsk
    BY <2>11 DEF NoNewAsk
  <2>18. CookieInv'
    BY <1>1, <2>13, <2>17, CookieKept
  <2>19. AccessInv'
    <3>1. Limit' = Limit
      BY <1>1 DEF Limit
    <3>2. tab'[t].ticket[2] <= Limit + AccessTime
      BY <2>3, <2>5, <2>10, <2>11
    <3>3. QED
      BY <1>1, <2>11, <3>1, <3>2 DEF IInv, AccessInv, Never
  <2>20. GuessInv'
    BY <1>1 DEF IInv, GuessInv
  <2>21. QED
    BY <2>12, <2>14, <2>15, <2>16, <2>18, <2>19, <2>20 DEF IInv
<1>4. QED
  BY <1>2, <1>3

LEMMA SendSignoutInv ==
  ASSUME IInv, NEW t \in Tabs, SendSignout(t)
  PROVE  IInv'
<1> USE DEF cookies, loginVars
<1>1. PICK ticket \in (Sessions \X Nat) \cup {NoCookie} : ticket = IF HasAccess THEN access ELSE NoCookie
  BY DEF IInv, Typed
<1> DEFINE new == [kind |-> "signout", at |-> now, step |-> "sent", token |-> refresh, ticket |-> ticket]
<1>2. tab' = [tab EXCEPT ![t] = new] /\ UNCHANGED <<session, cookies, loginVars, now>>
  BY <1>1 DEF SendSignout, Ask
<1>3. /\ new \in Request /\ new.kind = "signout" /\ new.at = now /\ new.step = "sent"
      /\ new.token = refresh /\ new.ticket = ticket
  BY DEF IInv, Typed, Request
<1> HIDE DEF new
<1>4. tab'[t] = new /\ \A u \in Tabs \ {t} : tab'[u] = tab[u]
  BY <1>2 DEF IInv, Typed
<1>5. Typed'
  BY <1>2, <1>3 DEF IInv, Typed, Never
<1>6. RowsKept
  BY <1>2, SameKeeps DEF IInv
<1>7. \A s \in Sessions : RowInv(s)'
  BY <1>2, <1>5, <1>6, RowKept DEF IInv, Typed
<1>8. TabInv(t)'
  <2>1. refresh # NoCookie => Known(refresh)
    BY DEF IInv, CookieInv
  <2>2. now \in Nat /\ MaxDelay \in Nat
    BY SessionAssumption DEF IInv, Typed
  <2>3. QED
    BY <1>2, <1>3, <1>4, <2>1, <2>2 DEF TabInv, Known
<1>9. \A u \in Tabs \ {t} : TabInv(u)'
  BY <1>2, <1>4, <1>6, TabKept
<1>10. NoNewAsk
  BY <1>3, <1>4 DEF NoNewAsk
<1>11. CookieInv'
  BY <1>2, <1>6, <1>10, CookieKept
<1>12. AccessInv'
  <2>1. ticket # NoCookie => access # NoCookie /\ ticket = access
    BY <1>1
  <2>2. QED
    BY <1>2, <1>3, <1>4, <2>1 DEF IInv, AccessInv, Limit, Never
<1>13. GuessInv'
  BY <1>2 DEF IInv, GuessInv
<1>14. QED
  BY <1>5, <1>7, <1>8, <1>9, <1>11, <1>12, <1>13 DEF IInv

LEMMA SignoutInv ==
  ASSUME IInv, NEW t \in Tabs, Signout(t)
  PROVE  IInv'
<1>1. /\ tab[t] # NoRequest /\ Answer(t, NoCookie, NoCookie)
      /\ UNCHANGED <<cookies, loginVars, now>>
  BY DEF Signout
<1>2. \E rows : session' = Revoked(rows)
  BY DEF Signout
<1>3. RowsKept
  BY <1>2, RevokedKeeps DEF IInv
<1>4. QED
  BY <1>1, <1>3, SentAway

\* The request of a tab is done with.
LEMMA TabFreed ==
  ASSUME IInv, NEW t \in Tabs, tab' = [tab EXCEPT ![t] = NoRequest], UNCHANGED <<session, now>>
  PROVE  /\ tab' \in [Tabs -> Request \cup {NoRequest}]
         /\ tab'[t] = NoRequest /\ \A u \in Tabs \ {t} : tab'[u] = tab[u]
         /\ \A u \in Tabs : TabInv(u)'
         /\ NoNewAsk /\ RowsKept
<1>1. /\ tab' \in [Tabs -> Request \cup {NoRequest}]
      /\ tab'[t] = NoRequest /\ \A u \in Tabs \ {t} : tab'[u] = tab[u]
  BY DEF IInv, Typed
<1>2. RowsKept
  BY SameKeeps DEF IInv
<1>3. TabInv(t)'
  BY <1>1 DEF TabInv
<1>4. \A u \in Tabs \ {t} : TabInv(u)'
  BY <1>1, <1>2, TabKept
<1>5. NoNewAsk
  BY <1>1 DEF NoNewAsk
<1>6. QED
  BY <1>1, <1>2, <1>3, <1>4, <1>5

LEMMA LoseInv ==
  ASSUME IInv, NEW t \in Tabs, Lose(t)
  PROVE  IInv'
<1> USE DEF cookies, loginVars
<1>1. tab' = [tab EXCEPT ![t] = NoRequest] /\ UNCHANGED <<session, cookies, loginVars, now>>
  BY DEF Lose
<1>2. /\ tab' \in [Tabs -> Request \cup {NoRequest}]
      /\ tab'[t] = NoRequest /\ \A u \in Tabs \ {t} : tab'[u] = tab[u]
      /\ \A u \in Tabs : TabInv(u)'
      /\ NoNewAsk /\ RowsKept
  BY <1>1, TabFreed
<1>3. Typed'
  BY <1>1, <1>2 DEF IInv, Typed, Never
<1>4. \A s \in Sessions : RowInv(s)'
  BY <1>1, <1>2, <1>3, RowKept DEF IInv, Typed
<1>5. CookieInv'
  BY <1>1, <1>2, CookieKept
<1>6. AccessInv'
  BY <1>1, <1>2, AccessKept
<1>7. GuessInv'
  BY <1>1 DEF IInv, GuessInv
<1>8. QED
  BY <1>2, <1>3, <1>4, <1>5, <1>6, <1>7 DEF IInv

\* An answer that arrives with the token before the newest was asked for before the
\* newest was issued: it is too early for anybody to ask for the next with that one.
LEMMA DeliverInv ==
  ASSUME IInv, NEW t \in Tabs, Deliver(t)
  PROVE  IInv'
<1> USE DEF cookies, loginVars
<1>1. /\ tab[t] # NoRequest /\ tab[t].step = "answered"
      /\ tab' = [tab EXCEPT ![t] = NoRequest] /\ UNCHANGED <<session, loginVars, now>>
  BY DEF Deliver
<1>2. /\ tab' \in [Tabs -> Request \cup {NoRequest}]
      /\ tab'[t] = NoRequest /\ \A u \in Tabs \ {t} : tab'[u] = tab[u]
      /\ \A u \in Tabs : TabInv(u)'
      /\ NoNewAsk /\ RowsKept
  BY <1>1, TabFreed
<1>3. tab[t] \in Request
  BY <1>1 DEF IInv, Typed
<1>4. tab[t].token \in Token \cup {NoCookie} /\ tab[t].ticket \in (Sessions \X Nat) \cup {NoCookie}
  BY <1>3 DEF Request
<1>5. \/ UNCHANGED cookies
      \/ refresh' = tab[t].token /\ access' = tab[t].ticket
  BY DEF Deliver
<1>6. Typed'
  BY <1>1, <1>2, <1>4, <1>5 DEF IInv, Typed, Never
<1>7. \A s \in Sessions : RowInv(s)'
  BY <1>1, <1>2, <1>6, RowKept DEF IInv, Typed
<1>8. CookieInv'
  <2>1. CASE UNCHANGED cookies
    BY <1>2, <2>1, CookieKept
  <2>2. CASE refresh' = tab[t].token /\ access' = tab[t].ticket /\ tab[t].token = NoCookie
    BY <2>2 DEF CookieInv
  <2>3. CASE refresh' = tab[t].token /\ access' = tab[t].ticket /\ tab[t].token # NoCookie
    <3>1. PICK token \in Token : token = tab[t].token
      BY <1>4, <2>3
    <3>2. token # NoCookie /\ token[1] \in Sessions /\ token[2] \in Nat
      BY SessionAssumption DEF Token
    <3>3. tab[t].kind = "refresh"
      BY <1>1, <1>3, <2>3 DEF IInv, TabInv, Request
    <3>4. /\ Known(token)
          /\ Newest(token) \/ (token[2] = session[token[1]].prev /\ tab[t].at <= session[token[1]].real)
          /\ tab[t].ticket # NoCookie
          /\ Newest(token) => tab[t].ticket[2] >= session[token[1]].real + AccessTime
          /\ now <= tab[t].at + MaxDelay
      BY <1>1, <3>1, <3>2, <3>3 DEF IInv, TabInv
    <3>5. /\ session[token[1]].real \in Nat /\ tab[t].at \in Nat /\ now \in Nat
          /\ AccessTime \in Nat /\ MaxDelay \in Nat /\ MaxDelay < AccessTime
      BY <1>3, <3>2, SessionAssumption DEF IInv, Typed, Row, Request
    <3>6. ASSUME ~Newest(token), NEW u \in Tabs,
                 tab'[u] # NoRequest, tab'[u].kind = "refresh", tab'[u].step = "sent",
                 tab'[u].token[1] = token[1]
          PROVE  ~Newest(tab'[u].token)
      <4>1. tab'[u] = tab[u]
        BY <1>2, <3>6
      <4>2. tab[u].at \in Nat /\ tab[u].at <= now
        BY <3>6, <4>1 DEF IInv, Typed, TabInv, Request
      <4>3. ~ (tab[u].at >= session[token[1]].real + AccessTime)
        BY <3>4, <3>5, <3>6, <4>2
      <4>4. ~Newest(tab[u].token)
        BY <3>6, <4>1, <4>3 DEF IInv, TabInv
      <4>5. QED
        BY <4>1, <4>4
    <3>7. refresh' = token /\ access' = tab[t].ticket /\ session' = session
      BY <1>1, <2>3, <3>1
    <3>8. /\ Known(refresh)'
          /\ refresh'[2] \in {session'[refresh'[1]].cur, session'[refresh'[1]].prev}
          /\ Newest(refresh)' =>
               access' # NoCookie /\ access'[2] >= session'[refresh'[1]].real + AccessTime
      BY <3>4, <3>7 DEF Known, Newest
    <3>9. ASSUME ~Newest(refresh)', NEW u \in Tabs,
                 tab'[u] # NoRequest, tab'[u].kind = "refresh", tab'[u].step = "sent",
                 tab'[u].token[1] = refresh'[1]
          PROVE  tab'[u].token[2] # session'[tab'[u].token[1]].cur
      BY <3>6, <3>7, <3>9 DEF Newest
    <3>10. QED
      BY <3>8, <3>9 DEF CookieInv, Newest
  <2>4. QED
    BY <1>5, <2>1, <2>2, <2>3
<1>9. AccessInv'
  <2>1. access' # NoCookie => access'[2] <= Limit + AccessTime
    BY <1>1, <1>5 DEF IInv, AccessInv
  <2>2. Limit' = Limit
    BY <1>1 DEF Limit
  <2>3. QED
    BY <1>1, <1>2, <2>1, <2>2 DEF IInv, AccessInv, Never
<1>10. GuessInv'
  BY <1>1 DEF IInv, GuessInv
<1>11. QED
  BY <1>2, <1>6, <1>7, <1>8, <1>9, <1>10 DEF IInv

LEMMA ChangePasswordInv ==
  ASSUME IInv, ChangePassword
  PROVE  IInv'
<1>1. /\ session' = Revoked(Sessions) /\ refresh' = NoCookie /\ access' = NoCookie
      /\ UNCHANGED <<tab, lostAt, failures, guesses, now>>
  BY DEF ChangePassword, EndedByPassword
<1>2. RowsKept
  BY <1>1, RevokedKeeps DEF IInv
<1>3. Typed'
  BY <1>1, <1>2 DEF IInv, Typed, RowsKept, Never
<1>4. \A s \in Sessions : RowInv(s)'
  BY <1>1, <1>2, <1>3, RowKept DEF IInv, Typed
<1>5. \A t \in Tabs : TabInv(t)'
  BY <1>1, <1>2, TabKept
<1>6. CookieInv' /\ AccessInv' /\ GuessInv'
  BY <1>1 DEF IInv, CookieInv, AccessInv, Limit, Never, GuessInv
<1>7. QED
  BY <1>3, <1>4, <1>5, <1>6 DEF IInv

LEMMA LoseEntryInv ==
  ASSUME IInv, LoseEntry
  PROVE  IInv'
<1> USE DEF cookies, loginVars
<1>1. /\ now < lostAt /\ lostAt' = now
      /\ UNCHANGED <<session, cookies, tab, failures, guesses, now>>
  BY DEF LoseEntry, Allowed, IInv, Typed, Never
<1>2. RowsKept /\ NoNewAsk
  BY <1>1, SameKeeps DEF IInv, NoNewAsk
<1>3. Typed'
  BY <1>1, SessionAssumption DEF IInv, Typed, Never
<1>4. \A s \in Sessions : RowInv(s)'
  BY <1>1, <1>2, <1>3, RowKept DEF IInv, Typed
<1>5. \A t \in Tabs : TabInv(t)'
  BY <1>1, <1>2, TabKept
<1>6. CookieInv'
  BY <1>1, <1>2, CookieKept
<1>7. Limit = now /\ Limit' = now
  BY <1>1 DEF Limit, IInv, Typed, Never
<1>8. AccessInv'
  BY <1>1, <1>7 DEF IInv, Typed, AccessInv
<1>9. GuessInv'
  BY <1>1 DEF IInv, GuessInv
<1>10. QED
  BY <1>3, <1>4, <1>5, <1>6, <1>8, <1>9 DEF IInv

\* Nothing is on its way for longer than MaxDelay, and what is forgotten is forgotten
\* for the address as for the guesses.
LEMMA TickInv ==
  ASSUME IInv, Tick
  PROVE  IInv'
<1> USE DEF cookies
<1>1. /\ now < MaxTime /\ now' = now + 1 /\ UNCHANGED <<session, cookies, tab, lostAt>>
      /\ failures' = [k \in Keys |-> Pruned(failures[k], now')]
      /\ guesses' = Pruned(guesses, now')
      /\ \A t \in Tabs : tab[t] # NoRequest => tab[t].at + MaxDelay > now
  BY DEF Tick
<1>2. now \in Nat /\ now' \in 0..MaxTime /\ now' >= now
  BY <1>1, SessionAssumption DEF IInv, Typed
<1>3. Typed'
  <2>1. guesses' \in Seq(0..MaxTime)
    BY <1>1, PrunedTyped DEF IInv, Typed
  <2>2. \A k \in Keys : Pruned(failures[k], now') \in Seq(0..MaxTime)
    BY PrunedTyped DEF IInv, Typed
  <2>3. failures' \in [Keys -> Seq(0..MaxTime)]
    BY <1>1, <2>2
  <2>4. QED
    BY <1>1, <1>2, <2>1, <2>3 DEF IInv, Typed, Never
<1>4. RowsKept /\ NoNewAsk
  BY <1>1, SameKeeps DEF IInv, NoNewAsk
<1>5. \A s \in Sessions : RowInv(s)'
  BY <1>2, <1>3, <1>4, RowKept
<1>6. ASSUME NEW t \in Tabs PROVE TabInv(t)'
  <2>1. CASE tab[t] = NoRequest
    BY <1>1, <2>1 DEF TabInv
  <2>2. CASE tab[t] # NoRequest
    <3>1. tab[t].at \in Nat /\ MaxDelay \in Nat
      BY <2>2, SessionAssumption DEF IInv, Typed, Request
    <3>2. tab[t].at <= now' /\ now' <= tab[t].at + MaxDelay
      BY <1>1, <1>2, <2>2, <3>1 DEF IInv, TabInv
    <3>3. QED
      BY <1>1, <2>2, <3>2 DEF IInv, TabInv, Known, Newest
  <2>3. QED
    BY <2>1, <2>2
<1>7. CookieInv'
  BY <1>1, <1>4, CookieKept
<1>8. AccessInv'
  <2>1. Limit \in Nat /\ Limit' \in Nat /\ Limit <= Limit' /\ AccessTime \in Nat
    BY <1>1, <1>2, SessionAssumption DEF IInv, Typed, Limit, Never
  <2>2. lostAt = Never \/ lostAt <= now'
    BY <1>1, <1>2, SessionAssumption DEF IInv, Typed, AccessInv, Never
  <2>3. access # NoCookie => access[2] \in Nat
    BY DEF IInv, Typed
  <2>4. ASSUME NEW t \in Tabs, tab[t] # NoRequest, tab[t].ticket # NoCookie
        PROVE  tab[t].ticket[2] \in Nat
    BY <2>4 DEF IInv, Typed, Request
  <2>5. QED
    BY <1>1, <2>1, <2>2, <2>3, <2>4 DEF IInv, AccessInv, Never
<1>9. GuessInv'
  <2>1. guesses' = failures'[Ip]
    BY <1>1 DEF IInv, GuessInv, Keys
  <2>2. Len(guesses') <= Len(guesses) /\ guesses' \in Seq(0..MaxTime) /\ guesses \in Seq(0..MaxTime)
    BY <1>1, PrunedTyped DEF IInv, Typed
  <2>3. Len(guesses') \in Nat /\ Len(guesses) \in Nat
    BY <2>2, LenProperties
  <2>4. QED
    BY <2>1, <2>2, <2>3, SessionAssumption DEF IInv, GuessInv
<1>10. QED
  BY <1>3, <1>5, <1>6, <1>7, <1>8, <1>9 DEF IInv

LEMMA StepInv == IInv /\ [Next]_vars => IInv'
<1> SUFFICES ASSUME IInv, [Next]_vars PROVE IInv'
  OBVIOUS
<1>1. ASSUME NEW u \in Names, WrongPassword(u) PROVE IInv'
  BY <1>1, WrongPasswordInv
<1>2. ASSUME NEW u \in Names, NEW s \in Sessions, Login(s, u) PROVE IInv'
  BY <1>2, LoginInv
<1>3. ASSUME NEW t \in Tabs, SendRefresh(t) PROVE IInv'
  BY <1>3, SendRefreshInv
<1>4. ASSUME NEW t \in Tabs, Rotate(t) PROVE IInv'
  BY <1>4, RotateInv
<1>5. ASSUME NEW t \in Tabs, Check(t) PROVE IInv'
  BY <1>5, CheckInv
<1>6. ASSUME NEW t \in Tabs, SendSignout(t) PROVE IInv'
  BY <1>6, SendSignoutInv
<1>7. ASSUME NEW t \in Tabs, Signout(t) PROVE IInv'
  BY <1>7, SignoutInv
<1>8. ASSUME NEW t \in Tabs, Deliver(t) PROVE IInv'
  BY <1>8, DeliverInv
<1>9. ASSUME NEW t \in Tabs, Lose(t) PROVE IInv'
  BY <1>9, LoseInv
<1>10. CASE ChangePassword
  BY <1>10, ChangePasswordInv
<1>11. CASE LoseEntry
  BY <1>11, LoseEntryInv
<1>12. CASE Tick
  BY <1>12, TickInv
<1>13. CASE UNCHANGED vars
  <2>1. RowsKept /\ NoNewAsk /\ Typed'
    BY <1>13, SameKeeps DEF vars, IInv, NoNewAsk, Typed, Never
  <2>2. \A s \in Sessions : RowInv(s)'
    BY <1>13, <2>1, RowKept DEF vars, IInv, Typed
  <2>3. \A t \in Tabs : TabInv(t)'
    BY <1>13, <2>1, TabKept DEF vars
  <2>4. CookieInv'
    BY <1>13, <2>1, CookieKept DEF vars, cookies
  <2>5. AccessInv' /\ GuessInv'
    BY <1>13 DEF vars, IInv, AccessInv, Limit, Never, GuessInv
  <2>6. QED
    BY <2>1, <2>2, <2>3, <2>4, <2>5 DEF IInv
<1>14. QED
  BY <1>1, <1>2, <1>3, <1>4, <1>5, <1>6, <1>7, <1>8, <1>9, <1>10, <1>11, <1>12, <1>13 DEF Next

(***************************************************************************)
(* The theorems.                                                           *)
(***************************************************************************)
\* The invariant is an invariant of the sessions.
THEOREM Invariance == Spec => []IInv
  BY InitInv, StepInv, PTL DEF Spec

\* The variables have their types.
THEOREM TypeCorrect == Spec => []TypeOK
<1>1. IInv => TypeOK
  <2> SUFFICES ASSUME IInv PROVE TypeOK
    OBVIOUS
  <2>1. \A k \in Keys : \A i \in DOMAIN failures[k] : failures[k][i] \in 0..MaxTime
    <3> SUFFICES ASSUME NEW k \in Keys, NEW i \in DOMAIN failures[k] PROVE failures[k][i] \in 0..MaxTime
      OBVIOUS
    <3> DEFINE T == 0..MaxTime
    <3>1. failures[k] \in Seq(T)
      BY DEF IInv, Typed
    <3> HIDE DEF T
    <3>2. failures[k][i] \in T
      BY <3>1, ElementOfSeq, LenProperties
    <3>3. QED
      BY <3>2 DEF T
  <2>2. \A i \in DOMAIN guesses : guesses[i] \in 0..MaxTime
    <3> SUFFICES ASSUME NEW i \in DOMAIN guesses PROVE guesses[i] \in 0..MaxTime
      OBVIOUS
    <3> DEFINE T == 0..MaxTime
    <3>1. guesses \in Seq(T)
      BY DEF IInv, Typed
    <3> HIDE DEF T
    <3>2. guesses[i] \in T
      BY <3>1, ElementOfSeq, LenProperties
    <3>3. QED
      BY <3>2 DEF T
  <2>3. QED
    BY <2>1, <2>2 DEF IInv, Typed, TypeOK
<1>2. QED
  BY <1>1, Invariance, PTL

\* However refreshes and their answers interleave, the browser of a live session
\* holds a token that the server still knows (_next_refresh_token).
THEOREM TokenIsKnown == Spec => []CookieIsKnown
<1>1. IInv => CookieIsKnown
  BY DEF IInv, CookieInv, CookieIsKnown
<1>2. QED
  BY <1>1, Invariance, PTL

\* Who has lost the right to enter keeps no access beyond what was issued until then
\* (auth_refresh).
THEOREM EntryEndsAccess == Spec => []AccessEndsWithEntry
<1>1. IInv => AccessEndsWithEntry
  BY DEF IInv, AccessInv, Limit, HasAccess, AccessEndsWithEntry
<1>2. QED
  BY <1>1, Invariance, PTL

\* From one address no more than the limit of wrong passwords is checked within a
\* window, whoever signs in in between (login_throttle.clear: "not the IP's").
THEOREM GuessesAreBounded == Spec => []GuessesBounded
<1>1. IInv => GuessesBounded
  BY DEF IInv, GuessInv, GuessesBounded
<1>2. QED
  BY <1>1, Invariance, PTL

\* Only a rotation turns a request that was sent into one that was accepted.
LEMMA OnlyRotate ==
  ASSUME IInv, [Next]_vars, NEW t \in Tabs, tab[t] # NoRequest, tab'[t] # NoRequest,
         tab[t].step = "sent", tab'[t].step = "rotated"
  PROVE  Rotate(t)
<1>1. tab \in [Tabs -> Request \cup {NoRequest}] /\ tab' \in [Tabs -> Request \cup {NoRequest}]
  BY StepInv DEF IInv, Typed
<1>2. tab' # tab
  OBVIOUS
<1>3. ASSUME NEW u \in Tabs, u # t, \A v \in Tabs \ {u} : tab'[v] = tab[v]
      PROVE  FALSE
  BY <1>3
<1>4. ASSUME NEW u \in Tabs, Ask(u, "refresh") \/ Ask(u, "signout") PROVE FALSE
  BY <1>1, <1>4 DEF Ask
<1>5. ASSUME NEW u \in Tabs, NEW token, NEW ticket, Answer(u, token, ticket) PROVE FALSE
  BY <1>1, <1>5 DEF Answer
<1>6. ASSUME NEW u \in Tabs, tab' = [tab EXCEPT ![u] = NoRequest] PROVE FALSE
  BY <1>1, <1>6
<1>7. ASSUME NEW u \in Tabs, Rotate(u) PROVE u = t
  <2>1. CASE Accept(u)
    <3>1. PICK s : tab' = [tab EXCEPT ![u].step = "rotated", ![u].token = s]
      BY <2>1 DEF Accept
    <3>2. QED
      BY <1>1, <3>1
  <2>2. CASE Refuse(u)
    BY <1>5, <2>2 DEF Refuse
  <2>3. QED
    BY <1>7, <2>1, <2>2 DEF Rotate
<1>8. ASSUME NEW u \in Tabs,
             SendRefresh(u) \/ Check(u) \/ SendSignout(u) \/ Signout(u) \/ Deliver(u) \/ Lose(u)
      PROVE  FALSE
  BY <1>4, <1>5, <1>6, <1>8 DEF SendRefresh, Check, SendSignout, Signout, Deliver, Lose
<1>9. QED
  BY <1>2, <1>7, <1>8 DEF Next, vars, WrongPassword, Login, ChangePassword, LoseEntry, Tick

\* A superseded token is accepted within the grace period of the rotation that
\* superseded it, and not after (rotate_refresh).
THEOREM GraceIsAnchored == Spec => GraceEnds
<1>1. ASSUME IInv, [Next]_vars, NEW t \in Tabs, NEW s \in Sessions,
             tab[t] # NoRequest, tab'[t] # NoRequest, tab[t].step = "sent", tab'[t].step = "rotated",
             tab[t].token[1] = s, tab[t].token[2] # session[s].cur
      PROVE  session[s].real + Grace > now
  <2>1. Rotate(t)
    BY <1>1, OnlyRotate
  <2>2. tab \in [Tabs -> Request \cup {NoRequest}] /\ session[s].last = session[s].real
    BY <1>1 DEF IInv, Typed, RowInv
  <2>3. ~ Refuse(t)
    <3>1. ASSUME Refuse(t) PROVE FALSE
      <4>1. Answer(t, NoCookie, NoCookie)
        BY <3>1 DEF Refuse
      <4>2. tab'[t].step = "answered"
        BY <1>1, <4>1, AnswerAt DEF IInv
      <4>3. QED
        BY <1>1, <4>2
    <3>2. QED
      BY <3>1
  <2>4. ~ Current(s, tab[t].token[2])
    BY <1>1 DEF Current
  <2>5. InGrace(s)
    BY <1>1, <2>1, <2>3, <2>4 DEF Rotate, Accept
  <2>6. QED
    BY <2>2, <2>5 DEF InGrace
<1>2. IInv /\ [Next]_vars =>
        [\A t \in Tabs : \A s \in Sessions :
           tab[t] # NoRequest /\ tab'[t] # NoRequest /\ tab[t].step = "sent" /\ tab'[t].step = "rotated"
           /\ tab[t].token[1] = s /\ tab[t].token[2] # session[s].cur
             => session[s].real + Grace > now]_vars
  BY <1>1
<1>3. QED
  BY <1>2, Invariance, PTL DEF Spec, GraceEnds
=============================================================================
