---------------------------- MODULE WebSessions ----------------------------
(***************************************************************************)
(* The browser sessions of one person with a local account: sign-in behind *)
(* the throttle, the refresh token that several tabs share, sign-out and   *)
(* the change of the password.                                             *)
(*                                                                         *)
(* A refresh runs in a thread: its rotation commits before the checks that *)
(* may still end the session, and its answer reaches the browser later or  *)
(* never.  Sign-in and the change of the password run on the event loop    *)
(* without an await between their reads and writes: each is one step.      *)
(*                                                                         *)
(* The token that follows a token is derived from it: token n of a session *)
(* is followed by token n + 1 however often n is rotated.                  *)
(***************************************************************************)
EXTENDS Naturals, Sequences, FiniteSetsExt

CONSTANTS
  Sessions, Tabs, Names,
  NoCookie, NoRequest, NoToken,
  AccessTime,     \* web_access_token_minutes
  RefreshTime,    \* web_refresh_token_hours
  Grace,          \* web_refresh_grace_seconds
  MaxDelay,       \* how long a request and its answer may take together
  MaxFailures, Window,
  MaxTime

ASSUME SessionAssumption ==
  /\ AccessTime \in Nat \ {0} /\ RefreshTime \in Nat \ {0} /\ Grace \in Nat
  /\ MaxDelay \in Nat /\ MaxDelay < AccessTime
  /\ MaxFailures \in Nat \ {0} /\ Window \in Nat /\ MaxTime \in Nat
  /\ "ip" \notin Names
  /\ NoToken \notin Nat /\ NoCookie \notin Sessions \X Nat

VARIABLES
  session,   \* web_sessions
  refresh,   \* the refresh cookie: a session and the number of its token
  access,    \* the access cookie: a session and when it expires
  tab,       \* the request a tab is waiting for
  lostAt,    \* when the person lost the right to enter
  failures,  \* _FAILURES: the times of the failed sign-ins per key
  guesses,   \* the wrong passwords within the window that were checked at all
  now

vars == <<session, refresh, access, tab, lostAt, failures, guesses, now>>
cookies == <<refresh, access>>
loginVars == <<lostAt, failures, guesses>>

Never == MaxTime + 1
Ip == "ip"
Keys == Names \cup {Ip}

Row == [state: {"absent", "live", "revoked"}, cur: Nat, prev: Nat \cup {NoToken},
        last: 0..MaxTime,    \* last_refresh_at
        real: 0..MaxTime,    \* when the present token was first issued
        end: Nat]
Token == Sessions \X Nat
Request == [kind: {"refresh", "signout"}, at: 0..MaxTime, step: {"sent", "rotated", "answered"},
            token: Token \cup {NoCookie}, ticket: (Sessions \X Nat) \cup {NoCookie}]

TypeOK ==
  /\ session \in [Sessions -> Row]
  /\ refresh \in Token \cup {NoCookie}
  /\ access \in (Sessions \X Nat) \cup {NoCookie}
  /\ tab \in [Tabs -> Request \cup {NoRequest}]
  /\ lostAt \in 0..Never /\ now \in 0..MaxTime
  /\ \A k \in Keys : \A i \in DOMAIN failures[k] : failures[k][i] \in 0..MaxTime
  /\ \A i \in DOMAIN guesses : guesses[i] \in 0..MaxTime

Init ==
  /\ session = [s \in Sessions |-> [state |-> "absent", cur |-> 0, prev |-> NoToken, last |-> 0,
                                    real |-> 0, end |-> 0]]
  /\ refresh = NoCookie /\ access = NoCookie
  /\ tab = [t \in Tabs |-> NoRequest]
  /\ lostAt = Never
  /\ failures = [k \in Keys |-> <<>>] /\ guesses = <<>>
  /\ now = 0

Live(s) == session[s].state = "live" /\ session[s].end > now

\* Mutant: a state the table does not know.
RevokedAsClosed(rows) ==
  [s \in Sessions |-> IF s \in rows /\ session[s].state = "live"
                      THEN [session[s] EXCEPT !.state = "closed"] ELSE session[s]]

Revoked(rows) ==
  [s \in Sessions |-> IF s \in rows /\ session[s].state = "live"
                      THEN [session[s] EXCEPT !.state = "revoked"] ELSE session[s]]

HasAccess == access # NoCookie /\ access[2] > now
Allowed == lostAt > now

(***************************************************************************)
(* Sign-in and its throttle.                                               *)
(***************************************************************************)
\* _prune forgets what is older than the window, from the front, before anything
\* reads it: the model forgets it as time passes.
Pruned(times, at) ==
  LET fresh == {i \in DOMAIN times : at - times[i] <= Window}
  IN IF fresh = {} THEN <<>> ELSE SubSeq(times, Min(fresh), Len(times))

Throttled(u) == \E k \in {u, Ip} : Len(failures[k]) >= MaxFailures

\* Sweeping the keys at _MAX_KEYS forgets nothing that Pruned would keep.
WrongPassword(u) ==
  /\ ~Throttled(u)
  /\ guesses' = Append(guesses, now)
  /\ failures' = [k \in Keys |-> IF k \in {u, Ip} THEN Append(failures[k], now) ELSE failures[k]]
  /\ UNCHANGED <<session, cookies, tab, lostAt, now>>

\* login_throttle.clear: the name, and not the address.
Cleared(u) == [failures EXCEPT ![u] = <<>>]

Login(s, u) ==
  /\ session[s].state = "absent"
  /\ ~Throttled(u) /\ Allowed
  /\ failures' = Cleared(u)
  /\ session' = [session EXCEPT ![s] =
       [state |-> "live", cur |-> 0, prev |-> NoToken, last |-> now, real |-> now,
        end |-> now + RefreshTime]]
  /\ refresh' = <<s, 0>> /\ access' = <<s, now + AccessTime>>
  /\ UNCHANGED <<tab, lostAt, guesses, now>>

(***************************************************************************)
(* Refreshing.                                                             *)
(***************************************************************************)
Ask(t, kind) ==
  /\ tab[t] = NoRequest
  /\ tab' = [tab EXCEPT ![t] = [kind |-> kind, at |-> now, step |-> "sent", token |-> refresh,
                                ticket |-> IF HasAccess THEN access ELSE NoCookie]]
  /\ UNCHANGED <<session, cookies, loginVars, now>>

\* A tab refreshes when its access has run out.
SendRefresh(t) == ~HasAccess /\ refresh # NoCookie /\ Ask(t, "refresh")

Answer(t, token, ticket) ==
  tab' = [tab EXCEPT ![t].step = "answered", ![t].token = token, ![t].ticket = ticket]

Current(s, n)    == session[s].state = "live" /\ session[s].end > now /\ session[s].cur = n
Superseded(s, n) == session[s].state = "live" /\ session[s].prev = n
InGrace(s)       == session[s].end > now /\ Grace > 0 /\ session[s].last + Grace > now

\* What a rotation of token n leaves in the row.
Rotated(s, n) ==
  [session EXCEPT ![s].cur = n + 1, ![s].prev = n, ![s].last = now, ![s].real = now]

\* Mutant: a second rotation within the grace period starts the period anew.
RepairedAnew(s, n) == [session EXCEPT ![s].cur = n + 1, ![s].prev = n, ![s].last = now]

\* Mutant: a second rotation issues a token of its own.
RepairedAtRandom(s, n) == [session EXCEPT ![s].cur = session[s].cur + 10, ![s].prev = n]

\* The grace period: the row is repaired, last_refresh_at stays.
Repaired(s, n) == [session EXCEPT ![s].cur = n + 1, ![s].prev = n]

Accept(t) ==
  LET s == tab[t].token[1]
      n == tab[t].token[2]
  IN /\ \/ Current(s, n) /\ session' = Rotated(s, n)
        \/ ~Current(s, n) /\ Superseded(s, n) /\ InGrace(s) /\ session' = Repaired(s, n)
     /\ tab' = [tab EXCEPT ![t].step = "rotated", ![t].token = <<s, session'[s].cur>>]

Refuse(t) ==
  LET s == tab[t].token[1]
      n == tab[t].token[2]
  IN /\ ~Current(s, n) /\ ~(Superseded(s, n) /\ InGrace(s))
     /\ session' = IF Superseded(s, n) THEN Revoked({s}) ELSE session
     /\ Answer(t, NoCookie, NoCookie)

Rotate(t) ==
  /\ tab[t] # NoRequest /\ tab[t].kind = "refresh" /\ tab[t].step = "sent"
  /\ Accept(t) \/ Refuse(t)
  /\ UNCHANGED <<cookies, loginVars, now>>

\* Mutant: the right to enter is not looked at again.
CheckTrusting(t) ==
  /\ tab[t] # NoRequest /\ tab[t].kind = "refresh" /\ tab[t].step = "rotated"
  /\ Answer(t, tab[t].token, <<tab[t].token[1], now + AccessTime>>)
  /\ UNCHANGED <<session, cookies, loginVars, now>>

\* auth_refresh after the rotation: the right to enter, and the new access.
Check(t) ==
  /\ tab[t] # NoRequest /\ tab[t].kind = "refresh" /\ tab[t].step = "rotated"
  /\ IF Allowed
     THEN Answer(t, tab[t].token, <<tab[t].token[1], now + AccessTime>>) /\ UNCHANGED session
     ELSE Answer(t, NoCookie, NoCookie) /\ session' = Revoked({tab[t].token[1]})
  /\ UNCHANGED <<cookies, loginVars, now>>

(***************************************************************************)
(* Signing out.                                                            *)
(***************************************************************************)
SendSignout(t) == (refresh # NoCookie \/ HasAccess) /\ Ask(t, "signout")

\* By the refresh cookie if it is the current one, and else by the access.
Signout(t) ==
  /\ tab[t] # NoRequest /\ tab[t].kind = "signout" /\ tab[t].step = "sent"
  /\ LET byToken == {s \in Sessions : session[s].state = "live" /\ tab[t].token = <<s, session[s].cur>>}
         byAccess == IF tab[t].ticket # NoCookie /\ tab[t].ticket[2] > now THEN {tab[t].ticket[1]} ELSE {}
     IN session' = Revoked(IF byToken # {} THEN byToken ELSE byAccess)
  /\ Answer(t, NoCookie, NoCookie)
  /\ UNCHANGED <<cookies, loginVars, now>>

(***************************************************************************)
(* Answers, and what happens to the person.                                *)
(***************************************************************************)
\* A refused refresh leaves the cookies alone; a sign-out deletes them.
Deliver(t) ==
  /\ tab[t] # NoRequest /\ tab[t].step = "answered"
  /\ tab' = [tab EXCEPT ![t] = NoRequest]
  /\ IF tab[t].kind = "signout" \/ tab[t].ticket # NoCookie
     THEN refresh' = tab[t].token /\ access' = tab[t].ticket
     ELSE UNCHANGED cookies
  /\ UNCHANGED <<session, loginVars, now>>

Lose(t) ==
  /\ tab[t] # NoRequest /\ tab[t].step = "answered"
  /\ tab' = [tab EXCEPT ![t] = NoRequest]
  /\ UNCHANGED <<session, cookies, loginVars, now>>

\* revoke_user_in: every session of the person.
EndedByPassword == Revoked(Sessions)

ChangePassword ==
  /\ HasAccess /\ Live(access[1])
  /\ session' = EndedByPassword
  /\ refresh' = NoCookie /\ access' = NoCookie
  /\ UNCHANGED <<tab, lostAt, failures, guesses, now>>

LoseEntry ==
  /\ Allowed /\ lostAt' = now
  /\ UNCHANGED <<session, cookies, tab, failures, guesses, now>>

\* Nothing is on its way for longer than MaxDelay.
Tick ==
  /\ now < MaxTime
  /\ \A t \in {x \in Tabs : tab[x] # NoRequest} : tab[t].at + MaxDelay > now
  /\ now' = now + 1
  /\ failures' = [k \in Keys |-> Pruned(failures[k], now')]
  /\ guesses' = Pruned(guesses, now')
  /\ UNCHANGED <<session, cookies, tab, lostAt>>

Next ==
  \/ \E u \in Names : WrongPassword(u) \/ \E s \in Sessions : Login(s, u)
  \/ \E t \in Tabs :
       \/ SendRefresh(t)
       \/ Rotate(t)
       \/ Check(t)
       \/ SendSignout(t)
       \/ Signout(t)
       \/ Deliver(t)
       \/ Lose(t)
  \/ ChangePassword
  \/ LoseEntry
  \/ Tick

Spec == Init /\ [][Next]_vars

(***************************************************************************)
(* Properties.                                                             *)
(***************************************************************************)
\* However the tabs' refreshes and their answers interleave and get lost, the
\* browser of a live session holds a token the server still knows: a token that
\* is neither current nor previous would sign the person out at the next
\* refresh (_next_refresh_token).
CookieIsKnown ==
  refresh # NoCookie /\ session[refresh[1]].state = "live"
    => refresh[2] \in {session[refresh[1]].cur, session[refresh[1]].prev}

\* A superseded token is not accepted for longer than the grace period after
\* the rotation that superseded it, however often it is presented meanwhile
\* (rotate_refresh: "the window stays anchored to the real rotation").
GraceEnds ==
  [][\A t \in Tabs : \A s \in Sessions :
       tab[t] # NoRequest /\ tab'[t] # NoRequest /\ tab[t].step = "sent" /\ tab'[t].step = "rotated"
       /\ tab[t].token[1] = s /\ tab[t].token[2] # session[s].cur
         => session[s].real + Grace > now]_vars

\* Who has lost the right to enter has no access left once the access cookies
\* issued until then have expired, refreshed or not (auth_refresh).
AccessEndsWithEntry == HasAccess /\ lostAt <= now => access[2] <= lostAt + AccessTime

\* From one address no more than the limit of wrong passwords is checked within
\* a window, whatever names are tried and whichever of them signs in in between
\* (login_throttle: "not the IP's").
GuessesBounded == Len(guesses) <= MaxFailures

\* Signing out ends the session on the server (revoke_by_refresh: "logging out
\* must kill the server-side session, not just clear browser cookies").
SignoutEndsSession ==
  [][\A t \in Tabs :
       tab[t] # NoRequest /\ tab'[t] # NoRequest /\ tab[t].kind = "signout"
       /\ tab[t].step = "sent" /\ tab'[t].step = "answered" /\ tab[t].token # NoCookie
         => session'[tab[t].token[1]].state # "live"]_vars
=============================================================================
