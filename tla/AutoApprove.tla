----------------------------- MODULE AutoApprove ------------------------------
(***************************************************************************)
(* How a request skips review (auto_approve.py, auto_approve_requests.py,  *)
(* create_request in core_submit.py, the auto-grants of routes_admin.py):  *)
(* a waiver that covers it, made by an admin or by approving a window the  *)
(* person asked for, or a query of the same fingerprint that has completed.*)
(*                                                                         *)
(* Abstracted: one person and one target that lets everything skip review, *)
(* one database, one fingerprint; the tiers read (0) and write (1); nobody *)
(* is a super-admin, no team has a waiver, and no write comes by the MCP   *)
(* door.  A finding of the cache names a request, here only that it exists.*)
(***************************************************************************)
EXTENDS Naturals, FiniteSets

CONSTANTS
  Windows,   \* auto_approve_requests
  Waivers,   \* auto_approve_grants
  Deciders,  \* the admins who decide windows
  Requests,  \* requests of the person
  NoWindow, NoDecider,
  MaxLength, \* auto_approve_max_days
  Ttl,       \* fingerprint_cache_ttl_days
  MaxDay,    \* bound: days
  MaxActs    \* bound: what admins change

ASSUME AutoApproveAssumption ==
  /\ NoWindow \notin Windows /\ NoDecider \notin Deciders
  /\ MaxLength \in Nat \ {0} /\ Ttl \in Nat /\ MaxDay \in Nat /\ MaxActs \in Nat

VARIABLES
  window,   \* window requests
  waiver,   \* waivers; a deleted one is remembered
  decider,  \* what each admin is deciding
  request,  \* requests, from their submission on
  held,     \* the tier the person holds on the target
  rwOn,     \* auto_approve_rw_requests
  day,
  acts      \* changes by admins so far

vars == <<window, waiver, decider, request, held, rwOn, day, acts>>

Levels   == {0, 1}
Days    == 0 .. MaxDay
Ends    == 0 .. MaxDay + MaxLength
Window  == [status : {"none", "pending", "approved", "rejected", "withdrawn"}, tier : Levels]
Waiver  == [state : {"none", "written", "on", "off", "gone"}, by : Deciders \cup {NoDecider},
            of : Windows \cup {NoWindow}, tier : Levels, from : Days, until : Ends]
Decider == [step : {"idle", "checked", "written"}, of : Windows \cup {NoWindow}]
\* `at` is the day of the submission, `due` of the run, `done` of its completion.
Request == [step : {"new", "asked", "pending", "approved", "rejected", "completed"},
            basis : {"none", "waiver", "cache", "person"}, tier : Levels,
            at : Days, due : Ends, done : Days]

TypeOK ==
  /\ window \in [Windows -> Window]
  /\ waiver \in [Waivers -> Waiver]
  /\ decider \in [Deciders -> Decider]
  /\ request \in [Requests -> Request]
  /\ held \in Levels /\ rwOn \in BOOLEAN /\ day \in Days /\ acts \in 0 .. MaxActs

Unwritten == [state |-> "none", by |-> NoDecider, of |-> NoWindow, tier |-> 0,
              from |-> 0, until |-> 0]
Free      == [step |-> "idle", of |-> NoWindow]

Init ==
  /\ window = [w \in Windows |-> [status |-> "none", tier |-> 0]]
  /\ waiver = [g \in Waivers |-> Unwritten]
  /\ decider = [d \in Deciders |-> Free]
  /\ request = [r \in Requests |-> [step |-> "new", basis |-> "none", tier |-> 0,
                                    at |-> 0, due |-> 0, done |-> 0]]
  /\ held \in Levels /\ rwOn \in BOOLEAN /\ day = 0 /\ acts = 0

(***************************************************************************)
(* Windows.                                                                *)
(***************************************************************************)
RwAllowed == rwOn /\ held = 1

\* submit_window; the partial unique index admits one that is pending.
AskWindow(w, tier) ==
  /\ window[w].status = "none"
  /\ \A v \in Windows : window[v].status # "pending"
  /\ tier = 1 => RwAllowed
  /\ window' = [window EXCEPT ![w] = [status |-> "pending", tier |-> tier]]
  /\ UNCHANGED <<waiver, decider, request, held, rwOn, day, acts>>

\* withdraw, and decide_window(approve=False): one UPDATE of a pending row.
Close(w, status) ==
  /\ window[w].status = "pending"
  /\ window' = [window EXCEPT ![w].status = status]
  /\ UNCHANGED <<waiver, decider, request, held, rwOn, day, acts>>

\* decide_window(approve=True) reads all it checks before it writes.
CheckWindow(d, w) ==
  /\ decider[d].step = "idle" /\ window[w].status = "pending"
  /\ window[w].tier = 1 => RwAllowed
  /\ decider' = [decider EXCEPT ![d] = [step |-> "checked", of |-> w]]
  /\ UNCHANGED <<window, waiver, request, held, rwOn, day, acts>>

\* INSERT INTO auto_approve_grants: nobody else sees the row before the commit.
WriteWaiver(d, g) ==
  LET w == decider[d].of
  IN /\ decider[d].step = "checked" /\ waiver[g].state = "none"
     /\ waiver' = [waiver EXCEPT ![g] =
          [state |-> "written", by |-> d, of |-> w, tier |-> window[w].tier,
           from |-> day, until |-> day + MaxLength]]
     /\ decider' = [decider EXCEPT ![d].step = "written"]
     /\ UNCHANGED <<window, request, held, rwOn, day, acts>>

Committed(d) ==
  [g \in Waivers |-> IF waiver[g].by = d THEN [waiver[g] EXCEPT !.state = "on", !.by = NoDecider]
                     ELSE waiver[g]]
RolledBack(d) == [g \in Waivers |-> IF waiver[g].by = d THEN Unwritten ELSE waiver[g]]

\* Mutant: the waiver stays though the request was decided meanwhile.
MarkWindowAnyway(d) ==
  LET w == decider[d].of
  IN /\ decider[d].step = "written"
     /\ window' = IF window[w].status = "pending"
                  THEN [window EXCEPT ![w].status = "approved"] ELSE window
     /\ waiver' = Committed(d)
     /\ decider' = [decider EXCEPT ![d] = Free]
     /\ UNCHANGED <<request, held, rwOn, day, acts>>

\* UPDATE ... WHERE status = 'pending', then the commit, or the rollback when it
\* found no row.
MarkWindow(d) ==
  LET w == decider[d].of
      pending == window[w].status = "pending"
  IN /\ decider[d].step = "written"
     /\ window' = IF pending THEN [window EXCEPT ![w].status = "approved"] ELSE window
     /\ waiver' = IF pending THEN Committed(d) ELSE RolledBack(d)
     /\ decider' = [decider EXCEPT ![d] = Free]
     /\ UNCHANGED <<request, held, rwOn, day, acts>>

\* The process of the admin dies: an open transaction is undone.
Crash(d) ==
  /\ decider[d].step # "idle"
  /\ waiver' = RolledBack(d)
  /\ decider' = [decider EXCEPT ![d] = Free]
  /\ UNCHANGED <<window, request, held, rwOn, day, acts>>

(***************************************************************************)
(* What admins change.                                                     *)
(***************************************************************************)
Act == acts < MaxActs /\ acts' = acts + 1 /\ UNCHANGED <<window, decider, request, day>>

\* admin_create_auto_grant; the person must hold what the rule covers.
CreateRule(g, tier, until) ==
  /\ Act
  /\ waiver[g].state = "none" /\ tier <= held /\ until > day /\ until <= day + MaxLength
  /\ waiver' = [waiver EXCEPT ![g] = [Unwritten EXCEPT !.state = "on", !.tier = tier,
                                                       !.from = day, !.until = until]]
  /\ UNCHANGED <<held, rwOn>>

\* admin_set_auto_grant: 409 for a rule that has ended.
SwitchRule(g) ==
  /\ Act
  /\ waiver[g].state \in {"on", "off"} /\ waiver[g].until > day
  /\ waiver' = [waiver EXCEPT ![g].state = IF @ = "on" THEN "off" ELSE "on"]
  /\ UNCHANGED <<held, rwOn>>

\* admin_delete_auto_grant.
DeleteRule(g) ==
  /\ Act
  /\ waiver[g].state \in {"on", "off"}
  /\ waiver' = [waiver EXCEPT ![g].state = "gone"]
  /\ UNCHANGED <<held, rwOn>>

\* The access of the person and the switch change elsewhere.
ChangeAccess == Act /\ held' = 1 - held /\ UNCHANGED <<waiver, rwOn>>
SwitchRw     == Act /\ rwOn' = ~rwOn /\ UNCHANGED <<waiver, held>>

(***************************************************************************)
(* Submission.                                                             *)
(***************************************************************************)
\* active_grants, grant_covers.
Covers(tier, at) ==
  \E g \in Waivers : /\ waiver[g].state = "on" /\ waiver[g].tier >= tier
                     /\ waiver[g].from <= at /\ waiver[g].until > at

\* validate_submission has found the tier within the access; then decision(now).
Submit(r, tier, due) ==
  /\ request[r].step = "new" /\ tier <= held /\ due >= day
  /\ request' = [request EXCEPT ![r] =
       [step |-> "asked", basis |-> IF Covers(tier, day) THEN "waiver" ELSE "none",
        tier |-> tier, at |-> day, due |-> due, done |-> 0]]
  /\ UNCHANGED <<window, waiver, decider, held, rwOn, day, acts>>

\* Mutant: the answer for now is taken for the day of the run.
LapsesNever(r) == FALSE

\* decision(at_time=scheduled_for).
Lapses(r) == request[r].due > request[r].at /\ ~Covers(request[r].tier, request[r].due)

Counts(q) == request[q].step = "completed" /\ request[q].done + Ttl >= day

\* fingerprint_cache_hit.
CacheHit == \E q \in Requests : request[q].tier = 0 /\ Counts(q)

\* The day of the run is asked next, the cache of reads only; then the row is
\* inserted.
Insert(r) ==
  LET waived == request[r].basis = "waiver" /\ ~Lapses(r)
      cached == ~waived /\ request[r].tier = 0 /\ CacheHit
      basis  == IF waived THEN "waiver" ELSE IF cached THEN "cache" ELSE "none"
  IN /\ request[r].step = "asked"
     /\ request' = [request EXCEPT ![r].basis = basis,
                      ![r].step = IF basis = "none" THEN "pending" ELSE "approved"]
     /\ UNCHANGED <<window, waiver, decider, held, rwOn, day, acts>>

\* A person decides (core_decide.py).
Review(r, step) ==
  /\ request[r].step = "pending"
  /\ request' = [request EXCEPT ![r].step = step, ![r].basis = "person"]
  /\ UNCHANGED <<window, waiver, decider, held, rwOn, day, acts>>

\* The executor runs it, on its day or later.
Complete(r) ==
  /\ request[r].step = "approved" /\ request[r].due <= day
  /\ request' = [request EXCEPT ![r].step = "completed", ![r].done = day]
  /\ UNCHANGED <<window, waiver, decider, held, rwOn, day, acts>>

Tick == day < MaxDay /\ day' = day + 1
        /\ UNCHANGED <<window, waiver, decider, request, held, rwOn, acts>>

Next ==
  \/ \E w \in Windows, tier \in Levels : AskWindow(w, tier)
  \/ \E w \in Windows, status \in {"rejected", "withdrawn"} : Close(w, status)
  \/ \E d \in Deciders, w \in Windows : CheckWindow(d, w)
  \/ \E d \in Deciders, g \in Waivers : WriteWaiver(d, g)
  \/ \E d \in Deciders : MarkWindow(d) \/ Crash(d)
  \/ \E g \in Waivers, tier \in Levels, until \in Ends : CreateRule(g, tier, until)
  \/ \E g \in Waivers : SwitchRule(g) \/ DeleteRule(g)
  \/ ChangeAccess
  \/ SwitchRw
  \/ \E r \in Requests, tier \in Levels, due \in Days : Submit(r, tier, due)
  \/ \E r \in Requests : Insert(r) \/ Complete(r)
  \/ \E r \in Requests, step \in {"approved", "rejected"} : Review(r, step)
  \/ Tick

Spec == Init /\ [][Next]_vars

(***************************************************************************)
(* Properties.                                                             *)
(***************************************************************************)
\* A window that was approved has led to exactly one waiver and any other to
\* none, whatever two admins and the requester do at once (decide_window inserts
\* the waiver before its guarded UPDATE).
WindowHasItsWaiver ==
  \A w \in Windows :
    Cardinality({g \in Waivers : waiver[g].of = w /\ waiver[g].state \in {"on", "off", "gone"}})
      = IF window[w].status = "approved" THEN 1 ELSE 0

\* Nothing skips review without a reason.  With a waiver, one covered the day of
\* the submission and one covers the day of the run, though admins switch and
\* delete waivers between the two questions; by the cache, the chain of repeats
\* goes back to a read that a person or a waiver approved and that completed.
SkipsWithReason ==
  \A r \in Requests :
    request[r].step \in {"approved", "completed"} =>
      /\ request[r].basis = "waiver" =>
           \A at \in {request[r].at, request[r].due} :
             \E g \in Waivers : /\ waiver[g].state \in {"on", "off", "gone"}
                                /\ waiver[g].tier >= request[r].tier
                                /\ waiver[g].from <= at /\ waiver[g].until > at
      /\ request[r].basis = "cache" =>
           \E q \in Requests : /\ request[q].basis \in {"person", "waiver"}
                               /\ request[q].tier = 0 /\ request[r].tier = 0
                               /\ request[q].step = "completed"

\* What migration 044 says: "a prior approval older than
\* fingerprint_cache_ttl_days no longer counts".  Repeats renew it.
CacheRestsOnRecentApproval ==
  \A r \in Requests :
    request[r].basis = "cache" =>
      \E q \in Requests : /\ request[q].basis \in {"person", "waiver"}
                          /\ request[q].done + Ttl >= request[r].at
=============================================================================
