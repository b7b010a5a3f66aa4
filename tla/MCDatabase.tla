------------------------------ MODULE MCDatabase ------------------------------
(***************************************************************************)
(* Three parts that meet in the control database: the transactions of      *)
(* Bundles, the threads of DbPool and the pollers of AuthEvents.  In each  *)
(* behaviour one part moves and the others rest, so that one run checks    *)
(* all of them.                                                            *)
(***************************************************************************)
EXTENDS Bundles, TLC

CONSTANTS Threads, Cooldown, RetryWait, FirstWait
CONSTANTS Events, People, Pollers, Kind, Subject, Limit, MaxAttempts, MaxMoves, MaxCrashes, NoPass

VARIABLES part, up, pool, failed, thread, waited, trying,
          row, team, pass, told, moves, crashes

poolVars == <<up, pool, failed, thread, waited, trying>>
outVars  == <<row, team, pass, told, moves, crashes>>

Pool   == INSTANCE DbPool
Outbox == INSTANCE AuthEvents

ASSUME PartOutboxAssumption == Outbox!OutboxAssumption
ASSUME PartPoolAssumption   == Pool!DbPoolAssumption

\* A change for one person, one for a team, and one that cannot be built; a team
\* without members leaves nothing to send.
MCKind    == 1 :> "person" @@ 2 :> "team" @@ 3 :> "bad"
MCSubject == [e \in Events |-> CHOOSE u \in People : TRUE]

MCInit ==
  /\ part \in {"bundle", "pool", "outbox"}
  /\ Init /\ (part # "bundle" => \A i \in Items : item[i].by = "nobody")
  /\ Pool!Init
  /\ Outbox!Init /\ (part # "outbox" => team = {})

MCNext ==
  /\ UNCHANGED part
  /\ \/ part = "bundle" /\ Next /\ UNCHANGED <<poolVars, outVars>>
     \/ part = "pool" /\ Pool!Next /\ UNCHANGED <<vars, outVars>>
     \/ part = "outbox" /\ Outbox!Next /\ UNCHANGED <<vars, poolVars>>

all == <<part, vars, poolVars, outVars>>

\* The fairness of the part that moves: Pool!Fairness and Outbox!Fairness.
MCSpec ==
  /\ MCInit /\ [][MCNext]_all
  /\ WF_all(part = "pool" /\ Pool!Tick /\ UNCHANGED <<part, vars, outVars>>)
  /\ \A t \in Threads : WF_all(part = "pool" /\ Pool!Thread(t) /\ UNCHANGED <<part, vars, outVars>>)
  /\ \A p \in Pollers : WF_all(part = "outbox" /\ Outbox!Pass(p) /\ UNCHANGED <<part, vars, poolVars>>)

\* The types of the three.
TypesOK == TypeOK /\ Pool!TypeOK /\ Outbox!TypeOK
\* DbPool: no thread asks for longer than one attempt may take.
PoolOneWait == Pool!OneWait
\* DbPool: once the database stays up, the process gets its pool.
PoolRecovers == <>[](part = "pool" /\ up) => <>(pool = "open")
\* AuthEvents: no message disappears.
ToldOrGivenUp == Outbox!ToldOrGivenUp
\* AuthEvents: no message is repeated without a cause.
RepeatsHaveACause == Outbox!RepeatsHaveACause
\* AuthEvents: every row is settled in the end.
EveryRowSettles == Outbox!EveryRowSettles
=============================================================================
