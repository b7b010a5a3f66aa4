--------------------------- MODULE MCAdministration ---------------------------
(***************************************************************************)
(* Four parts that share nothing but the admins who look after them: the   *)
(* waivers (AutoApprove), the reconcile of people (SyncGuard), the CSV     *)
(* imports (CsvImport) and the checks of connections (ConnectionHealth).   *)
(* In each behaviour one part moves and the others rest, so that one run   *)
(* checks all four.                                                        *)
(***************************************************************************)
EXTENDS AutoApprove, TLC

CONSTANTS People, Runs, Limit, Day, MaxHolds, SyncTime,
          Presses,
          Targets, Jobs, Interval, HealthTime

VARIABLES
  part,
  now, enabled, keepers, holds, run,
  status, isNew, file, upload, press, task, loads, allowed, decision,
  clock, inUse, row, job, trouble

syncVars   == <<now, enabled, keepers, holds, run>>
csvVars    == <<status, isNew, file, upload, press, task, loads, allowed, decision>>
healthVars == <<clock, inUse, row, job, trouble>>

Sync   == INSTANCE SyncGuard WITH MaxTime <- SyncTime
Csv    == INSTANCE CsvImport
Health == INSTANCE ConnectionHealth
            WITH now <- clock, enabled <- inUse, run <- job, Runs <- Jobs, MaxTime <- HealthTime

ASSUME SyncAssumption   == Sync!SyncGuardAssumption
ASSUME CsvAssumption    == Csv!CsvImportAssumption
ASSUME HealthAssumption == Health!ConnectionHealthAssumption

\* At first the person holds the tier of writes and may ask for windows of it.
MCInit ==
  /\ part \in {"waivers", "sync", "csv", "health"}
  /\ Init /\ Sync!Init /\ Csv!Init /\ Health!Init
  /\ held = 1 /\ rwOn

MCNext ==
  /\ UNCHANGED part
  /\ \/ part = "waivers" /\ Next /\ UNCHANGED <<syncVars, csvVars, healthVars>>
     \/ part = "sync" /\ Sync!Next /\ UNCHANGED <<vars, csvVars, healthVars>>
     \/ part = "csv" /\ Csv!Next /\ UNCHANGED <<vars, syncVars, healthVars>>
     \/ part = "health" /\ Health!Next /\ UNCHANGED <<vars, syncVars, csvVars>>

MCSpec == MCInit /\ [][MCNext]_<<part, vars, syncVars, csvVars, healthVars>>

\* The deciders stand for the people and for two of the presses as well, the
\* requests for the runs and the jobs, the waivers for the targets: a permutation
\* of any of these sets renames values that only their names tell apart.
MCSymmetry == Permutations(Deciders) \cup Permutations(Requests) \cup Permutations(Waivers)

(***************************************************************************)
(* The properties of the instances, by names a configuration can give.     *)
(***************************************************************************)
\* The types of the four.
TypesOK == TypeOK /\ Sync!TypeOK /\ Csv!TypeOK /\ Health!TypeOK
\* SyncGuard: a large removal has a yes of its own that named all of it.
MassRemovalApproved == Sync!MassRemovalApproved
\* CsvImport: an import that was rejected last does not begin.
CsvRejectionStops == Csv!RejectionStops
\* CsvImport: the rows are copied once.
CsvLoadedOnce == Csv!LoadedOnce
\* ConnectionHealth: the list shows when a connection really began to fail.
HealthFailingSinceTrue == Health!FailingSinceTrue
=============================================================================
