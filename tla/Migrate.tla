------------------------------- MODULE Migrate --------------------------------
(***************************************************************************)
(* fdb-extract into PostgreSQL without a gateway (pg.rs): the tables of the*)
(* command line one after the other over one session, each by statements   *)
(* that commit by themselves, started again by hand after it has failed.   *)
(***************************************************************************)
EXTENDS Integers, Sequences, FiniteSets

CONSTANTS
  MigTables,       \* the tables, in the order they are migrated
  MaxMigFaults,    \* bound: failures of PostgreSQL, the network and the file in a run
  MaxMigRuns       \* bound: how often the program is started

ASSUME MigrateAssumption ==
  /\ MigTables \in Seq({MigTables[j] : j \in DOMAIN MigTables})
  /\ \A j, k \in DOMAIN MigTables : MigTables[j] = MigTables[k] => j = k
  /\ MaxMigFaults \in Nat /\ MaxMigRuns \in Nat

VARIABLES
  step,            \* "off", "database", "connect", or where migrate_table is: "drop", "create", "copy"
  job,             \* index of the table at work
  dropFirst,       \* --drop
  session,         \* "good", "broken"
  relation,        \* each table in PostgreSQL: "none", "empty" or "whole"
  report,          \* what the program has printed of each table in this run
  cause,           \* history: why a table has failed in this run
  result,          \* how the last run ended: "ok", "error"
  mishaps,         \* failures in this run
  runs             \* starts so far

migVars == <<step, job, dropFirst, session, relation, report, cause, result, mishaps, runs>>

AllTables == {MigTables[j] : j \in DOMAIN MigTables}
Table     == MigTables[job]

MigTypeOK ==
  /\ step \in {"off", "database", "connect", "drop", "create", "copy"}
  /\ job \in 1..(Len(MigTables) + 1)
  /\ dropFirst \in BOOLEAN
  /\ session \in {"good", "broken"}
  /\ relation \in [AllTables -> {"none", "empty", "whole"}]
  /\ report \in [AllTables -> {"-", "rows", "FAILED"}]
  /\ cause \in [AllTables -> {"-", "exists", "fault", "session"}]
  /\ result \in {"ok", "error"}
  /\ mishaps \in 0..MaxMigFaults /\ runs \in 0..MaxMigRuns

MigInit ==
  /\ step = "off" /\ job = 1
  /\ dropFirst = FALSE
  /\ session = "broken"
  /\ relation = [t \in AllTables |-> "none"]
  /\ report = [t \in AllTables |-> "-"] /\ cause = [t \in AllTables |-> "-"]
  /\ result = "ok"
  /\ mishaps = 0 /\ runs = 0

Mishap == mishaps < MaxMigFaults /\ mishaps' = mishaps + 1

-----------------------------------------------------------------------------
StartMigrate(drop) ==
  /\ step = "off"
  /\ runs < MaxMigRuns
  /\ runs' = runs + 1
  /\ step' = "database" /\ job' = 1
  /\ dropFirst' = drop
  /\ report' = [t \in AllTables |-> "-"] /\ cause' = [t \in AllTables |-> "-"]
  /\ mishaps' = 0
  /\ UNCHANGED <<session, relation, result>>

\* ensure_database: a database that is there already is no error.
EnsureDatabase ==
  /\ step = "database"
  /\ step' = "connect"
  /\ UNCHANGED <<job, dropFirst, session, relation, report, cause, result, mishaps, runs>>

FirstStep == IF dropFirst THEN "drop" ELSE "create"

Connect ==
  /\ step = "connect"
  /\ session' = "good"
  /\ step' = FirstStep
  /\ UNCHANGED <<job, dropFirst, relation, report, cause, result, mishaps, runs>>

\* Before the first table every error ends the run.
RunFails ==
  /\ step \in {"database", "connect"}
  /\ Mishap
  /\ step' = "off"
  /\ result' = "error"
  /\ UNCHANGED <<job, dropFirst, session, relation, report, cause, runs>>

-----------------------------------------------------------------------------
(***************************************************************************)
(* migrate_table.                                                          *)
(***************************************************************************)
At(place) == step = place /\ job <= Len(MigTables) /\ session = "good"

DropOld ==
  /\ At("drop")
  /\ relation' = [relation EXCEPT ![Table] = "none"]
  /\ step' = "create"
  /\ UNCHANGED <<job, dropFirst, session, report, cause, result, mishaps, runs>>

CreateNew ==
  /\ At("create")
  /\ relation[Table] = "none"
  /\ relation' = [relation EXCEPT ![Table] = "empty"]
  /\ step' = "copy"
  /\ UNCHANGED <<job, dropFirst, session, report, cause, result, mishaps, runs>>

Reported(text) ==
  /\ report' = [report EXCEPT ![Table] = text]
  /\ job' = job + 1
  /\ step' = FirstStep
  /\ UNCHANGED <<dropFirst, result, runs>>

\* Mutant: the COPY is given up without being finished.
CopyUnfinished ==
  /\ At("copy")
  /\ Reported("rows")
  /\ UNCHANGED <<session, relation, cause, mishaps>>

\* The dump and the end of the COPY, which is one transaction.
CopyAll ==
  /\ At("copy")
  /\ relation' = [relation EXCEPT ![Table] = "whole"]
  /\ Reported("rows")
  /\ UNCHANGED <<session, cause, mishaps>>

\* Mutant: the session is kept.
KeepSession(old, m) == session' = old /\ mishaps' = m

\* After a failure there is a new session; if none can be had, the old one is kept.
Reconnect(old, m) ==
  \/ session' = "good" /\ mishaps' = m
  \/ m < MaxMigFaults /\ session' = old /\ mishaps' = m + 1

Failed(why) ==
  /\ Reported("FAILED")
  /\ cause' = [cause EXCEPT ![Table] = why]
  /\ UNCHANGED relation

\* CREATE TABLE does not replace a table.
TableExists ==
  /\ At("create")
  /\ relation[Table] # "none"
  /\ Failed("exists")
  /\ Reconnect("good", mishaps)

\* A statement, the reading of the catalog or the dump fails; what has been
\* done of the table stays.  The session may break with it.
StepFails(breaks) ==
  /\ step \in {"drop", "create", "copy"} /\ job <= Len(MigTables) /\ session = "good"
  /\ mishaps < MaxMigFaults
  /\ Failed("fault")
  /\ Reconnect(IF breaks THEN "broken" ELSE "good", mishaps + 1)

\* A table that finds the session broken fails, and there is another attempt.
SessionGone ==
  /\ step \in {"drop", "create", "copy"} /\ job <= Len(MigTables) /\ session = "broken"
  /\ Failed("session")
  /\ Reconnect("broken", mishaps)

\* run_table_list returns Ok whatever has failed.
EndRun ==
  /\ step \in {"drop", "create"}
  /\ job > Len(MigTables)
  /\ step' = "off" /\ job' = 1
  /\ result' = "ok"
  /\ UNCHANGED <<dropFirst, session, relation, report, cause, mishaps, runs>>

MigNext ==
  \/ \E b \in BOOLEAN : StartMigrate(b) \/ StepFails(b)
  \/ EnsureDatabase \/ Connect \/ RunFails
  \/ DropOld \/ CreateNew \/ CopyAll \/ TableExists \/ SessionGone \/ EndRun

MigSpec == MigInit /\ [][MigNext]_migVars

-----------------------------------------------------------------------------
(***************************************************************************)
(* A table fails because something went wrong with it or with the session: *)
(* one failure does not take the tables that come after it with it.        *)
(* (the reconnection in run_table_list)                                    *)
(***************************************************************************)
OneFailureEach ==
  Cardinality({t \in AllTables : cause[t] \in {"fault", "session"}}) <= mishaps

(***************************************************************************)
(* Whatever earlier runs have left behind, empty tables included, a run    *)
(* with --drop in which nothing goes wrong leaves every table whole.       *)
(* (migrate_table)                                                         *)
(***************************************************************************)
CleanRunRepairs ==
  step = "off" /\ runs > 0 /\ dropFirst /\ mishaps = 0 => \A t \in AllTables : relation[t] = "whole"

=============================================================================
