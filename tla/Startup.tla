------------------------------- MODULE Startup -------------------------------
(***************************************************************************)
(* The way of the process from its start to Serve: main (cmd/server),      *)
(* LoadConfig, RunMigrations, NewDB and NewAuthService, in this order; an   *)
(* error of any of them is fatal.  The database outlives the process: its  *)
(* tables, and the version golang-migrate keeps there.  The migrator       *)
(* commits "dirty" before it applies a file, all of which commits as one,  *)
(* and takes the mark away afterwards; it refuses to run on a marked       *)
(* version.                                                                *)
(*                                                                         *)
(* Of the settings only MAX_POOL_CONNS is kept: the others are names and   *)
(* places, a wrong one of which makes the step fail that uses it.          *)
(***************************************************************************)
EXTENDS Integers

CONSTANTS
  Settings,     \* values of MAX_POOL_CONNS that Atoi reads, as integers
  Unset,        \* MAX_POOL_CONNS is not in the environment
  Junk,         \* a value Atoi does not read
  DefaultConns, \* the pool size without a setting (25 in the code)
  Wrap          \* 2^32: how many values an int32 has

ASSUME StartupAssumption ==
  /\ Settings \subseteq Int
  /\ DefaultConns \in Nat \ {0}
  /\ Wrap \in Nat \ {0} /\ Wrap % 2 = 0
  /\ Unset \notin Int /\ Junk \notin Int \cup {Unset}

VARIABLES
  phase,    \* what main is at
  setting,  \* MAX_POOL_CONNS of this process
  pool,     \* cfg.MaxPoolConns
  version,  \* schema_migrations: no row, a row marked dirty, or a clean one
  tables    \* the tables and types of the first migration exist

startVars == <<phase, setting, pool, version, tables>>

StartInit ==
  /\ phase = "down"
  /\ setting = Unset
  /\ pool = 0
  /\ version = "none"
  /\ tables = FALSE

\* int32(v) for an int v.
ToInt32(v) == ((v + Wrap \div 2) % Wrap) - (Wrap \div 2)

Goes(from, to) == phase = from /\ phase' = to

------------------------------------------------------------------------------
Start ==
  /\ Goes("down", "loading")
  /\ setting' \in Settings \cup {Unset, Junk}
  /\ UNCHANGED <<pool, version, tables>>

LoadConfig ==
  /\ setting # Junk
  /\ Goes("loading", "migrating")
  /\ pool' = IF setting = Unset THEN DefaultConns ELSE ToInt32(setting)
  /\ UNCHANGED <<setting, version, tables>>

------------------------------------------------------------------------------
\* RunMigrations

\* Mutant: any error of Up is taken for ErrNoChange.
MigrateAnyway ==
  /\ version # "none"
  /\ Goes("migrating", "connecting")
  /\ UNCHANGED <<setting, pool, version, tables>>

\* ErrNoChange.
MigrateNothing ==
  /\ version = "clean"
  /\ Goes("migrating", "connecting")
  /\ UNCHANGED <<setting, pool, version, tables>>

MigrateMark ==
  /\ version = "none"
  /\ Goes("migrating", "applying")
  /\ version' = "dirty"
  /\ UNCHANGED <<setting, pool, tables>>

MigrateApply ==
  /\ Goes("applying", "applied")
  /\ tables' = TRUE
  /\ UNCHANGED <<setting, pool, version>>

MigrateClean ==
  /\ Goes("applied", "connecting")
  /\ version' = "clean"
  /\ UNCHANGED <<setting, pool, tables>>

RunMigrations == MigrateNothing \/ MigrateMark \/ MigrateApply \/ MigrateClean

------------------------------------------------------------------------------
\* Mutant: a pool of any size is accepted.
NewDBUnchecked ==
  /\ Goes("connecting", "keys")
  /\ UNCHANGED <<setting, pool, version, tables>>

\* The pool is made and its first connection pinged; AfterConnect finds the
\* types.
NewDB ==
  /\ pool >= 1
  /\ Goes("connecting", "keys")
  /\ UNCHANGED <<setting, pool, version, tables>>

\* The first fetch of the public keys succeeds.
NewAuthService ==
  /\ Goes("keys", "listening")
  /\ UNCHANGED <<setting, pool, version, tables>>

Serve ==
  /\ Goes("listening", "serving")
  /\ UNCHANGED <<setting, pool, version, tables>>

\* log.Fatalf after an error of the step at hand, a panic of AfterConnect, which
\* registers a type it could not load, or a kill: whatever main is at, the
\* process ends and the database stays as it is.
Die ==
  /\ phase # "down"
  /\ phase' = "down"
  /\ setting' = Unset /\ pool' = 0
  /\ UNCHANGED <<version, tables>>

Starting == Start \/ LoadConfig \/ RunMigrations \/ NewDB \/ NewAuthService \/ Serve

------------------------------------------------------------------------------
\* Properties

Phases == {"down", "loading", "migrating", "applying", "applied", "connecting", "keys",
           "listening", "serving"}

StartTypes ==
  /\ phase \in Phases
  /\ setting \in Settings \cup {Unset, Junk}
  /\ pool \in Int
  /\ version \in {"none", "dirty", "clean"}
  /\ tables \in BOOLEAN

\* A process that serves has the complete schema, however many processes
\* before it died in whatever step of the migration; and its pool has room,
\* never more than a positive setting asks for, although the setting is cut to
\* 32 bits.
Prepared ==
  phase = "serving" =>
    /\ version = "clean" /\ tables
    /\ pool >= 1
    /\ setting \in Nat => pool <= setting
==============================================================================
