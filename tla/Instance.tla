------------------------------ MODULE Instance ------------------------------
(* The life of an instance directory: the resumable setup (assistant-setup   *)
(* and the host's setup steps), the migrations of the central database and   *)
(* of the session databases (assistant-db, assistant-session), the upgrade   *)
(* runner (assistant-upgrade) and the daemon that migrates what it opens.    *)
(* Commands of several builds run beside each other as operating-system      *)
(* processes; each may die between any two writes.                           *)
EXTENDS Naturals, FiniteSets, Sequences

CONSTANTS
    Procs,           \* processes
    Builds,          \* platform builds, ordered by number
    Modules,         \* modules that own central tables
    Rank,            \* their dependency order
    Baseline,        \* central migrations bootstrap and upgrade apply, per build
    Domain,          \* central migrations the host applies, per build
    Alters,          \* migrations whose SQL needs the version before them
    Drifted,         \* <<build, migration>> whose SQL the build has edited
    Sessions,        \* sessions the daemon opens
    SessionVersion,  \* session schema versions, per build and database kind
    Gated,           \* whether the product appends the readiness gate
    Commands,        \* the commands each process runs
    MaxVersion, Faults, MaxFaults

Kinds == {"inbound", "outbound"}
Versions == 1..MaxVersion
Migration == (Modules \cup Kinds) \X Versions
Central == <<"central", "central">>
SessionDb == Sessions \X Kinds
Db == {Central} \cup SessionDb
Checks == {"runtime-docker", "host"}
Sums == {0} \cup Builds
FaultKinds == {"crash", "sql_error", "step_error"}

ASSUME BuildsAssumption == Builds \subseteq Nat \ {0}
ASSUME RankAssumption == Rank \in [Modules \cup Kinds -> Nat]
ASSUME ShippedAssumption ==
    /\ Baseline \in [Builds -> SUBSET (Modules \X Versions)]
    /\ Domain \in [Builds -> SUBSET (Modules \X Versions)]
    /\ SessionVersion \in [Builds -> [Kinds -> Versions]]
    /\ Alters \subseteq Migration
    /\ Drifted \subseteq Builds \X Migration
ASSUME NamesAssumption ==
    /\ "central" \notin Sessions
    /\ Gated \in BOOLEAN
    /\ Commands \in [Procs -> SUBSET {"setup", "upgrade", "serve"}]
    /\ Faults \subseteq FaultKinds
    /\ MaxFaults \in Nat /\ MaxVersion \in Nat

Steps ==
    <<"create_directories", "write_config", "migrate_db", "write_readiness",
      "migrate_domain_db", "provision_agent_image", "configure_onecli">>
        \o IF Gated THEN <<"readiness_gate">> ELSE <<>>

StepIds == {Steps[i] : i \in 1..Len(Steps)}

VARIABLES
    exists,      \* the databases that have a file
    rows,        \* their schema_migrations rows, with the recorded checksum
    tables,      \* the migrations whose SQL is in effect
    version,     \* schema_meta.schema_version of the session databases
    recorded,    \* the build whose identity read_version_record returns, or 0
    dirs, config,   \* the managed directories, config.toml
    stateFile,   \* setup/state.json; not ok while half written
    registry,    \* setup/readiness.json; likewise
    cmd, build, pc,  \* per process: its command, its build, where it is
    db, todo,    \* the database it migrates and the migrations still to visit
    left, found, \* session databases to sweep, and those there at discovery
    step, mem, reg,  \* setup: the step, its copies of the two files
    faults

disk == <<exists, rows, tables, version, recorded>>
setupFiles == <<dirs, config, stateFile, registry>>
sweepVars == <<left, found>>
setupVars == <<step, mem, reg>>
vars == <<disk, setupFiles, cmd, build, pc, db, todo, sweepVars, setupVars, faults>>

Fault(kind) ==
    /\ kind \in Faults
    /\ faults < MaxFaults
    /\ faults' = faults + 1

NoChecks == [c \in Checks |-> "absent"]

Init ==
    /\ exists = {}
    /\ rows = [d \in Db |-> {}]
    /\ tables = [d \in Db |-> {}]
    /\ version = [d \in SessionDb |-> 0]
    /\ recorded = 0
    /\ dirs = FALSE /\ config = FALSE
    /\ stateFile = [ok |-> TRUE, completed |-> {}]
    /\ registry = [ok |-> TRUE, checks |-> NoChecks]
    /\ cmd = [p \in Procs |-> "none"]
    /\ build = [p \in Procs |-> 0]
    /\ pc = [p \in Procs |-> "idle"]
    /\ db = [p \in Procs |-> Central]
    /\ todo = [p \in Procs |-> {}]
    /\ left = [p \in Procs |-> {}]
    /\ found = [p \in Procs |-> {}]
    /\ step = [p \in Procs |-> 1]
    /\ mem = [p \in Procs |-> {}]
    /\ reg = [p \in Procs |-> NoChecks]
    /\ faults = 0

Goto(p, l) == pc' = [pc EXCEPT ![p] = l]

(* The process is gone, and with it everything it held in memory. *)
Exit(p) ==
    /\ cmd' = [cmd EXCEPT ![p] = "none"]
    /\ build' = [build EXCEPT ![p] = 0]
    /\ pc' = [pc EXCEPT ![p] = "idle"]
    /\ db' = [db EXCEPT ![p] = Central]
    /\ todo' = [todo EXCEPT ![p] = {}]
    /\ left' = [left EXCEPT ![p] = {}]
    /\ found' = [found EXCEPT ![p] = {}]
    /\ step' = [step EXCEPT ![p] = 1]
    /\ mem' = [mem EXCEPT ![p] = {}]
    /\ reg' = [reg EXCEPT ![p] = NoChecks]

-----------------------------------------------------------------------------
(* Migrations *)

Sum(b, m) == IF <<b, m>> \in Drifted THEN b ELSE 0

Applied(d) == {r.mig : r \in rows[d]}

(* migrations_for: the contiguous sequence of a session database. *)
SessionMigrations(b, d) == {<<d[2], v>> : v \in 1..SessionVersion[b][d[2]]}

(* MigrationSet::ordered: by module rank, then by version. *)
Before(m, n) ==
    \/ Rank[m[1]] < Rank[n[1]]
    \/ Rank[m[1]] = Rank[n[1]] /\ m[2] =< n[2]

First(ms) == {m \in ms : \A n \in ms : Before(m, n)}

(* Mutant: the schema version is written before the migrations run. *)
MutantOpenVersionFirst(p, d, ms) ==
    /\ exists' = exists \cup {d}
    /\ version' = [e \in SessionDb |-> IF e = d THEN Cardinality(ms) ELSE version[e]]
    /\ db' = [db EXCEPT ![p] = d]
    /\ todo' = [todo EXCEPT ![p] = ms]
    /\ Goto(p, "apply")
    /\ UNCHANGED <<rows, tables, recorded>>

(* Opening a database creates its file. *)
Open(p, d, ms) ==
    /\ exists' = exists \cup {d}
    /\ db' = [db EXCEPT ![p] = d]
    /\ todo' = [todo EXCEPT ![p] = ms]
    /\ Goto(p, "apply")
    /\ UNCHANGED <<rows, tables, version, recorded>>

(* A migration that fails ends an upgrade, fails the step of a setup and is  *)
(* only logged by the daemon.                                                *)
ApplyError(p) ==
    \/ /\ cmd[p] = "setup"
       /\ Goto(p, "save_error")
       /\ UNCHANGED <<cmd, build, db, todo, sweepVars, setupVars>>
    \/ cmd[p] = "upgrade" /\ Exit(p)
    \/ /\ cmd[p] = "serve"
       /\ Goto(p, "serving")
       /\ todo' = [todo EXCEPT ![p] = {}]
       /\ db' = [db EXCEPT ![p] = Central]
       /\ left' = [left EXCEPT ![p] = {}]
       /\ UNCHANGED <<cmd, build, found, setupVars>>

(* The next migration has a row: skipped if its checksum is the registered   *)
(* one, else the run is refused.                                             *)
Verify(p) ==
    /\ pc[p] = "apply"
    /\ \E m \in First(todo[p]) :
           /\ m \in Applied(db[p])
           /\ \/ /\ [mig |-> m, sum |-> Sum(build[p], m)] \in rows[db[p]]
                 /\ todo' = [todo EXCEPT ![p] = @ \ {m}]
                 /\ UNCHANGED <<cmd, build, pc, db, sweepVars, setupVars>>
              \/ /\ [mig |-> m, sum |-> Sum(build[p], m)] \notin rows[db[p]]
                 /\ ApplyError(p)
    /\ UNCHANGED <<disk, setupFiles, faults>>

(* It has none, as read outside any transaction. *)
BeginMigration(p) ==
    /\ pc[p] = "apply"
    /\ \E m \in First(todo[p]) : m \notin Applied(db[p])
    /\ Goto(p, "tx")
    /\ UNCHANGED <<disk, setupFiles, cmd, build, db, todo, sweepVars, setupVars, faults>>

(* Its SQL runs unless its tables are there already or those it alters are   *)
(* not.                                                                      *)
SqlRuns(d, m) ==
    /\ m \notin tables[d]
    /\ m \in Alters => <<m[1], m[2] - 1>> \in tables[d]

(* Mutant: the row is written after the transaction; the process may die     *)
(* between the two.                                                          *)
MutantCommitSqlAlone(p) ==
    /\ pc[p] = "tx"
    /\ \E m \in First(todo[p]) :
           /\ SqlRuns(db[p], m)
           /\ tables' = [tables EXCEPT ![db[p]] = @ \cup {m}]
           /\ \/ /\ rows' = [rows EXCEPT
                               ![db[p]] = @ \cup {[mig |-> m, sum |-> Sum(build[p], m)]}]
                 /\ todo' = [todo EXCEPT ![p] = @ \ {m}]
                 /\ Goto(p, "apply")
                 /\ UNCHANGED <<cmd, build, db, sweepVars, setupVars, faults>>
              \/ Fault("crash") /\ Exit(p) /\ UNCHANGED rows
    /\ UNCHANGED <<exists, version, recorded, setupFiles>>

(* The SQL and its row commit together or not at all. *)
CommitMigration(p) ==
    /\ pc[p] = "tx"
    /\ \E m \in First(todo[p]) :
           \/ /\ SqlRuns(db[p], m)
              /\ tables' = [tables EXCEPT ![db[p]] = @ \cup {m}]
              /\ rows' = [rows EXCEPT
                            ![db[p]] = @ \cup {[mig |-> m, sum |-> Sum(build[p], m)]}]
              /\ todo' = [todo EXCEPT ![p] = @ \ {m}]
              /\ Goto(p, "apply")
              /\ UNCHANGED <<cmd, build, db, sweepVars, setupVars, faults>>
           \/ /\ \/ ~SqlRuns(db[p], m) /\ UNCHANGED faults
                 \/ Fault("sql_error")
              /\ ApplyError(p)
              /\ UNCHANGED <<rows, tables>>
    /\ UNCHANGED <<exists, version, recorded, setupFiles>>

(* The end of apply: the versions are recorded by bootstrap and upgrade, not *)
(* by the domain migrations; lazy_migrate goes on to schema_meta.            *)
ApplyDone(p) ==
    /\ pc[p] = "apply"
    /\ todo[p] = {}
    /\ Goto(p, IF db[p] # Central THEN "meta"
               ELSE IF cmd[p] = "serve" THEN "serving"
               ELSE IF cmd[p] = "setup" /\ Steps[step[p]] = "migrate_domain_db" THEN "save"
               ELSE "record")
    /\ UNCHANGED <<disk, setupFiles, cmd, build, db, todo, sweepVars, setupVars, faults>>

(* discover_sessions: a session has a directory once one of its databases    *)
(* has been created.                                                         *)
Discovered == {d \in SessionDb : \E k \in Kinds : <<d[1], k>> \in exists}

(* record_versions; an upgrade then looks for the sessions there are. *)
RecordVersions(p) ==
    /\ pc[p] = "record"
    /\ recorded' = build[p]
    /\ \/ cmd[p] = "setup" /\ Goto(p, "save") /\ UNCHANGED sweepVars
       \/ /\ cmd[p] = "upgrade"
          /\ left' = [left EXCEPT ![p] = Discovered]
          /\ found' = [found EXCEPT ![p] = Discovered \cap exists]
          /\ Goto(p, "sweep")
    /\ UNCHANGED <<exists, rows, tables, version, setupFiles, cmd, build, db, todo, setupVars,
                   faults>>

(* The last statement of lazy_migrate. *)
SetSchemaVersion(p) ==
    /\ pc[p] = "meta"
    /\ version' = [version EXCEPT ![db[p]] = SessionVersion[build[p]][db[p][2]]]
    /\ db' = [db EXCEPT ![p] = Central]
    /\ Goto(p, "sweep")
    /\ UNCHANGED <<exists, rows, tables, recorded, setupFiles, cmd, build, todo, sweepVars,
                   setupVars, faults>>

(* The inbound database of a session before its outbound one. *)
NextDb(ds) == {d \in ds : d[2] = "outbound" => <<d[1], "inbound">> \notin ds}

(* Mutant: the sweep takes the inbound database to speak for both. *)
MutantSweepInboundOnly(p) ==
    /\ pc[p] = "sweep"
    /\ \E d \in NextDb(left[p]) :
           /\ left' = [left EXCEPT ![p] = {e \in @ : cmd[p] = "serve" /\ e # d}]
           /\ cmd[p] = "serve" \/ d \in exists
           /\ Open(p, d, SessionMigrations(build[p], d))
    /\ UNCHANGED <<setupFiles, cmd, build, found, setupVars, faults>>

(* sweep_db, and the two lazy_migrate calls of a session that is opened: an  *)
(* upgrade leaves an absent database absent, the daemon creates it.          *)
Sweep(p) ==
    /\ pc[p] = "sweep"
    /\ \E d \in NextDb(left[p]) :
           /\ left' = [left EXCEPT ![p] = @ \ {d}]
           /\ \/ /\ cmd[p] = "upgrade" /\ d \notin exists
                 /\ UNCHANGED <<disk, pc, db, todo>>
              \/ /\ cmd[p] = "serve" \/ d \in exists
                 /\ Open(p, d, SessionMigrations(build[p], d))
    /\ UNCHANGED <<setupFiles, cmd, build, found, setupVars, faults>>

SweepDone(p) ==
    /\ pc[p] = "sweep"
    /\ left[p] = {}
    /\ \/ cmd[p] = "upgrade" /\ Exit(p)
       \/ /\ cmd[p] = "serve"
          /\ Goto(p, "serving")
          /\ UNCHANGED <<cmd, build, db, todo, sweepVars, setupVars>>
    /\ UNCHANGED <<disk, setupFiles, faults>>

-----------------------------------------------------------------------------
(* Commands *)

Run(p, c, b) ==
    /\ c \in Commands[p]
    /\ pc[p] = "idle"
    /\ cmd' = [cmd EXCEPT ![p] = c]
    /\ build' = [build EXCEPT ![p] = b]

(* upgrade: refused unless the central database is there. *)
StartUpgrade(p, b) ==
    /\ Run(p, "upgrade", b)
    /\ Central \in exists
    /\ Open(p, Central, Baseline[b])
    /\ UNCHANGED <<setupFiles, sweepVars, setupVars, faults>>

(* The daemon migrates the central database before it serves. *)
StartServe(p, b) ==
    /\ Run(p, "serve", b)
    /\ dirs
    /\ Open(p, Central, Domain[b])
    /\ UNCHANGED <<setupFiles, sweepVars, setupVars, faults>>

(* ensure_started: init_session or migrate_session, both of which migrate    *)
(* the inbound and then the outbound database.                               *)
OpenSession(p, s) ==
    /\ pc[p] = "serving"
    /\ left' = [left EXCEPT ![p] = {s} \X Kinds]
    /\ Goto(p, "sweep")
    /\ UNCHANGED <<disk, setupFiles, cmd, build, db, todo, found, setupVars, faults>>

StopServe(p) ==
    /\ pc[p] = "serving"
    /\ Exit(p)
    /\ UNCHANGED <<disk, setupFiles, faults>>

(* A process dies between any two writes, and in the middle of one: a file   *)
(* being written stays as it is.                                             *)
Crash(p) ==
    /\ pc[p] # "idle"
    /\ Fault("crash")
    /\ Exit(p)
    /\ UNCHANGED <<disk, setupFiles>>

-----------------------------------------------------------------------------
(* Setup *)

(* load_state; a state file that does not parse ends the command. *)
StartSetup(p, b) ==
    /\ Run(p, "setup", b)
    /\ stateFile.ok
    /\ mem' = [mem EXCEPT ![p] = stateFile.completed]
    /\ Goto(p, "step")
    /\ UNCHANGED <<disk, setupFiles, db, todo, sweepVars, step, reg, faults>>

(* The bootstrap is over after four steps: the pipeline reads both files     *)
(* again.                                                                    *)
StepPc(i) == IF i = 5 THEN "load" ELSE "step"

LoadPipeline(p) ==
    /\ pc[p] = "load"
    /\ \/ /\ stateFile.ok /\ registry.ok
          /\ mem' = [mem EXCEPT ![p] = stateFile.completed]
          /\ reg' = [reg EXCEPT ![p] = registry.checks]
          /\ Goto(p, "step")
          /\ UNCHANGED <<cmd, build, db, todo, sweepVars, step>>
       \/ ~(stateFile.ok /\ registry.ok) /\ Exit(p)
    /\ UNCHANGED <<disk, setupFiles, faults>>

At(p, id) ==
    /\ pc[p] = "step"
    /\ step[p] \in 1..Len(Steps)
    /\ Steps[step[p]] = id

(* A completed step is skipped; a gate is never completed. *)
SkipStep(p) ==
    /\ \E id \in mem[p] : At(p, id)
    /\ step' = [step EXCEPT ![p] = @ + 1]
    /\ Goto(p, StepPc(step[p] + 1))
    /\ UNCHANGED <<disk, setupFiles, cmd, build, db, todo, sweepVars, mem, reg, faults>>

Due(p, id) == At(p, id) /\ id \notin mem[p]

CreateDirectories(p) ==
    /\ Due(p, "create_directories")
    /\ dirs' = TRUE
    /\ Goto(p, "save")
    /\ UNCHANGED <<disk, config, stateFile, registry, cmd, build, db, todo, sweepVars,
                   setupVars, faults>>

WriteConfig(p) ==
    /\ Due(p, "write_config")
    /\ config' = TRUE
    /\ Goto(p, "save")
    /\ UNCHANGED <<disk, dirs, stateFile, registry, cmd, build, db, todo, sweepVars,
                   setupVars, faults>>

MigrateDb(p) ==
    /\ Due(p, "migrate_db")
    /\ Open(p, Central, Baseline[build[p]])
    /\ UNCHANGED <<setupFiles, cmd, build, sweepVars, setupVars, faults>>

MigrateDomainDb(p) ==
    /\ Due(p, "migrate_domain_db")
    /\ Open(p, Central, Domain[build[p]])
    /\ UNCHANGED <<setupFiles, cmd, build, sweepVars, setupVars, faults>>

WriteReadiness(p) ==
    /\ Due(p, "write_readiness")
    /\ reg' = [reg EXCEPT ![p] = [c \in Checks |-> "pending"]]
    /\ Goto(p, "registry")
    /\ UNCHANGED <<disk, setupFiles, cmd, build, db, todo, sweepVars, step, mem, faults>>

(* record_readiness: only a registered check takes a result, and only then   *)
(* is the registry written.                                                  *)
RecordReadiness(p, c, status) ==
    IF reg[p][c] = "absent"
    THEN Goto(p, "save") /\ UNCHANGED reg
    ELSE Goto(p, "registry") /\ reg' = [reg EXCEPT ![p][c] = status]

(* The image is built or pulled; the OneCLI material is ready or not yet,    *)
(* and the step is done either way.                                          *)
ExternalStep(p) ==
    /\ \/ Due(p, "provision_agent_image") /\ RecordReadiness(p, "runtime-docker", "pass")
       \/ \E status \in {"pass", "pending"} :
             Due(p, "configure_onecli") /\ RecordReadiness(p, "host", status)
    /\ UNCHANGED <<disk, setupFiles, cmd, build, db, todo, sweepVars, step, mem, faults>>

(* The gate passes on the registry as this run has it, and is not recorded.  *)
PassGate(p) ==
    /\ At(p, "readiness_gate")
    /\ \A c \in Checks : reg[p][c] \in {"absent", "pass"}
    /\ step' = [step EXCEPT ![p] = @ + 1]
    /\ UNCHANGED <<disk, setupFiles, cmd, build, pc, db, todo, sweepVars, mem, reg, faults>>

StepFails(p) ==
    /\ \/ /\ At(p, "readiness_gate")
          /\ \E c \in Checks : reg[p][c] = "pending"
          /\ UNCHANGED faults
       \/ \E id \in StepIds \ {"readiness_gate"} : Due(p, id) /\ Fault("step_error")
    /\ Goto(p, "save_error")
    /\ UNCHANGED <<disk, setupFiles, cmd, build, db, todo, sweepVars, setupVars>>

(* save_registry and save_state: the file is truncated and then written. *)
TruncateFile(p) ==
    /\ \/ /\ pc[p] = "registry"
          /\ registry' = [registry EXCEPT !.ok = FALSE]
          /\ Goto(p, "registry_open")
          /\ UNCHANGED stateFile
       \/ /\ pc[p] \in {"save", "save_error"}
          /\ dirs
          /\ stateFile' = [stateFile EXCEPT !.ok = FALSE]
          /\ Goto(p, IF pc[p] = "save" THEN "save_open" ELSE "save_error_open")
          /\ UNCHANGED registry
    /\ UNCHANGED <<disk, dirs, config, cmd, build, db, todo, sweepVars, setupVars, faults>>

SaveRegistry(p) ==
    /\ pc[p] = "registry_open"
    /\ registry' = [ok |-> TRUE, checks |-> reg[p]]
    /\ Goto(p, "save")
    /\ UNCHANGED <<disk, dirs, config, stateFile, cmd, build, db, todo, sweepVars, setupVars,
                   faults>>

(* Mutant: a step is recorded when it starts instead of when it is over. *)
MutantMarkFirst(p) ==
    /\ pc[p] = "save_open"
    /\ LET done == mem[p] \cup {Steps[i] : i \in {j \in 1..Len(Steps) : j =< step[p] + 1}}
       IN  /\ stateFile' = [ok |-> TRUE, completed |-> done]
           /\ mem' = [mem EXCEPT ![p] = @ \cup {Steps[step[p]]}]
    /\ step' = [step EXCEPT ![p] = @ + 1]
    /\ Goto(p, StepPc(step[p] + 1))
    /\ UNCHANGED <<disk, dirs, config, registry, cmd, build, db, todo, sweepVars, reg, faults>>

(* mark_completed and save_state, then the next step. *)
SaveCompleted(p) ==
    /\ pc[p] = "save_open"
    /\ mem' = [mem EXCEPT ![p] = @ \cup {Steps[step[p]]}]
    /\ stateFile' = [ok |-> TRUE, completed |-> mem[p] \cup {Steps[step[p]]}]
    /\ step' = [step EXCEPT ![p] = @ + 1]
    /\ Goto(p, StepPc(step[p] + 1))
    /\ UNCHANGED <<disk, dirs, config, registry, cmd, build, db, todo, sweepVars, reg, faults>>

(* record_error: the steps completed so far are saved, if there is a setup   *)
(* directory to save them in, and the command fails.                         *)
SaveError(p) ==
    /\ \/ /\ pc[p] = "save_error_open"
          /\ stateFile' = [ok |-> TRUE, completed |-> mem[p]]
       \/ pc[p] = "save_error" /\ ~dirs /\ UNCHANGED stateFile
    /\ Exit(p)
    /\ UNCHANGED <<disk, dirs, config, registry, faults>>

SetupComplete(p) ==
    /\ pc[p] = "step"
    /\ step[p] = Len(Steps) + 1
    /\ Exit(p)
    /\ UNCHANGED <<disk, setupFiles, faults>>

-----------------------------------------------------------------------------
Migrate(p) ==
    Verify(p) \/ BeginMigration(p) \/ CommitMigration(p) \/ ApplyDone(p)

Setup(p) ==
    \/ LoadPipeline(p) \/ SkipStep(p) \/ CreateDirectories(p) \/ WriteConfig(p)
    \/ MigrateDb(p) \/ MigrateDomainDb(p) \/ WriteReadiness(p) \/ ExternalStep(p)
    \/ PassGate(p) \/ StepFails(p) \/ TruncateFile(p) \/ SaveRegistry(p) \/ SaveCompleted(p)
    \/ SaveError(p) \/ SetupComplete(p)

Upgrade(p) == RecordVersions(p) \/ SetSchemaVersion(p) \/ Sweep(p) \/ SweepDone(p)

Start(p) == \E b \in Builds : StartSetup(p, b) \/ StartUpgrade(p, b) \/ StartServe(p, b)

Next ==
    \E p \in Procs :
        \/ Start(p) \/ Migrate(p) \/ Setup(p) \/ Upgrade(p)
        \/ \E s \in Sessions : OpenSession(p, s)
        \/ StopServe(p) \/ Crash(p)

Spec == Init /\ [][Next]_vars

-----------------------------------------------------------------------------
(* Properties *)

Labels == {"idle", "apply", "tx", "record", "meta", "sweep", "serving", "load", "step",
           "registry", "registry_open", "save", "save_open", "save_error",
           "save_error_open"}

Registry == [Checks -> {"absent", "pending", "pass"}]

(* Every variable keeps its type; a transaction always has a migration, and  *)
(* only a session database has a schema version to set.                      *)
TypeOK ==
    /\ exists \subseteq Db
    /\ rows \in [Db -> SUBSET [mig : Migration, sum : Sums]]
    /\ tables \in [Db -> SUBSET Migration]
    /\ version \in [SessionDb -> {0} \cup Versions]
    /\ recorded \in {0} \cup Builds
    /\ dirs \in BOOLEAN /\ config \in BOOLEAN
    /\ stateFile \in [ok : BOOLEAN, completed : SUBSET StepIds]
    /\ registry \in [ok : BOOLEAN, checks : Registry]
    /\ cmd \in [Procs -> {"none", "setup", "upgrade", "serve"}]
    /\ build \in [Procs -> {0} \cup Builds]
    /\ pc \in [Procs -> Labels]
    /\ db \in [Procs -> Db]
    /\ todo \in [Procs -> SUBSET Migration]
    /\ left \in [Procs -> SUBSET SessionDb]
    /\ found \in [Procs -> SUBSET SessionDb]
    /\ step \in [Procs -> 1..(Len(Steps) + 1)]
    /\ mem \in [Procs -> SUBSET StepIds]
    /\ reg \in [Procs -> Registry]
    /\ faults \in 0..MaxFaults
    /\ \A p \in Procs :
          /\ pc[p] # "idle" => build[p] \in Builds
          /\ pc[p] = "tx" => todo[p] # {}
          /\ pc[p] = "meta" => db[p] \in SessionDb

(* "The schema change and the row recorded in schema_migrations commit       *)
(* together or not at all": in every database the rows name exactly the      *)
(* migrations whose SQL is in effect, each once, over every interleaving of  *)
(* setup, upgrade and daemon and every crash.                                *)
RowsMatchSchema ==
    \A d \in Db :
        /\ Applied(d) = tables[d]
        /\ \A r, q \in rows[d] : r.mig = q.mig => r = q

(* The recorded schema version of a session never claims a migration that    *)
(* is not in effect: a dry run, which goes by it, never leaves out what an   *)
(* upgrade would apply.                                                      *)
NeverOverclaims ==
    \A d \in SessionDb : \A v \in 1..version[d] : <<d[2], v>> \in tables[d]

(* What an upgrade has swept is at the schema of its build, whatever other   *)
(* processes did meanwhile: each database that was there when it looked, and *)
(* the central baseline with the content this build registers.               *)
UpgradeReaches ==
    \A p \in Procs : cmd[p] = "upgrade" /\ pc[p] = "sweep" =>
        /\ \A m \in Baseline[build[p]] :
              [mig |-> m, sum |-> Sum(build[p], m)] \in rows[Central]
        /\ \A d \in found[p] \ left[p] : SessionMigrations(build[p], d) \subseteq tables[d]

(* A step that state.json calls completed has had its effect, for some build *)
(* at least: a resume that skips it skips nothing that is missing.           *)
CompletedStepsDone ==
    LET done(id) == stateFile.ok /\ id \in stateFile.completed
    IN  /\ done("create_directories") => dirs
        /\ done("write_config") => config
        /\ done("migrate_db") => \E b \in Builds : Baseline[b] \subseteq tables[Central]
        /\ done("migrate_domain_db") => \E b \in Builds : Domain[b] \subseteq tables[Central]
        /\ done("write_readiness") /\ registry.ok =>
              \A c \in Checks : registry.checks[c] # "absent"

(* evaluate_runtime: what a build's conformance run holds against the        *)
(* instance.                                                                 *)
InstanceNewerThanRunner(b) == recorded > b
UnsupportedSessionSchema(b) ==
    \E d \in SessionDb : d \in exists /\ version[d] > SessionVersion[b][d[2]]

(* "Refuses to downgrade when an instance was written by a newer platform"   *)
(* and "flags an unsupported per-session schema range": between commands, a  *)
(* build that does not know a migration some session has is told so.         *)
NewerSchemaFlagged ==
    (\A p \in Procs : pc[p] \in {"idle", "serving"}) =>
        \A b \in Builds :
            (\E d \in SessionDb : ~(tables[d] \subseteq SessionMigrations(b, d)))
              => InstanceNewerThanRunner(b) \/ UnsupportedSessionSchema(b)
============================================================================
