--------------------------- MODULE InstanceProofs ---------------------------
(* Proofs about Instance, for every number of processes, builds, modules,    *)
(* migrations and sessions.                                                  *)
EXTENDS Instance, TLAPS

-----------------------------------------------------------------------------
(* Type correctness *)

(* The half of TypeOK about what is on disk, and the half about processes. *)
DiskTypes ==
    /\ exists \subseteq Db
    /\ rows \in [Db -> SUBSET [mig : Migration, sum : Sums]]
    /\ tables \in [Db -> SUBSET Migration]
    /\ version \in [SessionDb -> {0} \cup Versions]
    /\ recorded \in {0} \cup Builds
    /\ dirs \in BOOLEAN /\ config \in BOOLEAN
    /\ stateFile \in [ok : BOOLEAN, completed : SUBSET StepIds]
    /\ registry \in [ok : BOOLEAN, checks : Registry]
    /\ faults \in 0..MaxFaults

ProcTypes ==
    /\ cmd \in [Procs -> {"none", "setup", "upgrade", "serve"}]
    /\ build \in [Procs -> {0} \cup Builds]
    /\ pc \in [Procs -> Labels]
    /\ db \in [Procs -> Db]
    /\ todo \in [Procs -> SUBSET Migration]
    /\ left \in [Procs -> SUBSET SessionDb]
    /\ found \in [Procs -> SUBSET SessionDb]
    /\ step \in [Procs -> 1..(Len(Steps) + 1)]
    /\ mem \in [Procs -> SUBSET StepIds]
    /\ reg \in [Procs -> Registry]
    /\ \A p \in Procs :
          /\ pc[p] # "idle" => build[p] \in Builds
          /\ pc[p] = "tx" => todo[p] # {}
          /\ pc[p] = "meta" => db[p] \in SessionDb

(* A process that works on a setup step or writes a file has a step under    *)
(* way, and setup touches no session database.                               *)
StepInv ==
    \A p \in Procs :
        /\ pc[p] \in {"registry", "registry_open", "save", "save_open", "load"} =>
              step[p] \in 1..Len(Steps)
        /\ cmd[p] = "setup" /\ pc[p] \in {"apply", "tx", "record"} =>
              step[p] \in 1..Len(Steps)
        /\ cmd[p] = "setup" => db[p] = Central /\ pc[p] \notin {"sweep", "meta", "serving"}
        /\ pc[p] = "idle" => db[p] = Central

(* The two halves make up TypeOK. *)
LEMMA TypesSplit ==
    /\ TypeOK <=> DiskTypes /\ ProcTypes
    /\ TypeOK' <=> DiskTypes' /\ ProcTypes'
BY DEF TypeOK, DiskTypes, ProcTypes

(* The list of setup steps is a sequence of step ids, seven or eight long. *)
LEMMA StepsAreListed ==
    /\ Len(Steps) \in Nat
    /\ Len(Steps) >= 7
    /\ \A i \in 1..Len(Steps) : Steps[i] \in StepIds
<1>1. CASE Gated
  BY <1>1 DEF Steps, StepIds
<1>2. CASE ~Gated
  BY <1>2 DEF Steps, StepIds
<1> QED
  BY <1>1, <1>2

(* What a process leaves in its variables when it ends has its type. *)
LEMMA ExitKeepsTypes ==
    ASSUME ProcTypes, StepInv, NEW p \in Procs, Exit(p)
    PROVE  ProcTypes' /\ StepInv'
<1> USE StepsAreListed
<1>1. /\ cmd' \in [Procs -> {"none", "setup", "upgrade", "serve"}]
      /\ build' \in [Procs -> {0} \cup Builds]
      /\ pc' \in [Procs -> Labels]
      /\ db' \in [Procs -> Db]
  BY DEF ProcTypes, Exit, Labels, Db
<1>2. /\ todo' \in [Procs -> SUBSET Migration]
      /\ left' \in [Procs -> SUBSET SessionDb]
      /\ found' \in [Procs -> SUBSET SessionDb]
  BY DEF ProcTypes, Exit
<1>3. /\ step' \in [Procs -> 1..(Len(Steps) + 1)]
      /\ mem' \in [Procs -> SUBSET StepIds]
  BY DEF ProcTypes, Exit
<1>4. reg' \in [Procs -> Registry]
  BY DEF ProcTypes, Exit, Registry, NoChecks
<1>5. \A q \in Procs :
         /\ pc'[q] # "idle" => build'[q] \in Builds
         /\ pc'[q] = "tx" => todo'[q] # {}
         /\ pc'[q] = "meta" => db'[q] \in SessionDb
  BY DEF ProcTypes, Exit
<1>6. StepInv'
  BY DEF ProcTypes, Exit, StepInv
<1> QED
  BY <1>1, <1>2, <1>3, <1>4, <1>5, <1>6 DEF ProcTypes

(* So has what it leaves when a migration fails. *)
LEMMA ApplyErrorKeepsTypes ==
    ASSUME ProcTypes, StepInv, NEW p \in Procs, ApplyError(p), pc[p] # "idle"
    PROVE  ProcTypes' /\ StepInv'
<1>1. CASE cmd[p] = "setup" /\ Goto(p, "save_error")
             /\ UNCHANGED <<cmd, build, db, todo, sweepVars, setupVars>>
  BY <1>1 DEF ProcTypes, StepInv, Goto, Labels, sweepVars, setupVars
<1>2. CASE cmd[p] = "upgrade" /\ Exit(p)
  BY <1>2, ExitKeepsTypes
<1>3. CASE /\ cmd[p] = "serve"
           /\ Goto(p, "serving")
           /\ todo' = [todo EXCEPT ![p] = {}]
           /\ db' = [db EXCEPT ![p] = Central]
           /\ left' = [left EXCEPT ![p] = {}]
           /\ UNCHANGED <<cmd, build, found, setupVars>>
  BY <1>3 DEF ProcTypes, StepInv, Goto, Labels, Db, setupVars
<1> QED
  BY <1>1, <1>2, <1>3 DEF ApplyError

(* Every step of every process keeps the types. *)
LEMMA StepKeepsTypes ==
    ASSUME TypeOK, StepInv, [Next]_vars
    PROVE  TypeOK' /\ StepInv'
<1> USE StepsAreListed, BuildsAssumption, ShippedAssumption, NamesAssumption
<1> USE DEF disk, setupFiles, sweepVars, setupVars
<1> DiskTypes /\ ProcTypes
  BY TypesSplit
<1> SUFFICES DiskTypes' /\ ProcTypes' /\ StepInv'
  BY TypesSplit
<1>1. ASSUME NEW p \in Procs, Verify(p)
      PROVE  DiskTypes' /\ ProcTypes' /\ StepInv'
  <2>1. DiskTypes'
    BY <1>1 DEF Verify, DiskTypes
  <2>2. CASE ApplyError(p)
    BY <1>1, <2>1, <2>2, ApplyErrorKeepsTypes DEF Verify
  <2>3. CASE UNCHANGED <<cmd, build, pc, db, sweepVars, setupVars>>
             /\ ~ApplyError(p)
    <3>1. PICK m \in First(todo[p]) : todo' = [todo EXCEPT ![p] = @ \ {m}]
      BY <1>1, <2>3 DEF Verify
    <3>2. todo' \in [Procs -> SUBSET Migration]
      BY <3>1 DEF ProcTypes
    <3>3. \A q \in Procs : pc[q] = "tx" => todo'[q] # {}
      BY <1>1, <3>1 DEF Verify, ProcTypes
    <3>4. ProcTypes'
      BY <2>3, <3>2, <3>3 DEF ProcTypes
    <3>5. StepInv'
      BY <2>3 DEF StepInv
    <3> QED
      BY <2>1, <3>4, <3>5
  <2> QED
    BY <1>1, <2>2, <2>3 DEF Verify
<1>2. ASSUME NEW p \in Procs, BeginMigration(p)
      PROVE  DiskTypes' /\ ProcTypes' /\ StepInv'
  BY <1>2
     DEF DiskTypes, ProcTypes, StepInv, Goto, Labels, Registry, Db, SessionDb, Migration,
         BeginMigration, First
<1>3. ASSUME NEW p \in Procs, CommitMigration(p)
      PROVE  DiskTypes' /\ ProcTypes' /\ StepInv'
  <2>1. PICK m \in First(todo[p]) :
           \/ /\ SqlRuns(db[p], m)
              /\ tables' = [tables EXCEPT ![db[p]] = @ \cup {m}]
              /\ rows' = [rows EXCEPT
                            ![db[p]] = @ \cup {[mig |-> m, sum |-> Sum(build[p], m)]}]
              /\ todo' = [todo EXCEPT ![p] = @ \ {m}]
              /\ Goto(p, "apply")
              /\ UNCHANGED <<cmd, build, db, sweepVars, setupVars, faults>>
           \/ /\ \/ ~SqlRuns(db[p], m) /\ UNCHANGED faults
                 \/ Fault("sql_error")
              /\ ApplyError(p)
              /\ UNCHANGED <<rows, tables>>
    BY <1>3 DEF CommitMigration
  <2>2. m \in Migration /\ Sum(build[p], m) \in Sums /\ db[p] \in Db
    BY <1>3, <2>1 DEF CommitMigration, First, ProcTypes, Sum, Sums
  <2>3. CASE ApplyError(p)
    <3>1. DiskTypes'
      BY <1>3, <2>1, <2>2, <2>3 DEF CommitMigration, ApplyError, DiskTypes, Fault, Goto
    <3> QED
      BY <1>3, <2>3, <3>1, ApplyErrorKeepsTypes DEF CommitMigration
  <2>4. CASE ~ApplyError(p)
    <3>1. rows' \in [Db -> SUBSET [mig : Migration, sum : Sums]]
      BY <2>1, <2>2, <2>4 DEF DiskTypes
    <3>2. tables' \in [Db -> SUBSET Migration]
      BY <2>1, <2>2, <2>4 DEF DiskTypes
    <3>3. DiskTypes'
      BY <1>3, <2>1, <2>4, <3>1, <3>2 DEF CommitMigration, DiskTypes
    <3>4. /\ todo' \in [Procs -> SUBSET Migration]
          /\ \A q \in Procs : q # p => todo'[q] = todo[q]
      BY <2>1, <2>4 DEF ProcTypes
    <3>5. pc[p] = "tx" /\ Goto(p, "apply")
          /\ UNCHANGED <<cmd, build, db, sweepVars, setupVars>>
      BY <1>3, <2>1, <2>4 DEF CommitMigration
    <3>6. ProcTypes'
      BY <3>4, <3>5 DEF ProcTypes, Goto, Labels
    <3>7. StepInv'
      BY <3>5 DEF ProcTypes, StepInv, Goto
    <3> QED
      BY <3>3, <3>6, <3>7
  <2> QED
    BY <2>3, <2>4
<1>4. ASSUME NEW p \in Procs, ApplyDone(p)
      PROVE  DiskTypes' /\ ProcTypes' /\ StepInv'
  BY <1>4
     DEF DiskTypes, ProcTypes, StepInv, Goto, Labels, Registry, Db, SessionDb, Migration,
         ApplyDone, Db, Central, SessionDb
<1>5. ASSUME NEW p \in Procs, RecordVersions(p)
      PROVE  DiskTypes' /\ ProcTypes' /\ StepInv'
  <2>1. DiskTypes'
    BY <1>5 DEF RecordVersions, DiskTypes, ProcTypes
  <2>2. CASE cmd[p] = "setup" /\ Goto(p, "save") /\ UNCHANGED sweepVars
    BY <1>5, <2>1, <2>2 DEF RecordVersions, ProcTypes, StepInv, Goto, Labels
  <2>3. CASE cmd[p] = "upgrade" /\ Goto(p, "sweep")
    <3>1. PICK there \in SUBSET SessionDb :
             /\ left' = [left EXCEPT ![p] = there]
             /\ found' = [found EXCEPT ![p] = there \cap exists]
      <4>1. /\ left' = [left EXCEPT ![p] = Discovered]
            /\ found' = [found EXCEPT ![p] = Discovered \cap exists]
        BY <1>5, <2>3 DEF RecordVersions
      <4>2. Discovered \in SUBSET SessionDb
        BY DEF Discovered
      <4> QED
        BY <4>1, <4>2
    <3>2. left' \in [Procs -> SUBSET SessionDb] /\ found' \in [Procs -> SUBSET SessionDb]
      BY <3>1 DEF ProcTypes
    <3>3. UNCHANGED <<cmd, build, db, todo, setupVars>> /\ pc[p] = "record"
      BY <1>5 DEF RecordVersions
    <3>4. ProcTypes'
      BY <2>3, <3>2, <3>3 DEF ProcTypes, Goto, Labels
    <3>5. StepInv'
      BY <2>3, <3>3 DEF ProcTypes, StepInv, Goto
    <3> QED
      BY <2>1, <3>4, <3>5
  <2> QED
    BY <1>5, <2>2, <2>3 DEF RecordVersions
<1>6. ASSUME NEW p \in Procs, SetSchemaVersion(p)
      PROVE  DiskTypes' /\ ProcTypes' /\ StepInv'
  <2>1. db[p] \in SessionDb /\ db[p][2] \in Kinds /\ build[p] \in Builds
    BY <1>6 DEF SetSchemaVersion, ProcTypes, SessionDb
  <2>2. SessionVersion[build[p]][db[p][2]] \in Versions
    BY <2>1
  <2>3. DiskTypes'
    BY <1>6, <2>1, <2>2 DEF SetSchemaVersion, DiskTypes
  <2>4. ProcTypes' /\ StepInv'
    BY <1>6 DEF SetSchemaVersion, ProcTypes, StepInv, Goto, Labels, Db
  <2> QED
    BY <2>3, <2>4
<1>7. ASSUME NEW p \in Procs, Sweep(p)
      PROVE  DiskTypes' /\ ProcTypes' /\ StepInv'
  <2>1. PICK d \in NextDb(left[p]) :
           /\ left' = [left EXCEPT ![p] = @ \ {d}]
           /\ \/ UNCHANGED <<disk, pc, db, todo>>
              \/ Open(p, d, SessionMigrations(build[p], d))
    BY <1>7 DEF Sweep
  <2>2. d \in SessionDb /\ d \in Db /\ d[2] \in Kinds /\ build[p] \in Builds
    BY <1>7, <2>1 DEF Sweep, NextDb, ProcTypes, SessionDb, Db
  <2>3. SessionMigrations(build[p], d) \subseteq Migration
    <3>1. SessionVersion[build[p]][d[2]] \in Versions
      BY <2>2
    <3> QED
      BY <2>2, <3>1 DEF SessionMigrations, Migration, Versions
  <2>4. UNCHANGED <<setupFiles, cmd, build, found, setupVars, faults>> /\ pc[p] = "sweep"
    BY <1>7 DEF Sweep
  <2>5. CASE UNCHANGED <<disk, pc, db, todo>>
    BY <2>1, <2>4, <2>5 DEF DiskTypes, ProcTypes, StepInv
  <2>6. CASE Open(p, d, SessionMigrations(build[p], d))
    <3>1. DiskTypes'
      BY <2>2, <2>4, <2>6 DEF Open, DiskTypes
    <3>2. ProcTypes'
      BY <2>1, <2>2, <2>3, <2>4, <2>6 DEF Open, ProcTypes, Goto, Labels
    <3>3. StepInv'
      BY <2>4, <2>6 DEF Open, ProcTypes, StepInv, Goto
    <3> QED
      BY <3>1, <3>2, <3>3
  <2> QED
    BY <2>1, <2>5, <2>6
<1>8. ASSUME NEW p \in Procs, SweepDone(p)
      PROVE  DiskTypes' /\ ProcTypes' /\ StepInv'
  <2>1. DiskTypes'
    BY <1>8 DEF SweepDone, DiskTypes
  <2>2. CASE Exit(p)
    BY <2>1, <2>2, ExitKeepsTypes
  <2>3. CASE Goto(p, "serving") /\ UNCHANGED <<cmd, build, db, todo, sweepVars, setupVars>>
    BY <1>8, <2>1, <2>3 DEF SweepDone, ProcTypes, StepInv, Goto, Labels
  <2> QED
    BY <1>8, <2>2, <2>3 DEF SweepDone
<1>9. ASSUME NEW p \in Procs, \E b \in Builds : StartUpgrade(p, b)
      PROVE  DiskTypes' /\ ProcTypes' /\ StepInv'
  BY <1>9
     DEF DiskTypes, ProcTypes, StepInv, Goto, Labels, Registry, Db, SessionDb, Migration,
         StartUpgrade, Run, Open
<1>10. ASSUME NEW p \in Procs, \E b \in Builds : StartServe(p, b)
      PROVE  DiskTypes' /\ ProcTypes' /\ StepInv'
  BY <1>10
     DEF DiskTypes, ProcTypes, StepInv, Goto, Labels, Registry, Db, SessionDb, Migration,
         StartServe, Run, Open
<1>11. ASSUME NEW p \in Procs, \E b \in Builds : StartSetup(p, b)
      PROVE  DiskTypes' /\ ProcTypes' /\ StepInv'
  BY <1>11
     DEF DiskTypes, ProcTypes, StepInv, Goto, Labels, Registry, Db, SessionDb, Migration,
         StartSetup, Run
<1>12. ASSUME NEW p \in Procs, \E s \in Sessions : OpenSession(p, s)
      PROVE  DiskTypes' /\ ProcTypes' /\ StepInv'
  BY <1>12
     DEF DiskTypes, ProcTypes, StepInv, Goto, Labels, Registry, Db, SessionDb, Migration,
         OpenSession
<1>13. ASSUME NEW p \in Procs, StopServe(p)
      PROVE  DiskTypes' /\ ProcTypes' /\ StepInv'
  BY <1>13, ExitKeepsTypes
     DEF DiskTypes, ProcTypes, StepInv, Goto, Labels, Registry, Db, SessionDb, Migration,
         StopServe
<1>14. ASSUME NEW p \in Procs, Crash(p)
      PROVE  DiskTypes' /\ ProcTypes' /\ StepInv'
  BY <1>14, ExitKeepsTypes
     DEF DiskTypes, ProcTypes, StepInv, Goto, Labels, Registry, Db, SessionDb, Migration,
         Crash, Fault
<1>15. ASSUME NEW p \in Procs, LoadPipeline(p)
      PROVE  DiskTypes' /\ ProcTypes' /\ StepInv'
  <2>1. DiskTypes'
    BY <1>15 DEF LoadPipeline, DiskTypes
  <2>2. CASE Exit(p)
    BY <2>1, <2>2, ExitKeepsTypes
  <2>3. CASE /\ mem' = [mem EXCEPT ![p] = stateFile.completed]
             /\ reg' = [reg EXCEPT ![p] = registry.checks]
             /\ Goto(p, "step")
             /\ UNCHANGED <<cmd, build, db, todo, sweepVars, step>>
    <3>1. stateFile.completed \in SUBSET StepIds /\ registry.checks \in Registry
      BY DEF DiskTypes
    <3>2. ProcTypes'
      BY <1>15, <2>3, <3>1 DEF LoadPipeline, ProcTypes, Goto, Labels
    <3>3. StepInv'
      BY <1>15, <2>3 DEF LoadPipeline, ProcTypes, StepInv, Goto
    <3> QED
      BY <2>1, <3>2, <3>3
  <2> QED
    BY <1>15, <2>2, <2>3 DEF LoadPipeline
<1>16. ASSUME NEW p \in Procs, SkipStep(p)
      PROVE  DiskTypes' /\ ProcTypes' /\ StepInv'
  BY <1>16
     DEF DiskTypes, ProcTypes, StepInv, Goto, Labels, Registry, Db, SessionDb, Migration,
         SkipStep, At, StepPc
<1>17. ASSUME NEW p \in Procs, CreateDirectories(p)
      PROVE  DiskTypes' /\ ProcTypes' /\ StepInv'
  BY <1>17
     DEF DiskTypes, ProcTypes, StepInv, Goto, Labels, Registry, Db, SessionDb, Migration,
         CreateDirectories, Due, At
<1>18. ASSUME NEW p \in Procs, WriteConfig(p)
      PROVE  DiskTypes' /\ ProcTypes' /\ StepInv'
  BY <1>18
     DEF DiskTypes, ProcTypes, StepInv, Goto, Labels, Registry, Db, SessionDb, Migration,
         WriteConfig, Due, At
<1>19. ASSUME NEW p \in Procs, MigrateDb(p) \/ MigrateDomainDb(p)
      PROVE  DiskTypes' /\ ProcTypes' /\ StepInv'
  <2>1. PICK ms : Open(p, Central, ms) /\ ms \subseteq Migration
                  /\ pc[p] = "step" /\ step[p] \in 1..Len(Steps)
    <3>1. build[p] \in Builds
      BY <1>19 DEF MigrateDb, MigrateDomainDb, Due, At, ProcTypes
    <3>2. /\ Baseline[build[p]] \in SUBSET (Modules \X Versions)
          /\ Domain[build[p]] \in SUBSET (Modules \X Versions)
      BY <3>1
    <3>3. Modules \X Versions \subseteq Migration
      BY DEF Migration
    <3>4. Baseline[build[p]] \subseteq Migration /\ Domain[build[p]] \subseteq Migration
      BY <3>2, <3>3
    <3> QED
      BY <1>19, <3>4 DEF MigrateDb, MigrateDomainDb, Due, At
  <2>2. UNCHANGED <<setupFiles, cmd, build, sweepVars, setupVars, faults>>
    BY <1>19 DEF MigrateDb, MigrateDomainDb
  <2>3. DiskTypes'
    BY <2>1, <2>2 DEF Open, DiskTypes, Db
  <2>4. ProcTypes' /\ StepInv'
    BY <2>1, <2>2 DEF Open, ProcTypes, StepInv, Goto, Labels, Db
  <2> QED
    BY <2>3, <2>4
<1>20. ASSUME NEW p \in Procs, WriteReadiness(p)
      PROVE  DiskTypes' /\ ProcTypes' /\ StepInv'
  BY <1>20
     DEF DiskTypes, ProcTypes, StepInv, Goto, Labels, Registry, Db, SessionDb, Migration,
         WriteReadiness, Due, At
<1>21. ASSUME NEW p \in Procs, ExternalStep(p)
      PROVE  DiskTypes' /\ ProcTypes' /\ StepInv'
  <2>1. DiskTypes'
    BY <1>21 DEF ExternalStep, DiskTypes
  <2>2. PICK c \in Checks, status \in {"pass", "pending"} : RecordReadiness(p, c, status)
    BY <1>21 DEF ExternalStep, Checks
  <2>3. pc[p] = "step" /\ step[p] \in 1..Len(Steps)
    BY <1>21 DEF ExternalStep, Due, At
  <2>4. reg' \in [Procs -> Registry]
    <3>1. reg[p] \in Registry
      BY DEF ProcTypes
    <3>2. [reg[p] EXCEPT ![c] = status] \in Registry
      BY <3>1 DEF Registry
    <3>3. reg' = reg \/ reg' = [reg EXCEPT ![p] = [reg[p] EXCEPT ![c] = status]]
      BY <2>2 DEF RecordReadiness
    <3> QED
      BY <3>2, <3>3 DEF ProcTypes
  <2>5. pc' \in [Procs -> Labels] /\ \E l \in {"save", "registry"} : Goto(p, l)
    BY <2>2 DEF RecordReadiness, ProcTypes, Goto, Labels
  <2>6. ProcTypes' /\ StepInv'
    BY <1>21, <2>3, <2>4, <2>5 DEF ExternalStep, ProcTypes, StepInv, Goto
  <2> QED
    BY <2>1, <2>6
<1>22. ASSUME NEW p \in Procs, PassGate(p)
      PROVE  DiskTypes' /\ ProcTypes' /\ StepInv'
  BY <1>22
     DEF DiskTypes, ProcTypes, StepInv, Goto, Labels, Registry, Db, SessionDb, Migration,
         PassGate, At
<1>23. ASSUME NEW p \in Procs, StepFails(p)
      PROVE  DiskTypes' /\ ProcTypes' /\ StepInv'
  BY <1>23
     DEF DiskTypes, ProcTypes, StepInv, Goto, Labels, Registry, Db, SessionDb, Migration,
         StepFails, Due, At, Fault
<1>24. ASSUME NEW p \in Procs, TruncateFile(p)
      PROVE  DiskTypes' /\ ProcTypes' /\ StepInv'
  <2>1. DiskTypes'
    <3>1. stateFile' \in [ok : BOOLEAN, completed : SUBSET StepIds]
      BY <1>24, ZenonT(20) DEF TruncateFile, DiskTypes
    <3>2. registry' \in [ok : BOOLEAN, checks : Registry]
      BY <1>24 DEF TruncateFile, DiskTypes
    <3> QED
      BY <1>24, <3>1, <3>2 DEF TruncateFile, DiskTypes
  <2>2. ProcTypes' /\ StepInv'
    BY <1>24 DEF TruncateFile, ProcTypes, StepInv, Goto, Labels
  <2> QED
    BY <2>1, <2>2
<1>25. ASSUME NEW p \in Procs, SaveRegistry(p)
      PROVE  DiskTypes' /\ ProcTypes' /\ StepInv'
  BY <1>25
     DEF DiskTypes, ProcTypes, StepInv, Goto, Labels, Registry, Db, SessionDb, Migration,
         SaveRegistry
<1>26. ASSUME NEW p \in Procs, SaveCompleted(p)
      PROVE  DiskTypes' /\ ProcTypes' /\ StepInv'
  BY <1>26
     DEF DiskTypes, ProcTypes, StepInv, Goto, Labels, Registry, Db, SessionDb, Migration,
         SaveCompleted, StepPc
<1>27. ASSUME NEW p \in Procs, SaveError(p)
      PROVE  DiskTypes' /\ ProcTypes' /\ StepInv'
  <2>1. Exit(p) /\ UNCHANGED <<disk, dirs, config, registry, faults>>
    BY <1>27 DEF SaveError
  <2>2. stateFile' = stateFile \/ stateFile' = [ok |-> TRUE, completed |-> mem[p]]
    BY <1>27 DEF SaveError
  <2>3. [ok |-> TRUE, completed |-> mem[p]] \in [ok : BOOLEAN, completed : SUBSET StepIds]
    BY DEF ProcTypes
  <2>4. stateFile' \in [ok : BOOLEAN, completed : SUBSET StepIds]
    BY <2>2, <2>3 DEF DiskTypes
  <2>5. DiskTypes'
    BY <2>1, <2>4 DEF DiskTypes
  <2> QED
    BY <2>1, <2>5, ExitKeepsTypes
<1>28. ASSUME NEW p \in Procs, SetupComplete(p)
      PROVE  DiskTypes' /\ ProcTypes' /\ StepInv'
  BY <1>28, ExitKeepsTypes
     DEF DiskTypes, ProcTypes, StepInv, Goto, Labels, Registry, Db, SessionDb, Migration,
         SetupComplete
<1>29. CASE UNCHANGED vars
  BY <1>29 DEF vars, DiskTypes, ProcTypes, StepInv
<1> QED
  BY <1>1, <1>2, <1>3, <1>4, <1>5, <1>6, <1>7, <1>8, <1>9, <1>10, <1>11, <1>12, <1>13,
     <1>14, <1>15, <1>16, <1>17, <1>18, <1>19, <1>20, <1>21, <1>22, <1>23, <1>24, <1>25,
     <1>26, <1>27, <1>28, <1>29
     DEF Next, Start, Migrate, Setup, Upgrade

(* Every process is idle and nothing is on disk at the start. *)
LEMMA InitTypes == Init => TypeOK /\ StepInv
<1> SUFFICES ASSUME Init PROVE DiskTypes /\ ProcTypes /\ StepInv
  BY TypesSplit
<1> USE StepsAreListed, NamesAssumption DEF Init
<1>1. NoChecks \in Registry
  BY DEF NoChecks, Registry
<1>2. /\ stateFile \in [ok : BOOLEAN, completed : SUBSET StepIds]
      /\ registry \in [ok : BOOLEAN, checks : Registry]
  BY <1>1
<1>3. version \in [SessionDb -> {0} \cup Versions] /\ faults \in 0..MaxFaults
  OBVIOUS
<1>4. DiskTypes
  BY <1>2, <1>3 DEF DiskTypes
<1>5. reg \in [Procs -> Registry] /\ step \in [Procs -> 1..(Len(Steps) + 1)]
  BY <1>1
<1>6. ProcTypes
  BY <1>5 DEF ProcTypes, Labels, Db
<1>7. StepInv
  BY DEF StepInv
<1> QED
  BY <1>4, <1>6, <1>7

(* TypeOK is an invariant: no interleaving of commands, no failed migration  *)
(* and no crash of a process takes a file, a database or a process out of    *)
(* its type.                                                                 *)
THEOREM InstanceTypeCorrect == Spec => []TypeOK
<1>1. Init => TypeOK /\ StepInv
  BY InitTypes
<1>2. TypeOK /\ StepInv /\ [Next]_vars => TypeOK' /\ StepInv'
  BY StepKeepsTypes
<1> QED
  BY <1>1, <1>2, PTL DEF Spec

-----------------------------------------------------------------------------
(* Rows and schema *)

(* What one process may do in a step. *)
StepOf(p) ==
    \/ Start(p) \/ Migrate(p) \/ Setup(p) \/ Upgrade(p)
    \/ \E s \in Sessions : OpenSession(p, s)
    \/ StopServe(p) \/ Crash(p)

(* CommitMigration is the only step that writes a schema or a row: it adds   *)
(* one migration that was not in effect, with one row.                       *)
LEMMA SchemaSteps ==
    ASSUME TypeOK, NEW p \in Procs, StepOf(p)
    PROVE  \/ UNCHANGED <<rows, tables>>
           \/ \E m \in First(todo[p]) :
                 /\ pc[p] = "tx" /\ db[p] \in Db
                 /\ m \notin tables[db[p]]
                 /\ tables' = [tables EXCEPT ![db[p]] = @ \cup {m}]
                 /\ rows' = [rows EXCEPT
                               ![db[p]] = @ \cup {[mig |-> m, sum |-> Sum(build[p], m)]}]
<1> USE DEF disk
<1>1. CASE CommitMigration(p)
  BY <1>1 DEF CommitMigration, SqlRuns, TypeOK
<1>2. CASE Verify(p) \/ BeginMigration(p) \/ ApplyDone(p)
  BY <1>2 DEF Verify, BeginMigration, ApplyDone
<1>3. CASE Start(p)
  BY <1>3 DEF Start, StartSetup, StartUpgrade, StartServe, Open
<1>4. CASE Upgrade(p)
  BY <1>4 DEF Upgrade, RecordVersions, SetSchemaVersion, Sweep, SweepDone, Open
<1>5. CASE Setup(p)
  BY <1>5 DEF Setup, LoadPipeline, SkipStep, CreateDirectories, WriteConfig, MigrateDb,
              MigrateDomainDb, WriteReadiness, ExternalStep, PassGate, StepFails,
              TruncateFile, SaveRegistry, SaveCompleted, SaveError, SetupComplete, Open
<1>6. CASE (\E s \in Sessions : OpenSession(p, s)) \/ StopServe(p) \/ Crash(p)
  BY <1>6 DEF OpenSession, StopServe, Crash
<1> QED
  BY <1>1, <1>2, <1>3, <1>4, <1>5, <1>6 DEF StepOf, Migrate

(* Rows and tables are only ever added. *)
LEMMA SchemaGrows ==
    ASSUME TypeOK, NEW p \in Procs, StepOf(p), NEW d \in Db
    PROVE  tables[d] \subseteq tables'[d] /\ rows[d] \subseteq rows'[d]
<1>1. CASE UNCHANGED <<rows, tables>>
  BY <1>1
<1>2. CASE \E m \in First(todo[p]) :
              /\ db[p] \in Db
              /\ tables' = [tables EXCEPT ![db[p]] = @ \cup {m}]
              /\ rows' = [rows EXCEPT
                            ![db[p]] = @ \cup {[mig |-> m, sum |-> Sum(build[p], m)]}]
  BY <1>2 DEF TypeOK
<1> QED
  BY <1>1, <1>2, SchemaSteps

(* A step keeps the rows and the schema of every database in agreement. *)
LEMMA StepKeepsRows ==
    ASSUME TypeOK, RowsMatchSchema, [Next]_vars
    PROVE  RowsMatchSchema'
<1>1. CASE UNCHANGED vars
  BY <1>1 DEF vars, disk, RowsMatchSchema, Applied
<1>2. CASE Next
  <2>1. PICK p \in Procs : StepOf(p)
    BY <1>2 DEF Next, StepOf
  <2>2. CASE UNCHANGED <<rows, tables>>
    BY <2>2 DEF RowsMatchSchema, Applied
  <2>3. CASE \E m \in First(todo[p]) :
                /\ db[p] \in Db
                /\ m \notin tables[db[p]]
                /\ tables' = [tables EXCEPT ![db[p]] = @ \cup {m}]
                /\ rows' = [rows EXCEPT
                              ![db[p]] = @ \cup {[mig |-> m, sum |-> Sum(build[p], m)]}]
    <3>1. PICK m \in First(todo[p]) :
                /\ db[p] \in Db
                /\ m \notin tables[db[p]]
                /\ tables' = [tables EXCEPT ![db[p]] = @ \cup {m}]
                /\ rows' = [rows EXCEPT
                              ![db[p]] = @ \cup {[mig |-> m, sum |-> Sum(build[p], m)]}]
      BY <2>3
    <3>2. SUFFICES ASSUME NEW d \in Db
                   PROVE  /\ {r.mig : r \in rows'[d]} = tables'[d]
                          /\ \A r, q \in rows'[d] : r.mig = q.mig => r = q
      BY DEF RowsMatchSchema, Applied
    <3>3. /\ {r.mig : r \in rows[d]} = tables[d]
          /\ \A r, q \in rows[d] : r.mig = q.mig => r = q
      BY DEF RowsMatchSchema, Applied
    <3>4. CASE d # db[p]
      BY <3>1, <3>3, <3>4 DEF TypeOK
    <3>5. CASE d = db[p]
      <4> DEFINE new == [mig |-> m, sum |-> Sum(build[p], m)]
      <4>1. rows'[d] = rows[d] \cup {new} /\ tables'[d] = tables[d] \cup {m}
        BY <3>1, <3>5 DEF TypeOK
      <4>2. new.mig = m /\ m \notin tables[d]
        BY <3>1, <3>5
      <4> HIDE DEF new
      <4> QED
        BY <3>3, <4>1, <4>2
    <3> QED
      BY <3>4, <3>5
  <2> QED
    BY <2>1, <2>2, <2>3, SchemaSteps
<1> QED
  BY <1>1, <1>2

(* In every database, whatever processes, builds and crashes there are, the  *)
(* schema_migrations rows name exactly the migrations in effect, each once.  *)
THEOREM RowsMatchSchemaInvariant == Spec => []RowsMatchSchema
<1>1. Init => RowsMatchSchema
  BY DEF Init, RowsMatchSchema, Applied
<1>2. TypeOK /\ RowsMatchSchema /\ [Next]_vars => RowsMatchSchema'
  BY StepKeepsRows
<1> QED
  BY <1>1, <1>2, InstanceTypeCorrect, PTL DEF Spec

-----------------------------------------------------------------------------
(* Session schema versions and the upgrade *)

Working == {"apply", "tx", "record", "meta", "sweep"}

(* A process that migrates a session database has applied, or has still to   *)
(* visit, every migration of its build; it goes on only with none to visit.  *)
Reach(p) ==
    /\ pc[p] \in {"apply", "tx", "meta"} /\ db[p] # Central =>
          SessionMigrations(build[p], db[p]) \subseteq todo[p] \cup tables[db[p]]
    /\ pc[p] \in {"meta", "record"} => todo[p] = {}
    /\ pc[p] \in {"sweep", "record", "serving"} => db[p] = Central
    /\ pc[p] = "idle" => found[p] = {}

(* The baseline row this build would write. *)
Row(b, m) == [mig |-> m, sum |-> Sum(b, m)]

(* An upgrade has the baseline rows before it sweeps, and has brought every  *)
(* database it found and took to its build's schema, but for the one it has  *)
(* open.                                                                     *)
Swept(p) ==
    cmd[p] = "upgrade" =>
        /\ pc[p] \in Working
        /\ \A m \in Baseline[build[p]] :
              \/ Row(build[p], m) \in rows[Central]
              \/ db[p] = Central /\ pc[p] # "sweep" /\ m \in todo[p]
        /\ found[p] \subseteq exists
        /\ \A d \in found[p] \ left[p] :
              d = db[p] \/ SessionMigrations(build[p], d) \subseteq tables[d]

UpgradeInv == \A p \in Procs : Reach(p) /\ Swept(p)

(* A process ends. *)
Ended(p) == Exit(p) /\ UNCHANGED <<exists, rows, tables, version>>

(* A step of a setup that is not about migrations. *)
Quiet(p) ==
    /\ UNCHANGED <<exists, rows, tables, version, cmd, build, db, todo, left, found>>
    /\ pc[p] \notin Working
    /\ pc[p] # "idle"
    /\ \E l \in Labels \ (Working \cup {"idle", "serving"}) : Goto(p, l)

(* Seen from the databases, every step of a process is one of these. *)
LEMMA StepCases ==
    ASSUME TypeOK, NEW p \in Procs, StepOf(p)
    PROVE  \/ Verify(p) \/ BeginMigration(p) \/ CommitMigration(p) \/ ApplyDone(p)
           \/ RecordVersions(p) \/ SetSchemaVersion(p) \/ Sweep(p)
           \/ SweepDone(p) \/ MigrateDb(p) \/ MigrateDomainDb(p)
           \/ (\E b \in Builds : StartUpgrade(p, b) \/ StartServe(p, b) \/ StartSetup(p, b))
           \/ (\E s \in Sessions : OpenSession(p, s))
           \/ Ended(p) \/ Quiet(p)
<1> USE DEF disk, sweepVars, setupVars, Labels, Working
<1>1. CASE StopServe(p) \/ Crash(p) \/ SaveError(p) \/ SetupComplete(p)
  BY <1>1 DEF StopServe, Crash, SaveError, SetupComplete, Ended
<1>2. CASE LoadPipeline(p)
  BY <1>2 DEF LoadPipeline, Ended, Quiet
<1>3. CASE SkipStep(p) \/ SaveCompleted(p)
  BY <1>3 DEF SkipStep, SaveCompleted, StepPc, At, Quiet
<1>4. CASE CreateDirectories(p) \/ WriteConfig(p) \/ WriteReadiness(p)
  BY <1>4 DEF CreateDirectories, WriteConfig, WriteReadiness, Due, At, Quiet
<1>5. CASE ExternalStep(p) \/ StepFails(p)
  BY <1>5 DEF ExternalStep, RecordReadiness, StepFails, Due, At, Quiet
<1>6. CASE TruncateFile(p) \/ SaveRegistry(p)
  BY <1>6 DEF TruncateFile, SaveRegistry, Quiet
<1>7. CASE PassGate(p)
  BY <1>7 DEF PassGate, At, Quiet, Goto, TypeOK
<1> QED
  BY <1>1, <1>2, <1>3, <1>4, <1>5, <1>6, <1>7
     DEF StepOf, Start, Migrate, Setup, Upgrade

(* No step removes a file. *)
LEMMA FilesStay ==
    ASSUME TypeOK, NEW p \in Procs, StepOf(p)
    PROVE  exists \subseteq exists'
<1> USE DEF disk
<1>1. CASE Ended(p) \/ Quiet(p)
  BY <1>1 DEF Ended, Quiet
<1> QED
  BY <1>1, StepCases
     DEF Verify, BeginMigration, CommitMigration, ApplyDone, RecordVersions,
         SetSchemaVersion, Sweep, SweepDone, MigrateDb, MigrateDomainDb, StartUpgrade, StartServe,
         StartSetup, OpenSession, Open

(* A process changes nothing that another holds in memory. *)
LEMMA OthersStay ==
    ASSUME TypeOK, NEW p \in Procs, StepOf(p), NEW q \in Procs, q # p
    PROVE  /\ cmd'[q] = cmd[q] /\ build'[q] = build[q] /\ pc'[q] = pc[q]
           /\ db'[q] = db[q] /\ todo'[q] = todo[q]
           /\ left'[q] = left[q] /\ found'[q] = found[q]
<1> USE DEF TypeOK, sweepVars, Goto
<1>1. CASE Ended(p) \/ Quiet(p)
  BY <1>1 DEF Ended, Quiet, Exit
<1>2. CASE Verify(p) \/ CommitMigration(p)
  BY <1>2 DEF Verify, CommitMigration, ApplyError, Exit
<1>3. CASE BeginMigration(p) \/ ApplyDone(p) \/ RecordVersions(p) \/ SetSchemaVersion(p)
  BY <1>3 DEF BeginMigration, ApplyDone, RecordVersions, SetSchemaVersion
<1>4. CASE Sweep(p) \/ MigrateDb(p) \/ MigrateDomainDb(p)
  BY <1>4 DEF Sweep, MigrateDb, MigrateDomainDb, Open
<1>5. CASE SweepDone(p)
  BY <1>5 DEF SweepDone, Exit
<1>6. CASE \E b \in Builds : StartUpgrade(p, b) \/ StartServe(p, b) \/ StartSetup(p, b)
  BY <1>6 DEF StartUpgrade, StartServe, StartSetup, Run, Open
<1>7. CASE \E s \in Sessions : OpenSession(p, s)
  BY <1>7 DEF OpenSession
<1> QED
  BY <1>1, <1>2, <1>3, <1>4, <1>5, <1>6, <1>7, StepCases

(* What holds of a process goes on to hold while others take steps. *)
LEMMA OthersKeepUpgradeInv ==
    ASSUME TypeOK, UpgradeInv, NEW p \in Procs, StepOf(p), NEW q \in Procs, q # p
    PROVE  Reach(q)' /\ Swept(q)'
<1>1. /\ cmd'[q] = cmd[q] /\ build'[q] = build[q] /\ pc'[q] = pc[q]
      /\ db'[q] = db[q] /\ todo'[q] = todo[q]
      /\ left'[q] = left[q] /\ found'[q] = found[q]
  BY OthersStay
<1>2. /\ \A d \in Db : tables[d] \subseteq tables'[d] /\ rows[d] \subseteq rows'[d]
      /\ exists \subseteq exists'
  BY SchemaGrows, FilesStay
<1>3. db[q] \in Db /\ Central \in Db /\ found[q] \subseteq Db
  BY DEF TypeOK, Db
<1>4. Reach(q) /\ Swept(q)
  BY DEF UpgradeInv
<1>5. Reach(q)'
  BY <1>1, <1>2, <1>3, <1>4 DEF Reach, SessionMigrations
<1>6. Swept(q)'
  BY <1>1, <1>2, <1>3, <1>4 DEF Swept, Row, Sum, SessionMigrations
<1> QED
  BY <1>5, <1>6

(* A step of an upgrade, of the daemon or of a setup keeps its own progress. *)
LEMMA OwnStepKeepsUpgradeInv ==
    ASSUME TypeOK, RowsMatchSchema, UpgradeInv, StepInv, NEW p \in Procs, StepOf(p),
           TypeOK'
    PROVE  Reach(p)' /\ Swept(p)'
<1> USE DEF disk, sweepVars, Goto
<1> Reach(p) /\ Swept(p)
  BY DEF UpgradeInv
<1>a. /\ \A d \in Db : tables[d] \subseteq tables'[d] /\ rows[d] \subseteq rows'[d]
      /\ exists \subseteq exists'
  BY SchemaGrows, FilesStay
<1>b. db[p] \in Db /\ Central \in Db /\ found[p] \subseteq SessionDb /\ SessionDb \subseteq Db
      /\ Central \notin SessionDb
  BY NamesAssumption DEF TypeOK, Db, SessionDb, Central
<1>c. \A d \in Db : Applied(d) = tables[d]
  BY DEF RowsMatchSchema
<1>1. CASE Ended(p)
  BY <1>1 DEF Ended, Exit, TypeOK, Reach, Swept
<1>2. CASE Quiet(p)
  BY <1>2 DEF Quiet, TypeOK, Reach, Swept, Working
<1>3. ASSUME ApplyError(p), pc[p] \in {"apply", "tx"}, UNCHANGED <<rows, tables, exists>>
      PROVE  Reach(p)' /\ Swept(p)'
  <2>1. CASE cmd[p] = "upgrade"
    BY <1>3, <2>1 DEF ApplyError, Exit, TypeOK, Reach, Swept
  <2>2. CASE cmd[p] # "upgrade"
    BY <1>3, <2>2 DEF ApplyError, Exit, TypeOK, Reach, Swept, setupVars
  <2> QED
    BY <2>1, <2>2
<1>4. CASE Verify(p)
  <2>1. CASE ApplyError(p)
    BY <1>3, <1>4, <2>1 DEF Verify
  <2>2. CASE ~ApplyError(p)
    <3>1. PICK m \in First(todo[p]) :
             /\ m \in Applied(db[p])
             /\ Row(build[p], m) \in rows[db[p]]
             /\ todo' = [todo EXCEPT ![p] = @ \ {m}]
             /\ UNCHANGED <<cmd, build, pc, db, left, found>>
      BY <1>4, <2>2 DEF Verify, Row
    <3>2. pc[p] = "apply" /\ UNCHANGED <<rows, tables, exists>>
      BY <1>4 DEF Verify
    <3>3. todo'[p] = todo[p] \ {m} /\ m \in tables[db[p]]
      BY <3>1, <1>b, <1>c DEF TypeOK
    <3>4. Reach(p)'
      BY <3>1, <3>2, <3>3 DEF Reach, SessionMigrations
    <3>5. Swept(p)'
      BY <3>1, <3>2, <3>3 DEF Swept, SessionMigrations, Row, Sum
    <3> QED
      BY <3>4, <3>5
  <2> QED
    BY <2>1, <2>2
<1>5. CASE BeginMigration(p)
  <2>1. Reach(p)'
    <3>1. /\ pc[p] = "apply" /\ pc'[p] = "tx"
          /\ UNCHANGED <<tables, build, db, todo, found>>
      BY <1>5 DEF BeginMigration, TypeOK
    <3> QED
      BY <3>1 DEF Reach, SessionMigrations
  <2>2. Swept(p)'
    BY <1>5 DEF BeginMigration, Swept, TypeOK, SessionMigrations, Row, Sum, Working
  <2> QED
    BY <2>1, <2>2
<1>6. CASE CommitMigration(p)
  <2>1. CASE ApplyError(p) /\ UNCHANGED <<rows, tables>>
    BY <1>3, <1>6, <2>1 DEF CommitMigration
  <2>2. CASE ~(ApplyError(p) /\ UNCHANGED <<rows, tables>>)
    <3>1. PICK m \in First(todo[p]) :
             /\ tables' = [tables EXCEPT ![db[p]] = @ \cup {m}]
             /\ rows' = [rows EXCEPT ![db[p]] = @ \cup {Row(build[p], m)}]
             /\ todo' = [todo EXCEPT ![p] = @ \ {m}]
             /\ Goto(p, "apply")
             /\ UNCHANGED <<cmd, build, db, left, found>>
      BY <1>6, <2>2 DEF CommitMigration, Row
    <3>2. pc[p] = "tx" /\ UNCHANGED exists
      BY <1>6 DEF CommitMigration
    <3>3. /\ todo'[p] = todo[p] \ {m} /\ pc'[p] = "apply"
          /\ m \in tables'[db[p]] /\ Row(build[p], m) \in rows'[db[p]]
      BY <3>1, <1>b DEF TypeOK
    <3>4. Reach(p)'
      BY <3>1, <3>2, <3>3, <1>a, <1>b DEF Reach, SessionMigrations
    <3>5. Swept(p)'
      BY <3>1, <3>2, <3>3, <1>a, <1>b DEF Swept, SessionMigrations, Row, Sum, Working
    <3> QED
      BY <3>4, <3>5
  <2> QED
    BY <2>1, <2>2
<1>7. CASE ApplyDone(p)
  <2>1. Reach(p)'
    BY <1>7 DEF ApplyDone, Reach, TypeOK, SessionMigrations
  <2>2. Swept(p)'
    BY <1>7 DEF ApplyDone, Swept, TypeOK, SessionMigrations, Row, Sum, Working
  <2> QED
    BY <2>1, <2>2
<1>8. CASE RecordVersions(p)
  <2>1. Reach(p)'
    BY <1>8 DEF RecordVersions, Reach, TypeOK, SessionMigrations
  <2>2. CASE cmd[p] = "upgrade"
    <3>1. found'[p] \ left'[p] = {} /\ found'[p] \subseteq exists /\ pc'[p] = "sweep"
      BY <1>8, <2>2 DEF RecordVersions, TypeOK
    <3>2. \A m \in Baseline[build[p]] : Row(build[p], m) \in rows[Central]
      BY <1>8, <2>2 DEF RecordVersions, Reach, Swept
    <3> QED
      BY <1>8, <2>1, <3>1, <3>2 DEF RecordVersions, Swept, Row, Sum, Working
  <2> QED
    BY <1>8, <2>1, <2>2 DEF RecordVersions, Swept
<1>9. CASE SetSchemaVersion(p)
  <2>1. db[p] \in SessionDb /\ db[p] # Central
    BY <1>9, <1>b DEF SetSchemaVersion, TypeOK
  <2>2. SessionMigrations(build[p], db[p]) \subseteq tables[db[p]]
    BY <1>9, <2>1 DEF SetSchemaVersion, Reach
  <2>3. /\ pc'[p] = "sweep" /\ db'[p] = Central
        /\ UNCHANGED <<exists, rows, tables, cmd, build, todo, left, found>>
    BY <1>9 DEF SetSchemaVersion, TypeOK
  <2>4. Reach(p)'
    BY <2>3 DEF Reach
  <2>5. Swept(p)'
    BY <2>1, <2>2, <2>3 DEF Swept, SessionMigrations, Row, Sum, Working
  <2> QED
    BY <2>4, <2>5
<1>10. CASE Sweep(p)
  <2>1. PICK d \in NextDb(left[p]) :
           /\ left' = [left EXCEPT ![p] = @ \ {d}]
           /\ \/ /\ cmd[p] = "upgrade" /\ d \notin exists
                 /\ UNCHANGED <<disk, pc, db, todo>>
              \/ /\ cmd[p] = "serve" \/ d \in exists
                 /\ Open(p, d, SessionMigrations(build[p], d))
    BY <1>10 DEF Sweep
  <2>2. /\ pc[p] = "sweep" /\ db[p] = Central
        /\ UNCHANGED <<cmd, build, found, rows, tables>>
        /\ left'[p] = left[p] \ {d}
    BY <1>10, <2>1 DEF Sweep, Open, Reach, TypeOK
  <2>3. CASE UNCHANGED <<disk, pc, db, todo>> /\ cmd[p] = "upgrade" /\ d \notin exists
    <3>1. Reach(p)'
      BY <2>2, <2>3 DEF Reach
    <3>2. d \notin found[p]
      BY <2>3 DEF Swept
    <3>3. Swept(p)'
      BY <2>2, <2>3, <3>2 DEF Swept, SessionMigrations, Row, Sum
    <3> QED
      BY <3>1, <3>3
  <2>4. CASE Open(p, d, SessionMigrations(build[p], d))
    <3>1. db'[p] = d /\ pc'[p] = "apply" /\ todo'[p] = SessionMigrations(build[p], d)
      BY <2>4 DEF Open, TypeOK
    <3>2. Reach(p)'
      BY <2>2, <3>1 DEF Reach, SessionMigrations
    <3>3. Swept(p)'
      BY <2>2, <3>1, <1>a, <1>b DEF Swept, SessionMigrations, Row, Sum, Working
    <3> QED
      BY <3>2, <3>3
  <2> QED
    BY <2>1, <2>3, <2>4
<1>11. CASE SweepDone(p)
  BY <1>11 DEF SweepDone, Exit, Reach, Swept, TypeOK
<1>12. CASE MigrateDb(p) \/ MigrateDomainDb(p)
  <2>1. cmd[p] # "upgrade"
    BY <1>12 DEF MigrateDb, MigrateDomainDb, Due, At, Swept, Working
  <2>2. UNCHANGED cmd /\ pc'[p] = "apply" /\ db'[p] = Central
    BY <1>12 DEF MigrateDb, MigrateDomainDb, Open, TypeOK
  <2> QED
    BY <2>1, <2>2 DEF Reach, Swept
<1>13. ASSUME NEW b \in Builds,
              StartUpgrade(p, b) \/ StartServe(p, b) \/ StartSetup(p, b)
       PROVE  Reach(p)' /\ Swept(p)'
  <2>1. CASE StartUpgrade(p, b)
    <3>1. /\ cmd'[p] = "upgrade" /\ build'[p] = b /\ pc'[p] = "apply"
          /\ db'[p] = Central /\ todo'[p] = Baseline[b] /\ found'[p] = {}
      BY <2>1 DEF StartUpgrade, Run, Open, TypeOK, Reach
    <3> QED
      BY <3>1 DEF Reach, Swept, Working
  <2>2. CASE StartServe(p, b) \/ StartSetup(p, b)
    BY <2>2 DEF StartServe, StartSetup, Run, Open, TypeOK, Reach, Swept
  <2> QED
    BY <1>13, <2>1, <2>2
<1>14. ASSUME NEW s \in Sessions, OpenSession(p, s)
       PROVE  Reach(p)' /\ Swept(p)'
  BY <1>14 DEF OpenSession, TypeOK, Reach, Swept, Working
<1> QED
  BY <1>1, <1>2, <1>4, <1>5, <1>6, <1>7, <1>8, <1>9, <1>10, <1>11, <1>12, <1>13, <1>14,
     StepCases

(* Every step of every process keeps the progress of all of them. *)
LEMMA StepKeepsUpgradeInv ==
    ASSUME TypeOK, RowsMatchSchema, UpgradeInv, StepInv, [Next]_vars, TypeOK'
    PROVE  UpgradeInv'
<1>1. CASE UNCHANGED vars
  BY <1>1 DEF vars, disk, sweepVars, UpgradeInv, Reach, Swept, SessionMigrations, Row, Sum
<1>2. CASE Next
  <2>1. PICK p \in Procs : StepOf(p)
    BY <1>2 DEF Next, StepOf
  <2>2. \A q \in Procs : Reach(q)' /\ Swept(q)'
    BY <2>1, OwnStepKeepsUpgradeInv, OthersKeepUpgradeInv
  <2> QED
    BY <2>2 DEF UpgradeInv
<1> QED
  BY <1>1, <1>2

(* SetSchemaVersion is the only step that writes a version, and it has every *)
(* migration up to that version behind it.                                   *)
LEMMA StepKeepsVersions ==
    ASSUME TypeOK, UpgradeInv, NeverOverclaims, [Next]_vars
    PROVE  NeverOverclaims'
<1> USE DEF disk
<1>1. CASE UNCHANGED vars
  BY <1>1 DEF vars, NeverOverclaims
<1>2. ASSUME NEW p \in Procs, StepOf(p)
      PROVE  NeverOverclaims'
  <2>1. \A d \in Db : tables[d] \subseteq tables'[d]
    BY <1>2, SchemaGrows
  <2>2. CASE UNCHANGED version
    BY <2>1, <2>2 DEF NeverOverclaims, Db
  <2>3. CASE SetSchemaVersion(p)
    <3>1. db[p] \in SessionDb /\ Reach(p) /\ db[p] # Central
      BY <2>3, NamesAssumption
         DEF SetSchemaVersion, TypeOK, UpgradeInv, SessionDb, Central
    <3>2. SessionMigrations(build[p], db[p]) \subseteq tables[db[p]]
      BY <2>3, <3>1 DEF SetSchemaVersion, Reach
    <3>3. /\ version' = [version EXCEPT ![db[p]] = SessionVersion[build[p]][db[p][2]]]
          /\ UNCHANGED tables
      BY <2>3 DEF SetSchemaVersion
    <3>4. \A v \in 1..SessionVersion[build[p]][db[p][2]] : <<db[p][2], v>> \in tables[db[p]]
      BY <3>2 DEF SessionMigrations
    <3> QED
      BY <3>1, <3>3, <3>4 DEF NeverOverclaims, TypeOK
  <2>4. version' = version \/ SetSchemaVersion(p)
    <3>1. CASE Ended(p) \/ Quiet(p)
      BY <3>1 DEF Ended, Quiet
    <3> QED
      BY <1>2, <3>1, StepCases
         DEF Verify, BeginMigration, CommitMigration, ApplyDone, RecordVersions, Sweep,
             SweepDone, MigrateDb, MigrateDomainDb, StartUpgrade, StartServe, StartSetup,
             OpenSession, Open
  <2> QED
    BY <2>2, <2>3, <2>4
<1> QED
  BY <1>1, <1>2 DEF Next, StepOf

(* What the upgrade invariants need at the start. *)
LEMMA InitUpgradeInv == Init => UpgradeInv /\ NeverOverclaims
<1> SUFFICES ASSUME Init PROVE UpgradeInv /\ NeverOverclaims
  OBVIOUS
<1>1. UpgradeInv
  BY DEF Init, UpgradeInv, Reach, Swept
<1>2. NeverOverclaims
  BY DEF Init, NeverOverclaims
<1> QED
  BY <1>1, <1>2

(* The invariants hold together in every reachable state. *)
LEMMA UpgradeInvariants == Spec => [](TypeOK /\ StepInv /\ UpgradeInv)
<1>1. Spec => [](TypeOK /\ StepInv)
  <2>1. Init => TypeOK /\ StepInv
    BY InitTypes
  <2>2. TypeOK /\ StepInv /\ [Next]_vars => TypeOK' /\ StepInv'
    BY StepKeepsTypes
  <2> QED
    BY <2>1, <2>2, PTL DEF Spec
<1>2. Init => UpgradeInv
  BY InitUpgradeInv
<1>3. /\ TypeOK /\ StepInv /\ RowsMatchSchema /\ UpgradeInv /\ [Next]_vars
      /\ (TypeOK /\ StepInv)'
      => UpgradeInv'
  BY StepKeepsUpgradeInv
<1> QED
  BY <1>1, <1>2, <1>3, RowsMatchSchemaInvariant, PTL DEF Spec

(* A session's recorded schema version never claims a migration that is not  *)
(* in effect, however upgrades, daemons of several builds and crashes are    *)
(* interleaved.                                                              *)
THEOREM NeverOverclaimsInvariant == Spec => []NeverOverclaims
<1>1. Init => NeverOverclaims
  BY InitUpgradeInv
<1>2. TypeOK /\ UpgradeInv /\ NeverOverclaims /\ [Next]_vars => NeverOverclaims'
  BY StepKeepsVersions
<1> QED
  BY <1>1, <1>2, UpgradeInvariants, PTL DEF Spec

(* Whatever an upgrade has swept is at the schema of its build, and the      *)
(* central baseline has the content this build registers, for any number of  *)
(* commands that run beside it.                                              *)
THEOREM UpgradeReachesInvariant == Spec => []UpgradeReaches
<1>1. TypeOK /\ UpgradeInv => UpgradeReaches
  <2> SUFFICES ASSUME TypeOK, UpgradeInv, NEW p \in Procs,
                      cmd[p] = "upgrade", pc[p] = "sweep"
               PROVE  /\ \A m \in Baseline[build[p]] : Row(build[p], m) \in rows[Central]
                      /\ \A d \in found[p] \ left[p] :
                            SessionMigrations(build[p], d) \subseteq tables[d]
    BY DEF UpgradeReaches, Row
  <2>1. Reach(p) /\ Swept(p)
    BY DEF UpgradeInv
  <2>2. db[p] = Central /\ Central \notin found[p]
    BY <2>1, NamesAssumption DEF Reach, TypeOK, SessionDb, Central
  <2> QED
    BY <2>1, <2>2 DEF Swept
<1> QED
  BY <1>1, UpgradeInvariants, PTL

-----------------------------------------------------------------------------
(* Completed setup steps *)

(* Every check is registered, or none is. *)
Full(checks) == \A c \in Checks : checks[c] # "absent"
Whole(checks) == Full(checks) \/ \A c \in Checks : checks[c] = "absent"

(* The step has had its effect. *)
Done(id) ==
    /\ id = "create_directories" => dirs
    /\ id = "write_config" => config
    /\ id = "migrate_db" => \E b \in Builds : Baseline[b] \subseteq tables[Central]
    /\ id = "migrate_domain_db" => \E b \in Builds : Domain[b] \subseteq tables[Central]
    /\ id = "write_readiness" => Full(registry.checks)

(* The step a process is about to record. *)
Recorded(p) == IF pc[p] \in {"save", "save_open"} THEN {Steps[step[p]]} ELSE {}

(* The migrations the step under way stands for. *)
StepMigrations(p) ==
    IF Steps[step[p]] = "migrate_domain_db" THEN Domain[build[p]] ELSE Baseline[build[p]]

(* A process writes the registry only with every check in it, ... *)
RegistryOK(p) ==
    /\ Whole(reg[p])
    /\ pc[p] \in {"registry", "registry_open"} =>
          /\ Full(reg[p])
          /\ Steps[step[p]] \in {"write_readiness", "provision_agent_image", "configure_onecli"}

(* ... a setup that migrates has still to visit what is not in effect, ...   *)
MigrateOK(p) ==
    cmd[p] = "setup" /\ pc[p] \in {"apply", "tx", "record"} =>
        /\ Steps[step[p]] \in {"migrate_db", "migrate_domain_db"}
        /\ StepMigrations(p) \subseteq todo[p] \cup tables[Central]
        /\ pc[p] = "record" => Steps[step[p]] = "migrate_db"

(* ... and it skips or records only steps that have had their effect.        *)
StepsOK(p) == \A id \in mem[p] \cup Recorded(p) : Done(id)

DoneInv ==
    /\ \A id \in stateFile.completed : Done(id)
    /\ Whole(registry.checks)
    /\ \A p \in Procs : RegistryOK(p) /\ MigrateOK(p) /\ StepsOK(p)

LEMMA InitDoneInv == Init => DoneInv
<1> SUFFICES ASSUME Init PROVE DoneInv
  OBVIOUS
<1>1. Whole(registry.checks) /\ \A id \in stateFile.completed : Done(id)
  BY DEF Init, NoChecks, Whole
<1>2. ASSUME NEW p \in Procs PROVE RegistryOK(p) /\ MigrateOK(p) /\ StepsOK(p)
  BY DEF Init, NoChecks, Whole, RegistryOK, MigrateOK, StepsOK, Recorded
<1> QED
  BY <1>1, <1>2 DEF DoneInv

(* No step undoes the effect of another: directories, configuration, tables  *)
(* and registered checks stay.                                               *)
LEMMA EffectsStay ==
    ASSUME TypeOK, DoneInv, NEW p \in Procs, StepOf(p)
    PROVE  /\ \A id : Done(id) => Done(id)'
           /\ Whole(registry.checks)'
<1> USE DEF setupFiles
<1>1. tables[Central] \subseteq tables'[Central]
  BY SchemaGrows DEF Db
<1>2. /\ dirs' = dirs \/ dirs' = TRUE
      /\ config' = config \/ config' = TRUE
      /\ \/ registry'.checks = registry.checks
         \/ registry'.checks = reg[p] /\ pc[p] = "registry_open"
  <2>1. CASE Setup(p)
    <3>1. CASE CreateDirectories(p) \/ WriteConfig(p)
      BY <3>1 DEF CreateDirectories, WriteConfig
    <3>2. CASE TruncateFile(p) \/ SaveRegistry(p)
      BY <3>2 DEF TruncateFile, SaveRegistry, TypeOK
    <3>3. CASE SaveCompleted(p) \/ SaveError(p)
      BY <3>3 DEF SaveCompleted, SaveError
    <3> QED
      BY <2>1, <3>1, <3>2, <3>3
         DEF Setup, LoadPipeline, SkipStep, MigrateDb, MigrateDomainDb, WriteReadiness,
             ExternalStep, PassGate, StepFails, SetupComplete
  <2>2. CASE Start(p) \/ Migrate(p) \/ Upgrade(p)
    BY <2>2 DEF Start, StartSetup, StartUpgrade, StartServe, Migrate, Verify, BeginMigration,
                CommitMigration, ApplyDone, Upgrade, RecordVersions, SetSchemaVersion, Sweep, SweepDone
  <2>3. CASE (\E s \in Sessions : OpenSession(p, s)) \/ StopServe(p) \/ Crash(p)
    BY <2>3 DEF OpenSession, StopServe, Crash
  <2> QED
    BY <2>1, <2>2, <2>3 DEF StepOf
<1>3. /\ Full(registry.checks) => Full(registry'.checks)
      /\ Whole(registry'.checks)
  BY <1>2 DEF DoneInv, RegistryOK, Whole
<1>4. (dirs => dirs') /\ (config => config')
  BY <1>2
<1>5. ASSUME NEW id, Done(id) PROVE Done(id)'
  BY <1>1, <1>3, <1>4, <1>5 DEF Done, Full
<1> QED
  BY <1>3, <1>5 DEF Whole, Full

LEMMA OtherSetupsStay ==
    ASSUME TypeOK, NEW p \in Procs, StepOf(p), NEW q \in Procs, q # p
    PROVE  step'[q] = step[q] /\ mem'[q] = mem[q] /\ reg'[q] = reg[q]
<1> USE DEF TypeOK, setupVars, Exit
<1>1. CASE Setup(p)
  <2>1. CASE ExternalStep(p)
    BY <2>1 DEF ExternalStep, RecordReadiness
  <2> QED
    BY <1>1, <2>1
       DEF Setup, LoadPipeline, SkipStep, CreateDirectories, WriteConfig, MigrateDb,
           MigrateDomainDb, WriteReadiness, PassGate, StepFails, TruncateFile, SaveRegistry,
           SaveCompleted, SaveError, SetupComplete
<1>2. CASE Start(p) \/ Upgrade(p)
  BY <1>2 DEF Start, StartSetup, StartUpgrade, StartServe, Upgrade, RecordVersions,
              SetSchemaVersion, Sweep, SweepDone
<1>3. CASE Migrate(p)
  BY <1>3 DEF Migrate, Verify, BeginMigration, CommitMigration, ApplyDone, ApplyError
<1>4. CASE (\E s \in Sessions : OpenSession(p, s)) \/ StopServe(p) \/ Crash(p)
  BY <1>4 DEF OpenSession, StopServe, Crash
<1> QED
  BY <1>1, <1>2, <1>3, <1>4 DEF StepOf

LEMMA OthersKeepDone ==
    ASSUME TypeOK, DoneInv, NEW p \in Procs, StepOf(p), NEW q \in Procs, q # p
    PROVE  (RegistryOK(q) /\ MigrateOK(q) /\ StepsOK(q))'
<1>1. /\ cmd'[q] = cmd[q] /\ build'[q] = build[q] /\ pc'[q] = pc[q] /\ todo'[q] = todo[q]
      /\ step'[q] = step[q] /\ mem'[q] = mem[q] /\ reg'[q] = reg[q]
  BY OthersStay, OtherSetupsStay
<1>2. /\ \A id : Done(id) => Done(id)'
      /\ tables[Central] \subseteq tables'[Central]
  BY EffectsStay, SchemaGrows DEF Db
<1>3. RegistryOK(q) /\ MigrateOK(q) /\ StepsOK(q)
  BY DEF DoneInv
<1>4. RegistryOK(q)'
  BY <1>1, <1>3 DEF RegistryOK, Whole, Full
<1>5. MigrateOK(q)'
  BY <1>1, <1>2, <1>3 DEF MigrateOK, StepMigrations
<1>6. StepsOK(q)'
  BY <1>1, <1>2, <1>3 DEF StepsOK, Recorded
<1> QED
  BY <1>4, <1>5, <1>6

SetupLabels == {"save", "save_open", "registry", "registry_open", "apply", "tx", "record"}

(* What a process holds at a label where nothing is pending. *)
LEMMA NothingPending ==
    ASSUME NEW p \in Procs, pc'[p] \notin SetupLabels, Whole(reg'[p]), \A id \in mem'[p] : Done(id)'
    PROVE  (RegistryOK(p) /\ MigrateOK(p) /\ StepsOK(p))'
BY DEF SetupLabels, RegistryOK, MigrateOK, StepsOK, Recorded, Whole, Full

(* A process that is gone holds nothing. *)
LEMMA ExitKeepsDone ==
    ASSUME TypeOK, NEW p \in Procs, Exit(p)
    PROVE  (RegistryOK(p) /\ MigrateOK(p) /\ StepsOK(p))'
<1>1. pc'[p] = "idle" /\ mem'[p] = {} /\ reg'[p] = NoChecks
  BY DEF Exit, TypeOK
<1>2. Whole(reg'[p])
  BY <1>1 DEF NoChecks, Whole
<1> QED
  BY <1>1, <1>2, NothingPending DEF SetupLabels

(* The steps of apply, of an upgrade and of the daemon. *)
LEMMA MigratingKeepsDone ==
    ASSUME TypeOK, StepInv, UpgradeInv, RowsMatchSchema, DoneInv, NEW p \in Procs, StepOf(p),
           \/ Migrate(p) \/ Upgrade(p) \/ StopServe(p) \/ Crash(p) \/ \E s \in Sessions : OpenSession(p, s)
    PROVE  (RegistryOK(p) /\ MigrateOK(p) /\ StepsOK(p))'
<1> USE DEF disk, setupFiles, sweepVars, setupVars, Goto
<1>a. /\ \A id : Done(id) => Done(id)'
      /\ tables[Central] \subseteq tables'[Central]
  BY EffectsStay, SchemaGrows DEF Db
<1>b. RegistryOK(p) /\ MigrateOK(p) /\ StepsOK(p)
  BY DEF DoneInv
<1>c. /\ pc \in [Procs -> Labels] /\ todo \in [Procs -> SUBSET Migration]
      /\ cmd[p] = "setup" => db[p] = Central /\ pc[p] \notin {"sweep", "meta", "serving"}
      /\ pc[p] = "record" => todo[p] = {}
  BY DEF TypeOK, StepInv, UpgradeInv, Reach
<1>d. Whole(reg[p]) /\ \A id \in mem[p] : Done(id)
  BY <1>b DEF RegistryOK, StepsOK
<1>1. ASSUME pc'[p] \notin SetupLabels, UNCHANGED setupVars
      PROVE  (RegistryOK(p) /\ MigrateOK(p) /\ StepsOK(p))'
  BY <1>1, <1>a, <1>d, NothingPending
<1>2. ASSUME ApplyError(p) PROVE (RegistryOK(p) /\ MigrateOK(p) /\ StepsOK(p))'
  <2>1. CASE Exit(p)
    BY <2>1, ExitKeepsDone
  <2>2. CASE ~Exit(p)
    <3>1. pc'[p] \in {"save_error", "serving"} /\ UNCHANGED setupVars
      BY <1>2, <1>c, <2>2 DEF ApplyError
    <3> QED
      BY <1>1, <3>1 DEF SetupLabels
  <2> QED
    BY <2>1, <2>2
<1>3. ASSUME UNCHANGED <<cmd, build, setupVars>>, pc[p] \in {"apply", "tx"}, pc'[p] \in {"apply", "tx"},
             todo[p] \cup tables[Central] \subseteq todo'[p] \cup tables'[Central] \/ cmd[p] # "setup"
      PROVE  (RegistryOK(p) /\ MigrateOK(p) /\ StepsOK(p))'
  <2>1. MigrateOK(p)'
    BY <1>3, <1>b DEF MigrateOK, StepMigrations
  <2>2. RegistryOK(p)'
    BY <1>3, <1>d DEF RegistryOK, Whole, Full
  <2>3. StepsOK(p)'
    BY <1>3, <1>a, <1>d DEF StepsOK, Recorded
  <2> QED
    BY <2>1, <2>2, <2>3
<1>4. CASE Verify(p)
  <2>1. PICK m \in First(todo[p]) :
           /\ m \in Applied(db[p])
           /\ \/ /\ todo' = [todo EXCEPT ![p] = @ \ {m}]
                 /\ UNCHANGED <<cmd, build, pc, db, sweepVars, setupVars>>
              \/ ApplyError(p)
    BY <1>4 DEF Verify
  <2>2. CASE ApplyError(p)
    BY <1>2, <2>2
  <2>3. CASE /\ todo' = [todo EXCEPT ![p] = @ \ {m}]
             /\ UNCHANGED <<cmd, build, pc, db, sweepVars, setupVars>>
    <3>1. cmd[p] = "setup" => m \in tables[Central]
      BY <1>c, <2>1 DEF RowsMatchSchema, Db
    <3>2. todo[p] \cup tables[Central] \subseteq todo'[p] \cup tables'[Central] \/ cmd[p] # "setup"
      BY <1>a, <1>c, <2>3, <3>1
    <3> QED
      BY <1>3, <1>4, <2>3, <3>2 DEF Verify
  <2> QED
    BY <2>1, <2>2, <2>3
<1>5. CASE BeginMigration(p)
  BY <1>3, <1>5, <1>a, <1>c DEF BeginMigration
<1>6. CASE CommitMigration(p)
  <2>1. CASE ApplyError(p)
    BY <1>2, <2>1
  <2>2. CASE ~ApplyError(p)
    <3>1. PICK m \in First(todo[p]) :
              /\ tables' = [tables EXCEPT ![db[p]] = @ \cup {m}]
              /\ todo' = [todo EXCEPT ![p] = @ \ {m}]
              /\ Goto(p, "apply")
              /\ UNCHANGED <<cmd, build, db, sweepVars, setupVars, faults>>
      BY <1>6, <2>2 DEF CommitMigration
    <3>2. cmd[p] = "setup" => tables'[Central] = tables[Central] \cup {m}
      BY <1>c, <3>1 DEF TypeOK, Db
    <3>3. todo[p] \cup tables[Central] \subseteq todo'[p] \cup tables'[Central] \/ cmd[p] # "setup"
      BY <1>c, <3>1, <3>2
    <3> QED
      BY <1>3, <1>6, <1>c, <3>1, <3>3 DEF CommitMigration
  <2> QED
    BY <2>1, <2>2
<1>7. CASE ApplyDone(p)
  <2>1. /\ UNCHANGED <<cmd, build, todo, setupVars, tables>> /\ todo[p] = {} /\ pc[p] = "apply"
        /\ \/ pc'[p] \notin SetupLabels
           \/ pc'[p] = "record" /\ cmd[p] # "setup"
           \/ pc'[p] = "record" /\ Steps[step[p]] # "migrate_domain_db"
           \/ pc'[p] = "save" /\ cmd[p] = "setup" /\ Steps[step[p]] = "migrate_domain_db"
    BY <1>7, <1>c DEF ApplyDone, SetupLabels
  <2>2. CASE pc'[p] \notin SetupLabels
    BY <1>1, <2>1, <2>2
  <2>3. CASE pc'[p] = "record"
    <3>1. MigrateOK(p)'
      BY <1>b, <2>1, <2>3 DEF MigrateOK, StepMigrations, SetupLabels
    <3>2. RegistryOK(p)' /\ StepsOK(p)'
      BY <1>a, <1>d, <2>1, <2>3 DEF RegistryOK, StepsOK, Recorded, Whole, Full
    <3> QED
      BY <3>1, <3>2
  <2>4. CASE pc'[p] = "save"
    <3>1. cmd[p] = "setup" /\ Steps[step[p]] = "migrate_domain_db"
      BY <2>1, <2>4 DEF SetupLabels
    <3>2. Domain[build[p]] \subseteq tables[Central] /\ build[p] \in Builds
      BY <1>b, <2>1, <3>1 DEF MigrateOK, StepMigrations, TypeOK
    <3>3. Done("migrate_domain_db")'
      BY <2>1, <3>2 DEF Done
    <3>4. StepsOK(p)'
      BY <1>a, <1>d, <2>1, <3>1, <3>3 DEF StepsOK, Recorded
    <3>5. RegistryOK(p)' /\ MigrateOK(p)'
      BY <1>d, <2>1, <2>4 DEF RegistryOK, MigrateOK, Whole, Full
    <3> QED
      BY <3>4, <3>5
  <2> QED
    BY <2>1, <2>2, <2>3, <2>4
<1>8. CASE RecordVersions(p)
  <2>1. UNCHANGED <<cmd, build, setupVars, tables>> /\ pc[p] = "record" /\ todo[p] = {}
    BY <1>8, <1>c DEF RecordVersions
  <2>2. CASE cmd[p] = "upgrade"
    BY <1>1, <1>8, <1>c, <2>2 DEF RecordVersions, SetupLabels
  <2>3. CASE cmd[p] = "setup"
    <3>1. pc'[p] = "save"
      BY <1>8, <1>c, <2>3 DEF RecordVersions
    <3>2. Steps[step[p]] = "migrate_db" /\ Baseline[build[p]] \subseteq tables[Central] /\ build[p] \in Builds
      BY <1>b, <2>1, <2>3 DEF MigrateOK, StepMigrations, TypeOK
    <3>3. Done("migrate_db")'
      BY <2>1, <3>2 DEF Done
    <3>4. StepsOK(p)'
      BY <1>a, <1>d, <2>1, <3>2, <3>3 DEF StepsOK, Recorded
    <3>5. RegistryOK(p)' /\ MigrateOK(p)'
      BY <1>d, <2>1, <3>1 DEF RegistryOK, MigrateOK, Whole, Full
    <3> QED
      BY <3>4, <3>5
  <2> QED
    BY <1>8, <2>2, <2>3 DEF RecordVersions
<1>9. CASE SetSchemaVersion(p)
  BY <1>1, <1>9, <1>c DEF SetSchemaVersion, SetupLabels
<1>10. CASE Sweep(p)
  <2>1. cmd[p] # "setup" /\ UNCHANGED <<cmd, setupVars>> /\ pc'[p] \in {"sweep", "apply"}
    BY <1>10, <1>c DEF Sweep, Open
  <2> QED
    BY <1>a, <1>d, <2>1 DEF RegistryOK, MigrateOK, StepsOK, Recorded, Whole, Full
<1>11. CASE SweepDone(p)
  <2>1. CASE Exit(p)
    BY <2>1, ExitKeepsDone
  <2>2. CASE ~Exit(p)
    BY <1>1, <1>11, <1>c, <2>2 DEF SweepDone, SetupLabels
  <2> QED
    BY <2>1, <2>2
<1>12. CASE StopServe(p) \/ Crash(p)
  BY <1>12, ExitKeepsDone DEF StopServe, Crash
<1>13. ASSUME NEW s \in Sessions, OpenSession(p, s) PROVE (RegistryOK(p) /\ MigrateOK(p) /\ StepsOK(p))'
  BY <1>1, <1>13, <1>c DEF OpenSession, SetupLabels
<1> QED
  BY <1>4, <1>5, <1>6, <1>7, <1>8, <1>9, <1>10, <1>11, <1>12, <1>13 DEF Migrate, Upgrade

(* The start of a command. *)
LEMMA StartKeepsDone ==
    ASSUME TypeOK, DoneInv, NEW p \in Procs, StepOf(p), Start(p)
    PROVE  (RegistryOK(p) /\ MigrateOK(p) /\ StepsOK(p))'
<1> USE DEF setupVars, Goto
<1>a. \A id : Done(id) => Done(id)'
  BY EffectsStay
<1>b. /\ Whole(reg[p]) /\ \A id \in mem[p] \cup stateFile.completed : Done(id)
  BY DEF DoneInv, RegistryOK, StepsOK
<1>c. pc \in [Procs -> Labels] /\ cmd \in [Procs -> {"none", "setup", "upgrade", "serve"}]
      /\ mem \in [Procs -> SUBSET StepIds]
  BY DEF TypeOK
<1>1. ASSUME NEW b \in Builds, StartSetup(p, b) PROVE (RegistryOK(p) /\ MigrateOK(p) /\ StepsOK(p))'
  <2>1. pc'[p] = "step" /\ mem'[p] = stateFile.completed /\ UNCHANGED reg
    BY <1>1, <1>c DEF StartSetup
  <2> QED
    BY <1>a, <1>b, <2>1, NothingPending DEF SetupLabels
<1>2. ASSUME NEW b \in Builds, StartUpgrade(p, b) \/ StartServe(p, b)
      PROVE  (RegistryOK(p) /\ MigrateOK(p) /\ StepsOK(p))'
  <2>1. pc'[p] = "apply" /\ cmd'[p] # "setup" /\ UNCHANGED setupVars
    BY <1>2, <1>c DEF StartUpgrade, StartServe, Run, Open
  <2> QED
    BY <1>a, <1>b, <2>1 DEF RegistryOK, MigrateOK, StepsOK, Recorded, Whole, Full
<1> QED
  BY <1>1, <1>2 DEF Start

(* The steps of a setup. *)
LEMMA SetupKeepsDone ==
    ASSUME TypeOK, StepInv, DoneInv, NEW p \in Procs, StepOf(p), Setup(p)
    PROVE  (RegistryOK(p) /\ MigrateOK(p) /\ StepsOK(p))'
<1> USE DEF setupVars, Goto
<1>a. \A id : Done(id) => Done(id)'
  BY EffectsStay
<1>b. RegistryOK(p) /\ MigrateOK(p) /\ StepsOK(p)
  BY DEF DoneInv
<1>c. /\ pc \in [Procs -> Labels] /\ step \in [Procs -> 1..(Len(Steps) + 1)]
      /\ mem \in [Procs -> SUBSET StepIds] /\ reg \in [Procs -> Registry]
      /\ todo \in [Procs -> SUBSET Migration]
  BY DEF TypeOK
<1>d. Whole(reg[p]) /\ \A id \in mem[p] : Done(id)
  BY <1>b DEF RegistryOK, StepsOK
<1>1. ASSUME Exit(p) PROVE (RegistryOK(p) /\ MigrateOK(p) /\ StepsOK(p))'
  BY <1>1, ExitKeepsDone
<1>2. ASSUME pc'[p] \notin SetupLabels, UNCHANGED <<mem, reg>>
      PROVE  (RegistryOK(p) /\ MigrateOK(p) /\ StepsOK(p))'
  BY <1>2, <1>a, <1>d, NothingPending
<1>3. ASSUME pc'[p] \in {"save", "save_open"}, UNCHANGED setupVars, Done(Steps[step[p]])'
      PROVE  (RegistryOK(p) /\ MigrateOK(p) /\ StepsOK(p))'
  <2>1. \A id \in Recorded(p)' : Done(id)'
    BY <1>3 DEF Recorded, Done
  <2>2. StepsOK(p)'
    BY <1>3, <1>a, <1>d, <2>1 DEF StepsOK
  <2>3. RegistryOK(p)' /\ MigrateOK(p)'
    BY <1>3, <1>d DEF RegistryOK, MigrateOK, Whole, Full
  <2> QED
    BY <2>2, <2>3
<1>4. ASSUME pc'[p] \in {"registry", "registry_open"}, UNCHANGED <<mem, step>>, Full(reg'[p]),
             Steps[step[p]] \in {"write_readiness", "provision_agent_image", "configure_onecli"}
      PROVE  (RegistryOK(p) /\ MigrateOK(p) /\ StepsOK(p))'
  BY <1>4, <1>a, <1>d DEF RegistryOK, MigrateOK, StepsOK, Recorded, Whole, Full
<1>5. CASE LoadPipeline(p)
  <2>1. CASE Exit(p)
    BY <1>1, <2>1
  <2>2. CASE ~Exit(p)
    <3>1. pc'[p] = "step" /\ mem'[p] = stateFile.completed /\ reg'[p] = registry.checks
      BY <1>5, <1>c, <2>2 DEF LoadPipeline
    <3> QED
      BY <1>a, <3>1, NothingPending DEF SetupLabels, DoneInv
  <2> QED
    BY <2>1, <2>2
<1>6. CASE SkipStep(p) \/ PassGate(p) \/ StepFails(p)
  <2>1. pc'[p] \in {"step", "load", "save_error"} /\ UNCHANGED <<mem, reg>>
    BY <1>6, <1>c DEF SkipStep, PassGate, StepFails, StepPc, At
  <2> QED
    BY <1>2, <2>1 DEF SetupLabels
<1>7. CASE CreateDirectories(p)
  <2>1. pc'[p] = "save" /\ UNCHANGED setupVars /\ Steps[step[p]] = "create_directories" /\ dirs'
    BY <1>7, <1>c DEF CreateDirectories, Due, At
  <2>2. Done("create_directories")'
    BY <2>1 DEF Done
  <2> QED
    BY <1>3, <2>1, <2>2 DEF Done
<1>8. CASE WriteConfig(p)
  <2>1. pc'[p] = "save" /\ UNCHANGED setupVars /\ Steps[step[p]] = "write_config" /\ config'
    BY <1>8, <1>c DEF WriteConfig, Due, At
  <2> QED
    BY <1>3, <2>1 DEF Done
<1>9. CASE MigrateDb(p) \/ MigrateDomainDb(p)
  <2>1. /\ pc'[p] = "apply" /\ UNCHANGED <<setupVars, build>>
        /\ \/ Steps[step[p]] = "migrate_db" /\ todo'[p] = Baseline[build[p]]
           \/ Steps[step[p]] = "migrate_domain_db" /\ todo'[p] = Domain[build[p]]
    BY <1>9, <1>c DEF MigrateDb, MigrateDomainDb, Open, Due, At
  <2>2. MigrateOK(p)'
    BY <2>1 DEF MigrateOK, StepMigrations
  <2>3. RegistryOK(p)' /\ StepsOK(p)'
    BY <1>a, <1>d, <2>1 DEF RegistryOK, StepsOK, Recorded, Whole, Full
  <2> QED
    BY <2>2, <2>3
<1>10. CASE WriteReadiness(p)
  <2>1. /\ pc'[p] = "registry" /\ UNCHANGED <<mem, step>> /\ Steps[step[p]] = "write_readiness"
        /\ reg'[p] = [c \in Checks |-> "pending"]
    BY <1>10, <1>c DEF WriteReadiness, Due, At
  <2>2. Full(reg'[p])
    BY <2>1 DEF Full
  <2> QED
    BY <1>4, <2>1, <2>2
<1>11. CASE ExternalStep(p)
  <2>1. PICK c \in Checks, status \in {"pass", "pending"} :
          /\ Steps[step[p]] \in {"provision_agent_image", "configure_onecli"}
          /\ RecordReadiness(p, c, status)
          /\ UNCHANGED <<step, mem>>
    BY <1>11 DEF ExternalStep, Due, At, Checks
  <2>2. CASE reg[p][c] = "absent"
    <3>1. pc'[p] = "save" /\ UNCHANGED setupVars
      BY <1>c, <2>1, <2>2 DEF RecordReadiness
    <3> QED
      BY <1>3, <2>1, <3>1 DEF Done
  <2>3. CASE reg[p][c] # "absent"
    <3>1. pc'[p] = "registry" /\ reg' = [reg EXCEPT ![p][c] = status]
      BY <1>c, <2>1, <2>3 DEF RecordReadiness
    <3>2. Full(reg[p])
      BY <1>d, <2>3 DEF Whole
    <3>3. Full(reg'[p])
      BY <1>c, <3>1, <3>2 DEF Full, Registry
    <3> QED
      BY <1>4, <2>1, <3>1, <3>3
  <2> QED
    BY <2>2, <2>3
<1>12. CASE TruncateFile(p)
  <2>1. CASE pc[p] = "registry"
    <3>1. pc'[p] = "registry_open" /\ UNCHANGED setupVars
      BY <1>12, <1>c, <2>1 DEF TruncateFile
    <3> QED
      BY <1>4, <1>b, <2>1, <3>1 DEF RegistryOK
  <2>2. CASE pc[p] = "save"
    <3>1. pc'[p] = "save_open" /\ UNCHANGED setupVars
      BY <1>12, <1>c, <2>2 DEF TruncateFile
    <3>2. \A id : id = Steps[step[p]] => Done(id)'
      BY <1>a, <1>b, <2>2 DEF StepsOK, Recorded
    <3> QED
      BY <1>3, <3>1, <3>2 DEF Done
  <2>3. CASE pc[p] = "save_error"
    <3>1. pc'[p] = "save_error_open" /\ UNCHANGED setupVars
      BY <1>12, <1>c, <2>3 DEF TruncateFile
    <3> QED
      BY <1>2, <3>1 DEF SetupLabels
  <2> QED
    BY <1>12, <2>1, <2>2, <2>3 DEF TruncateFile
<1>13. CASE SaveRegistry(p)
  <2>1. /\ pc'[p] = "save" /\ UNCHANGED setupVars /\ registry'.checks = reg[p] /\ pc[p] = "registry_open"
    BY <1>13, <1>c DEF SaveRegistry
  <2>2. /\ Steps[step[p]] \in {"write_readiness", "provision_agent_image", "configure_onecli"}
        /\ Full(registry'.checks)
    BY <1>b, <2>1 DEF RegistryOK
  <2> QED
    BY <1>3, <2>1, <2>2 DEF Done, Full
<1>14. CASE SaveCompleted(p)
  <2>1. /\ pc'[p] \in {"step", "load"} /\ UNCHANGED reg /\ pc[p] = "save_open"
        /\ mem'[p] = mem[p] \cup {Steps[step[p]]}
    BY <1>14, <1>c DEF SaveCompleted, StepPc
  <2>2. \A id \in mem'[p] : Done(id)'
    BY <1>a, <1>b, <2>1 DEF StepsOK, Recorded
  <2> QED
    BY <1>d, <2>1, <2>2, NothingPending DEF SetupLabels
<1>15. CASE SaveError(p) \/ SetupComplete(p)
  BY <1>1, <1>15 DEF SaveError, SetupComplete
<1> QED
  BY <1>5, <1>6, <1>7, <1>8, <1>9, <1>10, <1>11, <1>12, <1>13, <1>14, <1>15 DEF Setup

(* What is saved is what the process holds, and what it has just done. *)
LEMMA SavedIsDone ==
    ASSUME TypeOK, DoneInv, NEW p \in Procs, StepOf(p)
    PROVE  \A id \in stateFile'.completed : Done(id)'
<1> USE DEF setupFiles
<1>a. \A id : Done(id) => Done(id)'
  BY EffectsStay
<1>b. /\ \A id \in stateFile.completed : Done(id)
      /\ \A id \in mem[p] : Done(id)
      /\ pc[p] = "save_open" => Done(Steps[step[p]])
  BY DEF DoneInv, StepsOK, Recorded
<1>1. \/ stateFile'.completed = stateFile.completed
      \/ stateFile'.completed = mem[p]
      \/ stateFile'.completed = mem[p] \cup {Steps[step[p]]} /\ pc[p] = "save_open"
  <2>1. CASE Setup(p)
    <3>1. CASE TruncateFile(p)
      BY <3>1 DEF TruncateFile, TypeOK
    <3>2. CASE SaveCompleted(p) \/ SaveError(p)
      BY <3>2 DEF SaveCompleted, SaveError
    <3> QED
      BY <2>1, <3>1, <3>2
         DEF Setup, LoadPipeline, SkipStep, CreateDirectories, WriteConfig, MigrateDb, MigrateDomainDb,
             WriteReadiness, ExternalStep, PassGate, StepFails, SaveRegistry, SetupComplete
  <2>2. CASE Start(p) \/ Migrate(p) \/ Upgrade(p)
    BY <2>2 DEF Start, StartSetup, StartUpgrade, StartServe, Migrate, Verify, BeginMigration,
                CommitMigration, ApplyDone, Upgrade, RecordVersions, SetSchemaVersion, Sweep, SweepDone
  <2>3. CASE (\E s \in Sessions : OpenSession(p, s)) \/ StopServe(p) \/ Crash(p)
    BY <2>3 DEF OpenSession, StopServe, Crash
  <2> QED
    BY <2>1, <2>2, <2>3 DEF StepOf
<1>2. ASSUME NEW id \in stateFile'.completed PROVE Done(id)
  BY <1>1, <1>2, <1>b
<1> QED
  BY <1>a, <1>2

LEMMA StepKeepsDone ==
    ASSUME TypeOK, StepInv, UpgradeInv, RowsMatchSchema, DoneInv, [Next]_vars
    PROVE  DoneInv'
<1>1. CASE UNCHANGED vars
  <2> USE DEF vars, disk, setupFiles, setupVars
  <2>1. \A id : Done(id) => Done(id)'
    BY <1>1 DEF Done, Full
  <2>2. ASSUME NEW p \in Procs PROVE (RegistryOK(p) /\ MigrateOK(p) /\ StepsOK(p))'
    BY <1>1, <2>1, <2>2 DEF DoneInv, RegistryOK, MigrateOK, StepMigrations, StepsOK, Recorded, Whole, Full
  <2>3. (\A id \in stateFile'.completed : Done(id)') /\ Whole(registry.checks)'
    BY <1>1, <2>1 DEF DoneInv, Whole, Full
  <2> QED
    BY <2>2, <2>3 DEF DoneInv
<1>2. CASE Next
  <2>1. PICK p \in Procs : StepOf(p)
    BY <1>2 DEF Next, StepOf
  <2>2. (RegistryOK(p) /\ MigrateOK(p) /\ StepsOK(p))'
    BY <2>1, StartKeepsDone, SetupKeepsDone, MigratingKeepsDone DEF StepOf
  <2>3. \A q \in Procs : (RegistryOK(q) /\ MigrateOK(q) /\ StepsOK(q))'
    BY <2>1, <2>2, OthersKeepDone
  <2>4. (\A id \in stateFile'.completed : Done(id)') /\ Whole(registry.checks)'
    BY <2>1, SavedIsDone, EffectsStay
  <2> QED
    BY <2>3, <2>4 DEF DoneInv
<1> QED
  BY <1>1, <1>2

(* CompletedStepsDone: a step that state.json calls completed has had its    *)
(* effect, and still has it, for any number of setups, upgrades and daemons  *)
(* of any builds beside each other and crashes in the middle of a write.     *)
THEOREM CompletedStepsDoneInvariant == Spec => []CompletedStepsDone
<1>1. Init => DoneInv
  BY InitDoneInv
<1>2. TypeOK /\ StepInv /\ UpgradeInv /\ RowsMatchSchema /\ DoneInv /\ [Next]_vars => DoneInv'
  BY StepKeepsDone
<1>3. DoneInv => CompletedStepsDone
  BY DEF DoneInv, Done, Full, CompletedStepsDone
<1> QED
  BY <1>1, <1>2, <1>3, UpgradeInvariants, RowsMatchSchemaInvariant, PTL DEF Spec
=============================================================================
