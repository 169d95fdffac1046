--------------------------- MODULE LibraryProofs ----------------------------
(***************************************************************************)
(* What is proved of the parts that stand alone: of Recovery for every set *)
(* of recovering processes, of Spawn for every set of agents and whatever  *)
(* the gateway answers, of AgentRun for every set of runs and results, of  *)
(* Observe for every source and text, of Memory for all notes, tabs and    *)
(* texts; of CycleSearch for every finite graph, and with it of Handoff    *)
(* for all groups and of Manifests for all files; and of Recurrence for    *)
(* all clocks and payloads that its assumption admits.                     *)
(***************************************************************************)
EXTENDS AgentRun, Recovery, Spawn, Observe, Memory, Handoff, Manifests, Recurrence,
        FiniteSetTheorems, SequenceTheorems, WellFoundedInduction, TLAPS

-----------------------------------------------------------------------------
(* Recovery *)

RecoverySpec == RecoveryInit /\ [][RecoveryNext]_recoveryVars

Holding == {"locked", "open"}
InContainer == {"starting", "up"}

RecoveryTypeOK ==
    /\ container \in {"down", "starting", "up", "stopping"}
    /\ status \in {"none", "alive", "stopped"}
    /\ lock \in BOOLEAN
    /\ host \in [Recoverers -> {"idle", "checked", "locked", "open"}]
    /\ starts \in Nat
    /\ seen \in [Recoverers -> Nat]

\* One process holds the lock file, and it is there while one does.
LockExcludes ==
    /\ \A h \in Recoverers : host[h] \in Holding => lock
    /\ \A g, h \in Recoverers : host[g] \in Holding /\ host[h] \in Holding => g = h

\* The status row says so from the start of a container to its end.
StatusCovers == container \in InContainer => status = "alive"

\* What a recovery saw under the lock is behind every container it meets.
SeenBehind ==
    \A h \in Recoverers : host[h] = "open" =>
      /\ seen[h] <= starts
      /\ container \in InContainer => seen[h] < starts

RecoveryInv == RecoveryTypeOK /\ LockExcludes /\ StatusCovers /\ SeenBehind

LEMMA RecoveryInvInit == RecoveryInit => RecoveryInv
PROOF
  <1> SUFFICES ASSUME RecoveryInit PROVE RecoveryInv
    OBVIOUS
  <1>1. lock \in BOOLEAN
    BY DEF RecoveryInit
  <1>2. RecoveryTypeOK
    BY <1>1 DEF RecoveryInit, RecoveryTypeOK
  <1>3. LockExcludes
    BY DEF RecoveryInit, LockExcludes, Holding
  <1>4. StatusCovers /\ SeenBehind
    BY DEF RecoveryInit, StatusCovers, SeenBehind, InContainer
  <1> QED BY <1>2, <1>3, <1>4 DEF RecoveryInv

(* A step of the container preserves it: the lock and the hosts are not its *)
(* own, and a start counts before anybody can meet it.                      *)
LEMMA ContainerKeepsRecoveryInv ==
    ASSUME RecoveryInv, start \/ Beat \/ claim \/ stop \/ RemoveHeartbeat \/ Die \/ HeartbeatAges
    PROVE  RecoveryInv'
PROOF
  <1> USE DEF RecoveryInv, RecoveryTypeOK, LockExcludes, StatusCovers, SeenBehind, InContainer
  <1>1. CASE start
    BY <1>1 DEF start, setStatus
  <1>2. CASE Beat
    BY <1>2 DEF Beat
  <1>3. CASE claim
    BY <1>3 DEF claim
  <1>4. CASE stop
    BY <1>4 DEF stop, setStatus
  <1>5. CASE RemoveHeartbeat
    BY <1>5 DEF RemoveHeartbeat
  <1>6. CASE Die
    BY <1>6 DEF Die
  <1>7. CASE HeartbeatAges
    BY <1>7 DEF HeartbeatAges
  <1> QED BY <1>1, <1>2, <1>3, <1>4, <1>5, <1>6, <1>7

(* A step of a recovery preserves it: the file is taken when nobody holds   *)
(* it and given up by the one who does, and the check under the lock finds  *)
(* no container whose status row it could have missed.                      *)
LEMMA RecovererKeepsRecoveryInv ==
    ASSUME RecoveryInv, NEW h \in Recoverers,
           Check(h) \/ acquire(h) \/ Recheck(h) \/ cleanup_stale_acks(h) \/ drop(h) \/ HostDies(h)
    PROVE  RecoveryInv'
PROOF
  <1> USE DEF RecoveryInv, RecoveryTypeOK, LockExcludes, StatusCovers, SeenBehind, InContainer, Holding,
              Becomes
  <1>1. CASE Check(h)
    BY <1>1 DEF Check
  <1>2. CASE acquire(h)
    BY <1>2 DEF acquire
  <1>3. CASE Recheck(h)
    <2>1. CASE ~Alive /\ Becomes(h, "open") /\ UNCHANGED lock /\ seen' = [seen EXCEPT ![h] = starts]
      <3>1. container \notin {"starting", "up"}
        BY <2>1 DEF Alive, container_state_alive
      <3>2. lock' \in BOOLEAN /\ lock' = lock
        BY <2>1
      <3> QED BY <1>3, <2>1, <3>1, <3>2 DEF Recheck
    <2>2. CASE Becomes(h, "idle") /\ lock' = FALSE /\ UNCHANGED seen
      BY <1>3, <2>2 DEF Recheck
    <2> QED BY <1>3, <2>1, <2>2 DEF Recheck
  <1>4. CASE cleanup_stale_acks(h)
    BY <1>4 DEF cleanup_stale_acks
  <1>5. CASE drop(h)
    BY <1>5 DEF drop
  <1>6. CASE HostDies(h)
    BY <1>6 DEF HostDies
  <1> QED BY <1>1, <1>2, <1>3, <1>4, <1>5, <1>6

(* One holder of the lock is at most one open recovery. *)
LEMMA OneHolder ==
    ASSUME LockExcludes
    PROVE  Cardinality({h \in Recoverers : host[h] = "open"}) <= 1
PROOF
  <1> DEFINE Open == {h \in Recoverers : host[h] = "open"}
  <1>1. CASE Open = {}
    BY <1>1, FS_EmptySet
  <1>2. CASE Open # {}
    <2>1. PICK h : h \in Open
      BY <1>2
    <2>2. Open = {h}
      BY <2>1 DEF LockExcludes, Holding
    <2> QED BY <2>2, FS_Singleton
  <1> QED BY <1>1, <1>2

(* At every moment at most one recovery has outbound.db open, under the lock *)
(* file, and any container it meets there started after its second check     *)
(* (open_outbound_recovery, SessionLock::acquire).                           *)
THEOREM RecoveryIsAlone == RecoverySpec => []RecoveryAlone
PROOF
  <1>1. RecoveryInv /\ [RecoveryNext]_recoveryVars => RecoveryInv'
    <2> SUFFICES ASSUME RecoveryInv, [RecoveryNext]_recoveryVars PROVE RecoveryInv'
      OBVIOUS
    <2>1. CASE RecoveryNext
      BY <2>1, ContainerKeepsRecoveryInv, RecovererKeepsRecoveryInv DEF RecoveryNext
    <2>2. CASE UNCHANGED recoveryVars
      BY <2>2 DEF recoveryVars, RecoveryInv, RecoveryTypeOK, LockExcludes, StatusCovers, SeenBehind
    <2> QED BY <2>1, <2>2
  <1>2. RecoveryInv => RecoveryAlone
    BY OneHolder DEF RecoveryInv, RecoveryTypeOK, LockExcludes, SeenBehind, RecoveryAlone, Holding, InContainer
  <1> QED BY <1>1, <1>2, RecoveryInvInit, PTL DEF RecoverySpec
-----------------------------------------------------------------------------
(* Spawn *)

SpawnSpecification == SpawnInit /\ [][SpawnNext]_spawnVars

SpawnTypeOK ==
    /\ ca_cert \in BOOLEAN /\ injection_ok_marker \in BOOLEAN
    /\ spawning = [a \in SpawnAgents |-> spawning[a]]
    /\ containers = [a \in SpawnAgents |-> containers[a]]

\* A process that found everything ready is right about it for good.
ReadyHolds ==
    \A config \in serving :
      /\ config.extra_env \in {NoEnv, Menu}
      /\ config.auth_mode \in {"stub", "claude_oauth"}
      /\ is_ready(config.onecli) => Provisioned

\* A spawn under way is as the container will be; only a credentialed one
\* waits for the gateway.
SpawningScoped ==
    \A a \in SpawnAgents :
      /\ spawning[a].pc \in {"fetch", "spawn", "held"} =>
           ScopedSpec(a, spawning[a].spec)
      /\ spawning[a].pc = "fetch" => Credentialed(spawning[a].spec.mode)

ContainersScoped == \A a \in SpawnAgents : \A spec \in containers[a] : ScopedSpec(a, spec)

ProxyScoped == \A p \in proxy : p.userinfo = Installation

SpawnInv == SpawnTypeOK /\ ReadyHolds /\ SpawningScoped /\ ContainersScoped /\ ProxyScoped

(* The invariant survives any step that keeps the process, its spawns and   *)
(* its containers and takes neither file away.                              *)
LEMMA FilesOnlyAppear ==
    ASSUME SpawnInv, UNCHANGED <<serving, proxy, spawning, containers>>,
           ca_cert' \in BOOLEAN, injection_ok_marker' \in BOOLEAN, Provisioned => Provisioned'
    PROVE  SpawnInv'
PROOF
  <1>1. ASSUME NEW a, NEW spec, ScopedSpec(a, spec) PROVE ScopedSpec(a, spec)'
    BY <1>1 DEF ScopedSpec, ScopedEnv, ScopedMounts, OwnKeys, extra_volumes, Menu, TurnConfig, SpawnAgents,
                Specialists
  <1>2. SpawnTypeOK' /\ ReadyHolds' /\ ProxyScoped'
    BY DEF SpawnInv, SpawnTypeOK, ReadyHolds, ProxyScoped
  <1>3. SpawningScoped' /\ ContainersScoped'
    BY <1>1 DEF SpawnInv, SpawningScoped, ContainersScoped
  <1> QED BY <1>2, <1>3 DEF SpawnInv

(* A certificate that is written leaves the file there. *)
LEMMA CaOnlyAppears ==
    ASSUME SpawnInv, NEW config, write_ca(config), UNCHANGED injection_ok_marker
    PROVE  ca_cert' \in BOOLEAN /\ injection_ok_marker' \in BOOLEAN /\ (Provisioned => Provisioned')
  BY DEF SpawnInv, SpawnTypeOK, write_ca, Provisioned

(* The variables of a credentialed environment. *)
LEMMA PlaceholderEnv ==
    ASSUME NEW mode, NEW env,
           env = [ASSISTANT_RUNNER_MODE |-> mode, ANTHROPIC_API_KEY |-> "placeholder",
                  CLAUDE_CODE_OAUTH_TOKEN |-> ""]
    PROVE  /\ DOMAIN env = {"ASSISTANT_RUNNER_MODE", "ANTHROPIC_API_KEY", "CLAUDE_CODE_OAUTH_TOKEN"}
           /\ env["ANTHROPIC_API_KEY"] = "placeholder"
  OBVIOUS

(* What prepare_spawn lets through is scoped: nothing of the gateway is in  *)
(* it yet, and a credentialed environment exists only for a ready process.  *)
LEMMA PreparedScoped ==
    ASSUME SpawnInv, NEW a \in SpawnAgents, NEW config \in serving,
           NEW spec \in prepare_spawn(Mounts(a), AllowedRoots(a), AuthMode(config, a), config.onecli)
    PROVE  ScopedSpec(a, spec)
PROOF
  <1>1. /\ validate_mounts(Mounts(a), AllowedRoots(a))
        /\ spec.mode = AuthMode(config, a) /\ spec.mounts = Mounts(a)
        /\ spec.env \in prepare_runner_env(AuthMode(config, a), config.onecli)
    BY DEF prepare_spawn
  <1>2. ScopedMounts(a, spec)
    BY <1>1 DEF ScopedMounts, validate_mounts, prepare_spawn
  <1>3. AuthMode(config, a) \in {"stub", "claude_oauth", "specialist"}
    BY DEF SpawnInv, ReadyHolds, AuthMode
  <1>4. CASE Credentialed(spec.mode)
    <2>1. is_ready(config.onecli)
      BY <1>1, <1>4 DEF prepare_runner_env
    <2>2. spec.env = [ASSISTANT_RUNNER_MODE |-> spec.mode, ANTHROPIC_API_KEY |-> "placeholder",
                      CLAUDE_CODE_OAUTH_TOKEN |-> ""]
      BY <1>1, <1>4, <2>1 DEF prepare_runner_env
    <2>3. /\ DOMAIN spec.env = {"ASSISTANT_RUNNER_MODE", "ANTHROPIC_API_KEY", "CLAUDE_CODE_OAUTH_TOKEN"}
          /\ spec.env["ANTHROPIC_API_KEY"] = "placeholder"
      BY <2>2, PlaceholderEnv
    <2> QED BY <1>2, <1>4, <2>1, <2>3 DEF ScopedSpec, ScopedEnv, SpawnInv, ReadyHolds
  <1>5. CASE ~Credentialed(spec.mode)
    <2>1. spec.mode = "stub"
      BY <1>1, <1>3, <1>5 DEF Credentialed
    <2>2. spec.env = [ASSISTANT_RUNNER_MODE |-> "stub"]
      BY <1>1, <1>5, <2>1 DEF prepare_runner_env
    <2>3. DOMAIN spec.env = {"ASSISTANT_RUNNER_MODE"}
      BY <2>2
    <2> QED BY <1>2, <1>5, <2>3 DEF ScopedSpec, ScopedEnv
  <1> QED BY <1>4, <1>5

(* A later environment holds where it says something. *)
LEMMA ExtendedEnv ==
    ASSUME NEW env, NEW more
    PROVE  /\ DOMAIN extend(env, more) = DOMAIN env \union DOMAIN more
           /\ \A key \in DOMAIN extend(env, more) :
                extend(env, more)[key] = IF key \in DOMAIN more THEN more[key] ELSE env[key]
  BY DEF extend

(* What the gateway answers for an agent adds that agent's token only, and  *)
(* the certificate as the one mount behind the validation.                  *)
LEMMA AppliedScoped ==
    ASSUME NEW a \in SpawnAgents, NEW spec, NEW config, ScopedSpec(a, spec), Credentialed(spec.mode)
    PROVE  /\ ScopedSpec(a, apply_to_spec(spec, config, a))
           /\ apply_to_spec(spec, config, a).mode = spec.mode
PROOF
  <1> DEFINE new == apply_to_spec(spec, config, a)
             more == ProxyEnv(config, a)
  <1>1. /\ new.mode = spec.mode /\ new.volumes = spec.volumes
        /\ new.env = extend(spec.env, more)
        /\ new.mounts = spec.mounts \union (IF CarriesCa(config) THEN {CaMount} ELSE {})
    BY DEF apply_to_spec
  <1>2. \A key \in DOMAIN more : more[key] = IF key = "ANTHROPIC_API_KEY" THEN "placeholder" ELSE a
    BY DEF ProxyEnv
  <1>3. ScopedMounts(a, new)
    BY <1>1 DEF ScopedSpec, ScopedMounts
  <1> HIDE DEF more
  <1>4. ScopedEnv(a, new)
    <2> DEFINE env == extend(spec.env, more)
    <2>1. /\ DOMAIN env = DOMAIN spec.env \union DOMAIN more
          /\ \A key \in DOMAIN env : env[key] = IF key \in DOMAIN more THEN more[key] ELSE spec.env[key]
      BY ExtendedEnv
    <2>2. new.env = env
      BY <1>1
    <2> HIDE DEF new, env
    <2> QED BY <1>1, <1>2, <2>1, <2>2 DEF ScopedSpec, ScopedEnv
  <1> QED BY <1>1, <1>3, <1>4 DEF ScopedSpec

(* What every container gets last sets only what the agent's own           *)
(* specification sets, and the name of the workspace.                       *)
LEMMA EquippedScoped ==
    ASSUME SpawnInv, NEW a \in SpawnAgents, NEW process \in serving, NEW spec, ScopedSpec(a, spec)
    PROVE  ScopedSpec(a, equip(spec, process, a))
PROOF
  <1> DEFINE new == equip(spec, process, a)
             own == extra_env(process, a)
             workspace == [WORKSPACE |-> "/workspace"]
  <1>1. /\ new.mode = spec.mode /\ new.mounts = spec.mounts
        /\ new.volumes = spec.volumes \union extra_volumes(a)
        /\ new.env = extend(extend(spec.env, own), workspace)
    BY DEF equip
  <1>2. DOMAIN own \subseteq OwnKeys(a)
    <2>1. CASE a \in Specialists
      BY <2>1, ExtendedEnv DEF extra_env, OwnKeys
    <2>2. CASE a \notin Specialists
      <3>1. own \in {NoEnv, Menu}
        BY <2>2 DEF extra_env, SpawnInv, ReadyHolds
      <3>2. DOMAIN NoEnv = {}
        BY DEF NoEnv
      <3> QED BY <2>2, <3>1, <3>2 DEF OwnKeys
    <2> QED BY <2>1, <2>2
  <1>3. DOMAIN workspace = {"WORKSPACE"}
    OBVIOUS
  <1> HIDE DEF own, workspace
  <1>4. ScopedMounts(a, new)
    BY <1>1 DEF ScopedSpec, ScopedMounts
  <1>5. ScopedEnv(a, new)
    <2> DEFINE env == extend(spec.env, own)
    <2>1. /\ DOMAIN env = DOMAIN spec.env \union DOMAIN own
          /\ \A key \in DOMAIN env : env[key] = IF key \in DOMAIN own THEN own[key] ELSE spec.env[key]
      BY ExtendedEnv
    <2> HIDE DEF env
    <2>2. /\ DOMAIN extend(env, workspace) = DOMAIN env \union {"WORKSPACE"}
          /\ \A key \in DOMAIN env \ {"WORKSPACE"} : extend(env, workspace)[key] = env[key]
      BY <1>3, ExtendedEnv
    <2>3. new.env = extend(env, workspace)
      BY <1>1 DEF env
    <2> HIDE DEF new
    <2>4. /\ DOMAIN new.env = (DOMAIN spec.env \union DOMAIN own) \union {"WORKSPACE"}
          /\ \A key \in DOMAIN spec.env \ (OwnKeys(a) \union {"WORKSPACE"}) : new.env[key] = spec.env[key]
      BY <1>2, <2>1, <2>2, <2>3
    <2> QED BY <1>1, <1>2, <2>4 DEF ScopedSpec, ScopedEnv
  <1> QED BY <1>1, <1>4, <1>5 DEF ScopedSpec

(* A step of one agent's spawn preserves the invariant when what it leaves  *)
(* under way, and in the container, is scoped.                              *)
LEMMA OneSpawnMoves ==
    ASSUME SpawnInv, NEW a \in SpawnAgents, NEW s, NEW c,
           spawning' = [spawning EXCEPT ![a] = s], containers' = [containers EXCEPT ![a] = c],
           serving' = serving, proxy' = proxy,
           ca_cert' \in BOOLEAN, injection_ok_marker' \in BOOLEAN, Provisioned => Provisioned',
           s.pc \in {"fetch", "spawn", "held"} => ScopedSpec(a, s.spec),
           s.pc = "fetch" => Credentialed(s.spec.mode),
           \A spec \in c : ScopedSpec(a, spec)
    PROVE  SpawnInv'
PROOF
  <1>1. ASSUME NEW b, NEW spec, ScopedSpec(b, spec) PROVE ScopedSpec(b, spec)'
    BY <1>1 DEF ScopedSpec, ScopedEnv, ScopedMounts, OwnKeys, extra_volumes, Menu, TurnConfig, SpawnAgents,
                Specialists
  <1>2. /\ DOMAIN spawning = SpawnAgents /\ DOMAIN containers = SpawnAgents
        /\ \A b \in SpawnAgents : spawning'[b] = IF b = a THEN s ELSE spawning[b]
        /\ \A b \in SpawnAgents : containers'[b] = IF b = a THEN c ELSE containers[b]
    BY DEF SpawnInv, SpawnTypeOK
  <1>3. SpawnTypeOK' /\ ReadyHolds' /\ ProxyScoped'
    BY <1>2 DEF SpawnInv, SpawnTypeOK, ReadyHolds, ProxyScoped
  <1>4. SpawningScoped'
    <2> SUFFICES ASSUME NEW b \in SpawnAgents
                 PROVE  (/\ spawning[b].pc \in {"fetch", "spawn", "held"} =>
                              ScopedSpec(b, spawning[b].spec)
                         /\ spawning[b].pc = "fetch" => Credentialed(spawning[b].spec.mode))'
      BY DEF SpawningScoped
    <2>1. CASE b = a
      BY <1>1, <1>2, <2>1 DEF Credentialed
    <2>2. CASE b # a
      BY <1>1, <1>2, <2>2 DEF SpawnInv, SpawningScoped, Credentialed
    <2> QED BY <2>1, <2>2
  <1>5. ContainersScoped'
    <2> SUFFICES ASSUME NEW b \in SpawnAgents, NEW spec \in containers'[b] PROVE ScopedSpec(b, spec)'
      BY DEF ContainersScoped
    <2> QED BY <1>1, <1>2 DEF SpawnInv, ContainersScoped
  <1> QED BY <1>3, <1>4, <1>5 DEF SpawnInv

(* Setup and the gates of tasks only add files. *)
LEMMA FilesKeepSpawnInv ==
    ASSUME SpawnInv, \/ \E url \in BOOLEAN : Provision(url)
                     \/ persist_provisioned \/ SetupDies
                     \/ \E a \in SpawnAgents : run_gate_in_container(a)
    PROVE  SpawnInv'
PROOF
  <1>1. CASE \E url \in BOOLEAN : Provision(url)
    BY <1>1, CaOnlyAppears, FilesOnlyAppear DEF Provision
  <1>2. CASE persist_provisioned
    <2>1. injection_ok_marker' \in BOOLEAN /\ ca_cert' \in BOOLEAN /\ (Provisioned => Provisioned')
      BY <1>2 DEF persist_provisioned, SpawnInv, SpawnTypeOK, Provisioned
    <2> QED BY <1>2, <2>1, FilesOnlyAppear DEF persist_provisioned
  <1>3. CASE SetupDies
    <2>1. injection_ok_marker' \in BOOLEAN /\ ca_cert' \in BOOLEAN /\ (Provisioned => Provisioned')
      BY <1>3 DEF SetupDies, SpawnInv, SpawnTypeOK, Provisioned
    <2> QED BY <1>3, <2>1, FilesOnlyAppear DEF SetupDies
  <1>4. CASE \E a \in SpawnAgents : run_gate_in_container(a)
    BY <1>4, CaOnlyAppears, FilesOnlyAppear DEF run_gate_in_container
  <1> QED BY <1>1, <1>2, <1>3, <1>4

(* A process that starts relies on what it probes, and its own calls carry  *)
(* the installation's token.                                                *)
LEMMA ServeKeepsSpawnInv ==
    ASSUME SpawnInv, NEW mode \in {"stub", "claude_oauth"}, NEW url \in BOOLEAN, NEW secret \in BOOLEAN,
           run_inner(mode, url, secret) \/ serve_slack(mode, url, secret)
    PROVE  SpawnInv'
PROOF
  <1>1. /\ UNCHANGED <<ca_cert, injection_ok_marker, spawning, containers>>
        /\ \E own \in {NoEnv, Menu} :
             serving' = {[auth_mode |-> mode, onecli |-> probe(url, secret), url |-> url, extra_env |-> own]}
    BY DEF run_inner, serve_slack, Serve
  <1>2. ReadyHolds'
    <2>1. is_ready(probe(url, secret)) => Provisioned
      BY DEF is_ready, probe, Provisioned
    <2> QED BY <1>1, <2>1 DEF ReadyHolds, Provisioned
  <1>3. ProxyScoped'
    <2>1. CASE run_inner(mode, url, secret)
      BY <2>1 DEF run_inner, SpawnInv, ProxyScoped
    <2>2. CASE serve_slack(mode, url, secret)
      BY <2>2 DEF serve_slack, ProxyScoped, host_proxy_url, splice_proxy_userinfo
    <2> QED BY <2>1, <2>2
  <1>4. SpawnTypeOK'
    BY <1>1 DEF SpawnInv, SpawnTypeOK
  <1>5. SpawningScoped' /\ ContainersScoped'
    BY <1>1 DEF SpawnInv, SpawningScoped, ContainersScoped, ScopedSpec, ScopedEnv, ScopedMounts, Provisioned,
                OwnKeys, extra_volumes, Menu, TurnConfig, SpawnAgents, Specialists
  <1> QED BY <1>2, <1>3, <1>4, <1>5 DEF SpawnInv

(* The end of a process or of a container leaves less to be scoped. *)
LEMMA EndsKeepSpawnInv ==
    ASSUME SpawnInv, ProcessEnds \/ \E a \in SpawnAgents : ContainerEnds(a)
    PROVE  SpawnInv'
PROOF
  <1>1. CASE ProcessEnds
    <2>1. SpawnTypeOK' /\ ReadyHolds' /\ ProxyScoped'
      BY <1>1 DEF ProcessEnds, SpawnInv, SpawnTypeOK, ReadyHolds, ProxyScoped
    <2>2. SpawningScoped'
      BY <1>1 DEF ProcessEnds, SpawningScoped, NoSpawn
    <2>3. ContainersScoped'
      BY <1>1 DEF ProcessEnds, SpawnInv, ContainersScoped, ScopedSpec, ScopedEnv, ScopedMounts, Provisioned,
                  OwnKeys, extra_volumes, Menu, TurnConfig, SpawnAgents, Specialists
    <2> QED BY <2>1, <2>2, <2>3 DEF SpawnInv
  <1>2. CASE \E a \in SpawnAgents : ContainerEnds(a)
    <2>1. PICK a \in SpawnAgents : ContainerEnds(a)
      BY <1>2
    <2>2. /\ UNCHANGED <<ca_cert, injection_ok_marker, serving, proxy>>
          /\ containers' = [containers EXCEPT ![a] = {}]
          /\ \/ spawning' = [spawning EXCEPT ![a] = spawning[a]]
             \/ spawning' = [spawning EXCEPT ![a] = NoSpawn]
      BY <2>1 DEF ContainerEnds, SpawnInv, SpawnTypeOK
    <2>3. ca_cert' \in BOOLEAN /\ injection_ok_marker' \in BOOLEAN /\ (Provisioned => Provisioned')
      BY <2>2 DEF SpawnInv, SpawnTypeOK, Provisioned
    <2> DEFINE none == {}
    <2>c. containers' = [containers EXCEPT ![a] = none] /\ \A spec \in none : ScopedSpec(a, spec)
      BY <2>2
    <2> HIDE DEF none
    <2>4. CASE spawning' = [spawning EXCEPT ![a] = spawning[a]]
      <3>1. /\ spawning[a].pc \in {"fetch", "spawn", "held"} =>
                 ScopedSpec(a, spawning[a].spec)
            /\ spawning[a].pc = "fetch" => Credentialed(spawning[a].spec.mode)
        BY DEF SpawnInv, SpawningScoped
      <3> QED BY <2>2, <2>c, <2>3, <2>4, <3>1, OneSpawnMoves
    <2>5. CASE spawning' = [spawning EXCEPT ![a] = NoSpawn]
      <3>1. NoSpawn.pc \notin {"fetch", "spawn", "held"}
        BY DEF NoSpawn
      <3>3. NoSpawn.pc # "fetch"
        BY <3>1
      <3> QED BY <2>2, <2>c, <2>3, <2>5, <3>1, <3>3, OneSpawnMoves
    <2> QED BY <2>2, <2>4, <2>5
  <1> QED BY <1>1, <1>2

(* A spawn is prepared, equipped by the gateway, started or given up. *)
LEMMA SpawnStepsKeepSpawnInv ==
    ASSUME SpawnInv, NEW a \in SpawnAgents,
           Prepare(a) \/ apply_gateway_config(a) \/ SpawnFails(a) \/ spawn(a)
    PROVE  SpawnInv'
PROOF
  <1>1. /\ containers = [containers EXCEPT ![a] = containers[a]]
        /\ \A spec \in containers[a] : ScopedSpec(a, spec)
        /\ UNCHANGED <<ca_cert, injection_ok_marker>> =>
             ca_cert' \in BOOLEAN /\ injection_ok_marker' \in BOOLEAN /\ (Provisioned => Provisioned')
    BY DEF SpawnInv, SpawnTypeOK, ContainersScoped, Provisioned
  <1>2. CASE Prepare(a)
    <2>1. PICK config \in serving :
          \E spec \in prepare_spawn(Mounts(a), AllowedRoots(a), AuthMode(config, a), config.onecli) :
            At(a, IF Credentialed(spec.mode) THEN "fetch" ELSE "spawn", spec)
      BY <1>2 DEF Prepare
    <2>2. PICK spec \in prepare_spawn(Mounts(a), AllowedRoots(a), AuthMode(config, a), config.onecli) :
            At(a, IF Credentialed(spec.mode) THEN "fetch" ELSE "spawn", spec)
      BY <2>1
    <2>3. ScopedSpec(a, spec)
      BY PreparedScoped
    <2> DEFINE s == [pc |-> IF Credentialed(spec.mode) THEN "fetch" ELSE "spawn", spec |-> spec]
    <2>5. /\ spawning' = [spawning EXCEPT ![a] = s]
          /\ s.spec = spec /\ (s.pc = "fetch" => Credentialed(spec.mode))
      BY <2>2 DEF At
    <2>6. UNCHANGED <<serving, proxy, containers, ca_cert, injection_ok_marker>>
      BY <1>2 DEF Prepare
    <2>7. containers' = [containers EXCEPT ![a] = containers[a]]
      BY <1>1, <2>6
    <2> HIDE DEF s
    <2> QED BY <1>1, <2>3, <2>5, <2>6, <2>7, OneSpawnMoves
  <1>3. CASE apply_gateway_config(a)
    <2>1. PICK process \in serving : \E config \in fetch_container_config(process.url, a) :
            /\ write_ca(config)
            /\ At(a, "spawn", apply_to_spec(spawning[a].spec, config, a))
      BY <1>3 DEF apply_gateway_config
    <2>2. PICK config \in fetch_container_config(process.url, a) :
            /\ write_ca(config)
            /\ At(a, "spawn", apply_to_spec(spawning[a].spec, config, a))
      BY <2>1
    <2>3. /\ ScopedSpec(a, spawning[a].spec)
          /\ Credentialed(spawning[a].spec.mode)
      BY <1>3 DEF apply_gateway_config, SpawnInv, SpawningScoped
    <2> DEFINE spec == apply_to_spec(spawning[a].spec, config, a)
               s == [pc |-> "spawn", spec |-> spec]
    <2>4. ScopedSpec(a, spec)
      BY <2>3, AppliedScoped
    <2>6. spawning' = [spawning EXCEPT ![a] = s] /\ s.spec = spec /\ s.pc # "fetch"
      BY <2>2 DEF At
    <2>7. UNCHANGED <<serving, proxy, containers, injection_ok_marker>>
      BY <1>3 DEF apply_gateway_config
    <2>8. ca_cert' \in BOOLEAN /\ injection_ok_marker' \in BOOLEAN /\ (Provisioned => Provisioned')
      BY <2>2, <2>7, CaOnlyAppears
    <2>9. containers' = [containers EXCEPT ![a] = containers[a]]
      BY <1>1, <2>7
    <2> HIDE DEF s, spec
    <2> QED BY <1>1, <2>9, <2>4, <2>6, <2>7, <2>8, OneSpawnMoves
  <1>4. CASE SpawnFails(a)
    <2>1. NoSpawn.pc \notin {"fetch", "spawn", "held"}
      BY DEF NoSpawn
    <2>2. NoSpawn.pc # "fetch"
      BY <2>1
    <2>3. /\ spawning' = [spawning EXCEPT ![a] = NoSpawn] /\ containers' = [containers EXCEPT ![a] = containers[a]]
          /\ UNCHANGED <<serving, proxy, ca_cert, injection_ok_marker>>
      BY <1>1, <1>4 DEF SpawnFails
    <2> QED BY <1>1, <2>1, <2>2, <2>3, OneSpawnMoves
  <1>5. CASE spawn(a)
    <2>1. PICK process \in serving :
            /\ containers' = [containers EXCEPT ![a] = {equip(spawning[a].spec, process, a)}]
            /\ At(a, "held", equip(spawning[a].spec, process, a))
      BY <1>5 DEF spawn
    <2> DEFINE spec == equip(spawning[a].spec, process, a)
               s == [pc |-> "held", spec |-> spec]
               c == {spec}
    <2>2. ScopedSpec(a, spawning[a].spec)
      BY <1>5 DEF spawn, SpawnInv, SpawningScoped
    <2>3. ScopedSpec(a, spec)
      BY <2>2, EquippedScoped
    <2>4. /\ spawning' = [spawning EXCEPT ![a] = s] /\ containers' = [containers EXCEPT ![a] = c]
          /\ s.spec = spec /\ s.pc # "fetch"
      BY <2>1 DEF At
    <2>5. UNCHANGED <<serving, proxy, ca_cert, injection_ok_marker>>
      BY <1>5 DEF spawn
    <2>6. \A one \in c : ScopedSpec(a, one)
      BY <2>3
    <2> HIDE DEF s, c, spec
    <2> QED BY <1>1, <2>3, <2>4, <2>5, <2>6, OneSpawnMoves
  <1> QED BY <1>2, <1>3, <1>4, <1>5

(* Whatever the gateway answers and however long ago the process probed its *)
(* installation, credentialed containers run only where marker and          *)
(* certificate are on disk, with their own agent's token; stubs run without *)
(* any credential of the gateway; the certificate is the only bind mount of *)
(* a blocked kind.  Excepted is what the agent's own specification sets,    *)
(* which is appended to every container unvalidated (prepare_spawn,         *)
(* apply_gateway_config, ensure_spawned).                                   *)
THEOREM SpawnsAreScoped == SpawnSpecification => []ScopedSpawns
PROOF
  <1>1. SpawnInit => SpawnInv
    <2> SUFFICES ASSUME SpawnInit PROVE SpawnInv
      OBVIOUS
    <2>1. ca_cert \in BOOLEAN /\ injection_ok_marker \in BOOLEAN
      BY DEF SpawnInit
    <2>2. SpawnTypeOK /\ ReadyHolds /\ ContainersScoped /\ ProxyScoped
      BY <2>1 DEF SpawnInit, SpawnTypeOK, ReadyHolds, ContainersScoped, ProxyScoped
    <2>3. SpawningScoped
      BY DEF SpawnInit, SpawningScoped, NoSpawn
    <2> QED BY <2>2, <2>3 DEF SpawnInv
  <1>2. SpawnInv /\ [SpawnNext]_spawnVars => SpawnInv'
    <2> SUFFICES ASSUME SpawnInv, [SpawnNext]_spawnVars PROVE SpawnInv'
      OBVIOUS
    <2>1. CASE SpawnNext
      BY <2>1, FilesKeepSpawnInv, ServeKeepsSpawnInv, EndsKeepSpawnInv, SpawnStepsKeepSpawnInv DEF SpawnNext
    <2>2. CASE UNCHANGED spawnVars
      <3>1. ca_cert' \in BOOLEAN /\ injection_ok_marker' \in BOOLEAN /\ (Provisioned => Provisioned')
        BY <2>2 DEF spawnVars, SpawnInv, SpawnTypeOK, Provisioned
      <3> QED BY <2>2, <3>1, FilesOnlyAppear DEF spawnVars
    <2> QED BY <2>1, <2>2
  <1>3. SpawnInv => ScopedSpawns
    BY DEF SpawnInv, ContainersScoped, ProxyScoped, ScopedSpawns
  <1> QED BY <1>1, <1>2, <1>3, PTL DEF SpawnSpecification
-----------------------------------------------------------------------------
(* AgentRun *)

AgentSpec == AgentInit /\ [][AgentNext]_agentVars

Deliveries == OutboundAction \union {"fallback"}

AgentTypeOK ==
    /\ running = Nothing \/ running \in [run : Runs, result : Results, left : Seq(Deliveries)]
    /\ sent \in Seq([run : {Key(ctx) : ctx \in Runs}, result : Results, what : Deliveries])

\* A final text that is still to be emitted comes last, is in the ledger, was
\* decided for this run and was not emitted before.
FallbackDue ==
    running # Nothing =>
      \A i \in DOMAIN running.left : running.left[i] = "fallback" =>
        /\ i = Len(running.left)
        /\ Key(running.run) \in ledger
        /\ decide_fallback(running.run, running.result)
        /\ \A j \in DOMAIN sent : sent[j].what = "fallback" => sent[j].run # Key(running.run)

\* What was emitted stays in the ledger.
SentInLedger == \A i \in DOMAIN sent : sent[i].what = "fallback" => sent[i].run \in ledger

AgentInv == AgentTypeOK /\ FallbackDue /\ SentInLedger /\ FinalTextOnce

(* A run begins: its final text is decided only for a pair that is not in   *)
(* the ledger, hence was never emitted, and the pair is recorded with it.   *)
LEMMA RunOnceKeepsAgentInv ==
    ASSUME AgentInv, NEW ctx \in Runs, NEW result \in Results, run_once(ctx, result)
    PROVE  AgentInv'
PROOF
  <1> DEFINE deliver == Key(ctx) \notin ledger /\ decide_fallback(ctx, result)
             left == result.actions \o (IF deliver THEN <<"fallback">> ELSE <<>>)
  <1>1. /\ ledger' = IF deliver THEN ledger \union {Key(ctx)} ELSE ledger
        /\ running' = [run |-> ctx, result |-> result, left |-> left]
        /\ sent' = sent
    BY DEF run_once, process_run, decide
  <1>2. result.actions \in Seq(OutboundAction)
    BY ResultsAssumption DEF RunResult
  <1>3. "fallback" \notin OutboundAction
    BY DEF OutboundAction
  <1>4. /\ left \in Seq(Deliveries)
        /\ \A i \in DOMAIN left : left[i] = "fallback" => deliver /\ i = Len(left)
    <2>1. CASE deliver
      <3>1. left = Append(result.actions, "fallback")
        BY <1>2, <2>1
      <3> HIDE DEF left, deliver
      <3> QED BY <1>2, <1>3, <2>1, <3>1 DEF Deliveries
    <2>2. CASE ~deliver
      <3>1. left = result.actions
        <4>1. left = result.actions \o <<>>
          BY <2>2
        <4> QED BY <1>2, <4>1, ConcatEmptySeq
      <3> HIDE DEF left, deliver
      <3> QED BY <1>2, <1>3, <3>1 DEF Deliveries
    <2> QED BY <2>1, <2>2
  <1> HIDE DEF left
  <1>5. AgentTypeOK'
    BY <1>1, <1>4 DEF AgentInv, AgentTypeOK
  <1>6. FallbackDue'
    BY <1>1, <1>4 DEF AgentInv, SentInLedger, FallbackDue
  <1>7. SentInLedger' /\ FinalTextOnce'
    BY <1>1 DEF AgentInv, SentInLedger, FinalTextOnce
  <1> QED BY <1>5, <1>6, <1>7 DEF AgentInv

(* A delivery: what is emitted is the head of what is left, so a final text  *)
(* is the whole of it, and no other is left behind.                          *)
LEMMA EmitKeepsAgentInv ==
    ASSUME AgentInv, emit
    PROVE  AgentInv'
PROOF
  <1> DEFINE row == [run |-> Key(running.run), result |-> running.result, what |-> Head(running.left)]
  <1>1. running \in [run : Runs, result : Results, left : Seq(Deliveries)] /\ running.left # <<>>
    BY DEF AgentInv, AgentTypeOK, emit
  <1>2. /\ row \in [run : {Key(ctx) : ctx \in Runs}, result : Results, what : Deliveries]
        /\ row.run = Key(running.run) /\ row.result = running.result /\ row.what = running.left[1]
    BY <1>1
  <1>3. /\ sent' = Append(sent, row) /\ ledger' = ledger
        /\ running' = [running EXCEPT !.left = Tail(running.left)]
    BY DEF emit
  <1> HIDE DEF row
  <1>4. /\ running' \in [run : Runs, result : Results, left : Seq(Deliveries)]
        /\ running'.run = running.run /\ running'.result = running.result
        /\ running'.left = Tail(running.left)
    <2>1. Tail(running.left) \in Seq(Deliveries)
      BY <1>1, HeadTailProperties
    <2> QED BY <1>1, <1>3, <2>1
  <1>5. /\ sent' \in Seq([run : {Key(ctx) : ctx \in Runs}, result : Results, what : Deliveries])
        /\ DOMAIN sent' = 1..(Len(sent) + 1) /\ DOMAIN sent = 1..Len(sent) /\ Len(sent) \in Nat
        /\ \A i \in DOMAIN sent : sent'[i] = sent[i]
        /\ sent'[Len(sent) + 1] = row
    BY <1>2, <1>3 DEF AgentInv, AgentTypeOK
  <1>6. AgentTypeOK'
    BY <1>4, <1>5 DEF AgentTypeOK
  <1>7. \A i \in DOMAIN Tail(running.left) :
           /\ i + 1 \in DOMAIN running.left /\ Tail(running.left)[i] = running.left[i + 1]
           /\ Len(running.left) = Len(Tail(running.left)) + 1 /\ Len(running.left) # 1
    BY <1>1
  <1>8. running # Nothing
    BY DEF emit
  <1>9. FallbackDue'
    <2> SUFFICES ASSUME NEW i \in DOMAIN Tail(running.left), Tail(running.left)[i] = "fallback"
                 PROVE  /\ i = Len(Tail(running.left))
                        /\ Key(running.run) \in ledger
                        /\ decide_fallback(running.run, running.result)
                        /\ \A j \in DOMAIN sent' : sent'[j].what = "fallback" => sent'[j].run # Key(running.run)
      BY <1>3, <1>4 DEF FallbackDue
    <2>1. /\ i + 1 = Len(running.left)
          /\ Key(running.run) \in ledger
          /\ decide_fallback(running.run, running.result)
          /\ \A j \in DOMAIN sent : sent[j].what = "fallback" => sent[j].run # Key(running.run)
      BY <1>7, <1>8 DEF AgentInv, FallbackDue
    <2>2. row.what # "fallback"
      <3>1. 1 \in DOMAIN running.left
        BY <1>1
      <3> QED BY <1>2, <1>7, <1>8, <3>1 DEF AgentInv, FallbackDue
    <2>3. \A j \in DOMAIN sent' : sent'[j].what = "fallback" => sent'[j].run # Key(running.run)
      BY <1>5, <2>1, <2>2
    <2>4. i = Len(Tail(running.left))
      <3>1. Tail(running.left) \in Seq(Deliveries) /\ Len(Tail(running.left)) = Len(running.left) - 1
        BY <1>1, HeadTailProperties
      <3> QED BY <1>1, <2>1, <3>1
    <2> QED BY <2>1, <2>3, <2>4
  <1>10. row.what = "fallback" =>
           /\ row.run \in ledger
           /\ decide_fallback(running.run, row.result)
           /\ \A j \in DOMAIN sent : sent[j].what = "fallback" => sent[j].run # row.run
    <2>1. 1 \in DOMAIN running.left
      BY <1>1
    <2> QED BY <1>2, <1>8, <2>1 DEF AgentInv, FallbackDue
  <1>11. SentInLedger'
    BY <1>3, <1>5, <1>10 DEF AgentInv, SentInLedger
  <1>12. FinalTextOnce'
    <2> SUFFICES ASSUME NEW i \in DOMAIN sent', sent'[i].what = "fallback"
                 PROVE  /\ \A j \in DOMAIN sent' :
                             sent'[j].what = "fallback" /\ sent'[j].run = sent'[i].run => i = j
                        /\ ~has_user_visible_send(sent'[i].result)
                        /\ \E ctx \in Runs : /\ Key(ctx) = sent'[i].run /\ ctx.agent_kind = "orchestrator"
                                             /\ ~ctx.observe_only
      BY DEF FinalTextOnce
    <2>1. CASE i \in DOMAIN sent
      BY <1>5, <1>10, <2>1 DEF AgentInv, FinalTextOnce
    <2>2. CASE i = Len(sent) + 1
      <3>1. sent'[i] = row
        BY <1>5, <2>2
      <3>2. /\ ~has_user_visible_send(row.result)
            /\ running.run.agent_kind = "orchestrator" /\ ~running.run.observe_only
        BY <1>1, <1>10, <3>1, RunsAssumption DEF decide_fallback
      <3>3. \A j \in DOMAIN sent' : sent'[j].what = "fallback" /\ sent'[j].run = sent'[i].run => i = j
        BY <1>5, <1>10, <2>2, <3>1
      <3> QED BY <1>1, <1>2, <3>1, <3>2, <3>3
    <2> QED BY <1>5, <2>1, <2>2
  <1> QED BY <1>6, <1>9, <1>11, <1>12 DEF AgentInv

(* However often runs are retried and wherever the sink fails, the final     *)
(* text of an inbound message is delivered at most once, by an orchestrator  *)
(* whose actions did not reply (FallbackLedger::decide, run_once).           *)
THEOREM FinalTextDeliveredOnce == AgentSpec => []FinalTextOnce
PROOF
  <1>1. AgentInit => AgentInv
    BY DEF AgentInit, AgentInv, AgentTypeOK, FallbackDue, SentInLedger, FinalTextOnce
  <1>2. AgentInv /\ [AgentNext]_agentVars => AgentInv'
    <2> SUFFICES ASSUME AgentInv, [AgentNext]_agentVars PROVE AgentInv'
      OBVIOUS
    <2>1. CASE RunEnds
      BY <2>1 DEF RunEnds, AgentInv, AgentTypeOK, FallbackDue, SentInLedger, FinalTextOnce
    <2>2. CASE UNCHANGED agentVars
      BY <2>2 DEF agentVars, AgentInv, AgentTypeOK, FallbackDue, SentInLedger, FinalTextOnce
    <2> QED BY <2>1, <2>2, RunOnceKeepsAgentInv, EmitKeepsAgentInv DEF AgentNext
  <1>3. AgentInv => FinalTextOnce
    BY DEF AgentInv
  <1> QED BY <1>1, <1>2, <1>3, PTL DEF AgentSpec

-----------------------------------------------------------------------------
(* Observed messages *)

ObserveSpec == ObserveInit /\ [][ObserveNext]_observeVars

\* What was stored passed the gate, and is in the watermark once.
Accepted(s) == \E source_type \in SourceType :
    s.write \in prepare_observed_write("orchestrator", s.source, source_type, "medium", s.text)

ObserveInv ==
    /\ stored \in Seq(Range(stored))
    /\ \A i \in DOMAIN stored : Accepted(stored[i]) /\ stored[i].write.dedupe_key \in committed
    /\ \A i, j \in DOMAIN stored :
          stored[i].write.dedupe_key = stored[j].write.dedupe_key => i = j

\* The key is that of the source and the text.
LEMMA AcceptedKey ==
    ASSUME NEW s, Accepted(s) PROVE s.write.dedupe_key = observe_dedupe_key(s.source, s.text)
<1>1. PICK source_type \in SourceType :
          s.write \in prepare_observed_write("orchestrator", s.source, source_type, "medium", s.text)
    BY DEF Accepted
<1> QED BY <1>1 DEF prepare_observed_write

\* The gate decides for which chats a note may be used.
LEMMA AcceptedStaysHome ==
    ASSUME NEW s, Accepted(s), NEW ctx, is_eligible(s.write.front_matter, ctx)
    PROVE  /\ s.text \intersect (HardMarkers \union {"instruction"}) = {}
           /\ s.source.thread_id # Absent => s.source.thread_id = ctx.thread_id
           /\ s.source.chat_id # Absent => s.source.chat_id = ctx.chat_id /\ s.source.channel = ctx.channel
           /\ s.source.source_user_id # Absent /\ s.source.chat_id = Absent =>
                  s.source.source_user_id = ctx.user_id
<1>1. PICK source_type \in SourceType :
          s.write \in prepare_observed_write("orchestrator", s.source, source_type, "medium", s.text)
    BY DEF Accepted
<1>2. PICK p, fm : p = s.source /\ fm = s.write.front_matter
    OBVIOUS
<1>3. /\ s.text \intersect HardMarkers = {}
      /\ fm.scope = IF "instruction" \in s.text THEN "no_rag" ELSE default_observed_scope(p)
      /\ fm.source_ref = [channel |-> p.channel, chat_id |-> p.chat_id, thread_id |-> p.thread_id]
      /\ fm.source_user_id = p.source_user_id
      /\ fm.reuse_policy = IF "instruction" \in s.text THEN "cite_only" ELSE "same_scope"
    BY <1>1, <1>2 DEF prepare_observed_write
<1>4. "instruction" \notin s.text
    BY <1>2, <1>3 DEF is_eligible
<1>5. /\ fm.scope = default_observed_scope(p) /\ fm.reuse_policy = "same_scope"
      /\ fm.scope \in {"thread", "channel", "user", "all_chats"}
    BY <1>3, <1>4 DEF default_observed_scope
<1>6. scope_matches(fm, ctx)
    BY <1>2, <1>5 DEF is_eligible
<1>7. fm.source_ref.channel = p.channel /\ fm.source_ref.chat_id = p.chat_id /\ fm.source_ref.thread_id = p.thread_id
    BY <1>3
<1>8. CASE p.thread_id # Absent
    <2>1. same_thread(fm, ctx)
        BY <1>5, <1>6, <1>8 DEF scope_matches, default_observed_scope
    <2> QED BY <1>2, <1>3, <1>4, <1>7, <2>1 DEF same_thread, same_channel
<1>9. CASE p.thread_id = Absent /\ p.chat_id # Absent
    <2>1. same_channel(fm, ctx)
        BY <1>5, <1>6, <1>9 DEF scope_matches, default_observed_scope
    <2> QED BY <1>2, <1>3, <1>4, <1>7, <1>9, <2>1 DEF same_channel
<1>10. CASE p.thread_id = Absent /\ p.chat_id = Absent
    <2>1. p.source_user_id # Absent => same_user(fm, ctx)
        BY <1>5, <1>6, <1>10 DEF scope_matches, default_observed_scope
    <2> QED BY <1>2, <1>3, <1>4, <1>10, <2>1 DEF same_user
<1> QED BY <1>8, <1>9, <1>10

(* A version of a message is stored once and is given to a prompt only in the
   chat it came from, never when it reads like an instruction: for any sources,
   texts and contexts, whatever is retried and whatever failed before.      *)
THEOREM ObservedNotesStayHome == ObserveSpec => []ObservedStaysHome
<1>1. ObserveInit => ObserveInv
    BY DEF ObserveInit, ObserveInv
<1>2. ObserveInv /\ [ObserveNext]_observeVars => ObserveInv'
    <2> SUFFICES ASSUME ObserveInv, [ObserveNext]_observeVars PROVE ObserveInv'
        OBVIOUS
    <2>1. CASE UNCHANGED observeVars
        BY <2>1 DEF observeVars, ObserveInv
    <2>2. ASSUME NEW p \in Sources, NEW source_type \in SourceType, NEW body \in Bodies,
                 Ingest(p, source_type, body)
          PROVE  ObserveInv'
        <3>1. PICK write \in prepare_observed_write("orchestrator", p, source_type, "medium", body),
                   ok \in BOOLEAN :
                  /\ committed' = ingest(committed, write, ok).committed
                  /\ stored' = IF ingest(committed, write, ok).outcome = "committed"
                               THEN Append(stored, [write |-> write, source |-> p, text |-> body])
                               ELSE stored
            BY <2>2 DEF Ingest
        <3>2. CASE write.dedupe_key \in committed \/ ~ok
            <4>1. committed' = committed /\ stored' = stored
                BY <3>1, <3>2 DEF ingest
            <4> QED BY <4>1 DEF ObserveInv
        <3>3. CASE write.dedupe_key \notin committed /\ ok
            <4>1. PICK new : new = [write |-> write, source |-> p, text |-> body]
                OBVIOUS
            <4>2. committed' = committed \union {write.dedupe_key} /\ stored' = Append(stored, new)
                BY <3>1, <3>3, <4>1 DEF ingest
            <4>3. new.write = write /\ new.source = p /\ new.text = body
                BY <4>1
            <4>4. Accepted(new)
                BY <4>3 DEF Accepted
            <4>5. /\ stored' \in Seq(Range(stored) \union {new})
                  /\ DOMAIN stored' = 1 .. Len(stored) + 1 /\ DOMAIN stored = 1 .. Len(stored)
                  /\ Len(stored) \in Nat /\ stored'[Len(stored) + 1] = new
                  /\ \A i \in DOMAIN stored : stored'[i] = stored[i]
                <5>1. PICK S : S = Range(stored) \union {new}
                    OBVIOUS
                <5>2. stored \in Seq(S) /\ new \in S
                    BY <5>1 DEF ObserveInv
                <5> QED BY <4>2, <5>1, <5>2
            <4>6. stored' \in Seq(Range(stored'))
                <5>1. stored' \in [1 .. Len(stored) + 1 -> Range(stored')]
                    BY <4>5 DEF Range
                <5> QED BY <4>5, <5>1
            <4>7. \A i \in DOMAIN stored' : /\ Accepted(stored'[i])
                                            /\ stored'[i].write.dedupe_key \in committed'
                BY <4>2, <4>3, <4>4, <4>5 DEF ObserveInv
            <4>8. \A i, j \in DOMAIN stored' :
                      stored'[i].write.dedupe_key = stored'[j].write.dedupe_key => i = j
                BY <3>3, <4>3, <4>5 DEF ObserveInv
            <4> QED BY <4>6, <4>7, <4>8 DEF ObserveInv
        <3> QED BY <3>2, <3>3
    <2> QED BY <2>1, <2>2 DEF ObserveNext
<1>3. ObserveInv => ObservedStaysHome
    <2> SUFFICES ASSUME ObserveInv PROVE ObservedStaysHome
        OBVIOUS
    <2>1. \A i, j \in DOMAIN stored :
              stored[i].source = stored[j].source /\ stored[i].text = stored[j].text => i = j
        BY AcceptedKey DEF ObserveInv
    <2>2. \A i \in DOMAIN stored : Accepted(stored[i])
        BY DEF ObserveInv
    <2> QED BY <2>1, <2>2, AcceptedStaysHome DEF ObservedStaysHome
<1> QED BY <1>1, <1>2, <1>3, PTL DEF ObserveSpec

-----------------------------------------------------------------------------
(* Memory *)

MemorySpec == MemoryInit /\ [][MemoryNext]_memoryVars

FrontMatter(raw) == normalize(raw, Owner).front_matter
HostNote(text) == to_markdown([front_matter |-> HostFrontMatter(text), body |-> text])

\* What the console is about to replace is what the tab had read, and its file is
\* among those a walk can meet.
RequestOK ==
    /\ \A t \in DOMAIN tab : tab[t] = [path |-> tab[t].path, version |-> tab[t].version] /\ tab[t].path \in Paths
    /\ request.op = "save" =>
         /\ "overtaken" \in DOMAIN request /\ request.path \in Paths
         /\ ~request.overtaken => /\ request.path \in DOMAIN files
                                  /\ files[request.path] = tab[request.tab].version

\* A note that is read with an id of its own was written by a turn, at the path
\* of its text, or by a person.
NoteOK(p, fm) ==
    \/ fm.memory_id = generate_memory_id(Owner, Absent)
    \/ fm.memory_id \in authored
    \/ \E text \in Texts : p = NotePath(text) /\ fm = HostFrontMatter(text)

FilesOK ==
    /\ DOMAIN files \subseteq Paths
    /\ \A p \in DOMAIN files : NoteOK(p, FrontMatter(files[p]))

SavesOK ==
    /\ saved \subseteq {generate_memory_id(Owner, text) : text \in Texts}
    /\ serve.step \in {"truncated", "written"} =>
         /\ serve = [step |-> serve.step, text |-> serve.text]
         /\ serve.text \in Texts /\ NotePath(serve.text) \in touched
    /\ walk.step = "read" => NoteOK(walk.path, walk.doc.front_matter)

\* What the walk has read is still so, unless the file was touched since.
WalkOK ==
    /\ walk.step \in {"walking", "read"} => walk.todo \subseteq Paths
    /\ walk.step = "read" =>
         /\ walk.path \in Paths
         /\ walk.path \notin touched =>
              walk.path \in DOMAIN files /\ walk.doc = normalize(files[walk.path], Owner)

Visited(p) ==
    \/ walk.step \in {"cleared", "embed", "done"}
    \/ walk.step = "walking" /\ p \notin walk.todo
    \/ walk.step = "read" /\ p \notin walk.todo /\ p # walk.path

Catalogued(p, fm) ==
    /\ \E r \in catalog : r.memory_id = fm.memory_id
    /\ \A r \in catalog : r.path = p /\ r.memory_id = fm.memory_id => r = CatalogEntry(p, fm)

\* The catalog has caught up with every file behind the walk.
BehindTheWalk ==
    \A p \in DOMAIN files \ touched :
      Shape[p].note /\ Visited(p) => Catalogued(p, FrontMatter(files[p]))

\* A file has the id of the document, or one was touched.
Sourced(d) ==
    \E p \in Paths : p \in touched \/ (p \in DOMAIN files /\ IdOf(files[p]) = d.memory_id)

IndexOK ==
    /\ walk.step \in {"walking", "read", "cleared"} =>
         walk.docs \in Seq(Range(walk.docs)) /\ \A i \in DOMAIN walk.docs : Sourced(walk.docs[i])
    /\ walk.step = "cleared" => corpus \subseteq walk.stuck
    /\ walk.step = "embed" => \A d \in corpus \ walk.stuck : Sourced(d)
    /\ walk.step = "done" /\ health = "healthy" => \A d \in index \ walk.stuck : Sourced(d)

MemoryInv ==
    /\ RequestOK /\ FilesOK /\ SavesOK /\ WalkOK /\ BehindTheWalk /\ IndexOK
    /\ SavedStaysRetrievable

\* A step of a turn that changes nothing but the turn, and ends a save if any.
TurnOnly ==
    /\ UNCHANGED <<files, catalog, corpus, index, walk, health, tab, request, saved, authored, touched>>
    /\ serve' = serve \/ serve'.step \notin {"truncated", "written"}

LEMMA MemoryStep ==
    ASSUME [MemoryNext]_memoryVars
    PROVE  \/ TurnOnly \/ Boot \/ DaemonDies
           \/ (\E text \in Texts : SaveMemory(text)) \/ WriteNote \/ CatalogueNote
           \/ Reindex \/ Console \/ \E p \in Paths : RemoveFile(p)
<1>1. CASE UNCHANGED memoryVars
    BY <1>1 DEF memoryVars, TurnOnly
<1>2. CASE SaveFails
    BY <1>2 DEF SaveFails, TurnOnly, Idle
<1>3. CASE Search
    BY <1>3 DEF Search, TurnOnly
<1>4. CASE SearchEnds
    BY <1>4 DEF SearchEnds, TurnOnly
<1>5. CASE SearchDegraded
    BY <1>5 DEF SearchDegraded, TurnOnly
<1>6. CASE TurnRuns
    BY <1>6 DEF TurnRuns, TurnOnly, Idle
<1> QED BY <1>1, <1>2, <1>3, <1>4, <1>5, <1>6 DEF MemoryNext, Turns

LEMMA WriteFacts ==
    ASSUME NEW p, NEW raw, Write(p, raw)
    PROVE  /\ DOMAIN files' = DOMAIN files \union {p} /\ files'[p] = raw
           /\ \A q \in DOMAIN files : q # p => files'[q] = files[q]
           /\ touched' = touched \union {p}
BY DEF Write, Put

LEMMA RemoveFacts ==
    ASSUME NEW p, RemoveFile(p)
    PROVE  /\ DOMAIN files' = DOMAIN files \ {p}
           /\ \A q \in DOMAIN files : q # p => files'[q] = files[q]
           /\ touched' = touched \union {p}
BY DEF RemoveFile, Restrict

-----------------------------------------------------------------------------
\* The request of the console

\* Whoever changes the file a save is about to replace says so.
LEMMA OvertakeFacts ==
    ASSUME NEW p, RequestOK, Overtake(p), tab' = tab,
           \A q \in DOMAIN files : q # p => q \in DOMAIN files' /\ files'[q] = files[q]
    PROVE  RequestOK'
<1>1. CASE request.op = "save" /\ request.path = p
    <2>1. request' = [request EXCEPT !.overtaken = TRUE] /\ "overtaken" \in DOMAIN request
        BY <1>1 DEF Overtake, RequestOK
    <2>2. request'.overtaken /\ DOMAIN request' = DOMAIN request
        BY <2>1
    <2>3. request'.path = request.path
        BY <2>1
    <2> QED BY <1>1, <2>1, <2>2, <2>3 DEF RequestOK
<1>2. CASE ~(request.op = "save" /\ request.path = p)
    <2>1. request' = request
        BY <1>2 DEF Overtake
    <2> QED BY <1>2, <2>1 DEF RequestOK
<1> QED BY <1>1, <1>2

LEMMA RequestStays ==
    ASSUME RequestOK, [MemoryNext]_memoryVars
    PROVE  RequestOK'
<1>1. CASE TurnOnly \/ Boot \/ DaemonDies \/ CatalogueNote \/ Reindex
    <2>1. UNCHANGED <<files, tab, request>>
        BY <1>1 DEF TurnOnly, Boot, DaemonDies, CatalogueNote, Reindex, StartWalk, ReadNote, CatalogueRead,
                    ClearCorpus, WriteCorpus, WriteStops, Embed, EmbedFails
    <2> QED BY <2>1 DEF RequestOK
<1>2. ASSUME NEW text \in Texts, SaveMemory(text) PROVE RequestOK'
    <2>1. Write(NotePath(text), Empty) /\ Overtake(NotePath(text)) /\ tab' = tab
        BY <1>2 DEF SaveMemory
    <2> QED BY <2>1, WriteFacts, OvertakeFacts
<1>3. CASE WriteNote
    <2>1. PICK p, raw : Write(p, raw) /\ Overtake(p) /\ tab' = tab
        BY <1>3 DEF WriteNote
    <2> QED BY <2>1, WriteFacts, OvertakeFacts
<1>4. ASSUME NEW p \in Paths, RemoveFile(p) PROVE RequestOK'
    <2>1. Overtake(p) /\ tab' = tab
        BY <1>4 DEF RemoveFile
    <2> QED BY <1>4, <2>1, RemoveFacts, OvertakeFacts
<1>5. ASSUME NEW t \in Tabs, Save(t) PROVE RequestOK'
    <2>1. PICK p, v : p = tab[t].path /\ v = tab[t].version
        OBVIOUS
    <2>2. t \in DOMAIN tab /\ p \in Paths /\ tab[t] = [path |-> p, version |-> v] /\ request.op = "none"
        BY <1>5, <2>1 DEF Save, RequestOK, NoRequest
    <2>3. CASE VersionMatches(p, v)
        <3>1. PICK raw : request' = [op |-> "save", tab |-> t, path |-> p, raw |-> raw, overtaken |-> FALSE]
            BY <1>5, <2>1, <2>3 DEF Save
        <3>2. files' = files /\ tab' = tab
            BY <1>5, <2>1, <2>3 DEF Save
        <3>3. request'.path = p /\ request'.tab = t /\ "overtaken" \in DOMAIN request'
            BY <3>1
        <3> QED BY <2>1, <2>2, <2>3, <3>2, <3>3 DEF VersionMatches, version_of, RequestOK
    <2>4. CASE ~VersionMatches(p, v)
        <3>1. tab' \in Refused(t) /\ request' = request /\ files' = files
            BY <1>5, <2>1, <2>4 DEF Save
        <3>2. request'.op # "save"
            BY <2>2, <3>1
        <3>3. \A s \in DOMAIN tab' : /\ tab'[s] = [path |-> tab'[s].path, version |-> tab'[s].version]
                                     /\ tab'[s].path \in Paths
            <4>1. CASE tab' = Restrict(tab, DOMAIN tab \ {t})
                BY <4>1 DEF Restrict, RequestOK
            <4>2. CASE tab' = tab
                BY <4>2 DEF RequestOK
            <4>3. CASE tab' = [tab EXCEPT ![t].version = version_of(files[p])]
                <5>1. /\ DOMAIN tab' = DOMAIN tab /\ \A s \in DOMAIN tab : s # t => tab'[s] = tab[s]
                      /\ tab'[t] = [tab[t] EXCEPT !.version = version_of(files[p])]
                    BY <2>2, <4>3
                <5>2. PICK w : w = version_of(files[p])
                    OBVIOUS
                <5>3. tab'[t] = [path |-> p, version |-> w]
                    BY <2>2, <5>1, <5>2
                <5> QED BY <2>2, <5>1, <5>3 DEF RequestOK
            <4> QED BY <2>1, <3>1, <4>1, <4>2, <4>3 DEF Refused
        <3> QED BY <3>2, <3>3 DEF RequestOK
    <2> QED BY <2>3, <2>4
<1>6. ASSUME NEW t \in Tabs, NEW p \in Paths, Load(t, p) PROVE RequestOK'
    <2>1. /\ tab' = Put(tab, t, [path |-> p, version |-> version_of(files[p])])
          /\ request'.op = "none"
        BY <1>6 DEF Load, NoRequest
    <2> QED BY <2>1 DEF Put, RequestOK
<1>7. ASSUME NEW p \in Paths, NEW text \in Texts, Create(p, text) PROVE RequestOK'
    <2>1. tab' = tab /\ request'.op = "create"
        BY <1>7 DEF Create
    <2> QED BY <2>1 DEF RequestOK
<1>8. CASE atomic_write
    <2>1. PICK t, w : t = request.tab /\ w = version_of(request.raw)
        OBVIOUS
    <2>2. tab' = [tab EXCEPT ![t].version = w] /\ request'.op = "none"
        BY <1>8, <2>1 DEF atomic_write, NoRequest
    <2>3. /\ DOMAIN tab' = DOMAIN tab /\ \A s \in DOMAIN tab : s # t => tab'[s] = tab[s]
          /\ t \in DOMAIN tab => tab'[t] = [tab[t] EXCEPT !.version = w]
        BY <2>2
    <2>4. t \in DOMAIN tab => tab'[t] = [path |-> tab[t].path, version |-> w]
        BY <2>3 DEF RequestOK
    <2> QED BY <2>2, <2>3, <2>4 DEF RequestOK
<1>9. CASE CreateWrites \/ ConsoleStops
    <2>1. tab' = tab /\ request'.op = "none"
        BY <1>9 DEF CreateWrites, ConsoleStops, NoRequest
    <2> QED BY <2>1 DEF RequestOK
<1> QED BY <1>1, <1>2, <1>3, <1>4, <1>5, <1>6, <1>7, <1>8, <1>9, MemoryStep DEF Console

(* The console never replaces a version its tab had not read, unless the file
   changed after the comparison: for any number of tabs, notes and texts,
   whatever the daemon and people do meanwhile.                              *)
THEOREM SavesCompareVersions == MemorySpec => NoSilentOverwrite
<1>1. MemoryInit => RequestOK
    BY DEF MemoryInit, RequestOK, NoRequest
<1>2. RequestOK /\ [MemoryNext]_memoryVars => RequestOK'
    BY RequestStays
<1>3. RequestOK /\ [MemoryNext]_memoryVars =>
        [\A t \in Tabs : atomic_write /\ request.tab = t /\ ~request.overtaken
           => version_of(files[request.path]) = tab[t].version]_memoryVars
    BY DEF RequestOK, atomic_write, version_of
<1> QED BY <1>1, <1>2, <1>3, PTL DEF MemorySpec, NoSilentOverwrite

-----------------------------------------------------------------------------
\* The notes and where they come from

LEMMA EmptyNote == FrontMatter(Empty).memory_id = generate_memory_id(Owner, Absent)
<1>1. parse(Empty) = {}
    BY DEF parse, split_front_matter, Empty
<1> QED BY <1>1 DEF FrontMatter, normalize, manual, Empty

LEMMA HostNoteIsRead ==
    ASSUME NEW text PROVE FrontMatter(HostNote(text)) = HostFrontMatter(text)
<1>1. PICK fm : fm = HostFrontMatter(text)
    OBVIOUS
<1>2. parse(HostNote(text)) = {[front_matter |-> fm, body |-> text]}
    BY <1>1 DEF parse, split_front_matter, HostNote, to_markdown
<1>3. normalize(HostNote(text), Owner) = [front_matter |-> fm, body |-> text]
    BY <1>2 DEF normalize
<1> QED BY <1>1, <1>3 DEF FrontMatter

LEMMA WriteKeepsFiles ==
    ASSUME FilesOK, NEW p \in Paths, NEW raw, Write(p, raw), authored \subseteq authored',
           NoteOK(p, FrontMatter(raw))'
    PROVE  FilesOK'
<1>1. \A q, fm : NoteOK(q, fm) => NoteOK(q, fm)'
    BY DEF NoteOK
<1>2. /\ DOMAIN files' = DOMAIN files \union {p} /\ files'[p] = raw
      /\ \A q \in DOMAIN files : q # p => files'[q] = files[q]
    BY WriteFacts
<1>3. ASSUME NEW q \in DOMAIN files' PROVE NoteOK(q, FrontMatter(files[q]))'
    <2>1. CASE q = p
        BY <1>2, <2>1 DEF FrontMatter, NoteOK
    <2>2. CASE q # p
        BY <1>1, <1>2, <2>2 DEF FilesOK, FrontMatter, NoteOK
    <2> QED BY <2>1, <2>2
<1>4. DOMAIN files' \subseteq Paths
    BY <1>2 DEF FilesOK
<1> QED BY <1>3, <1>4 DEF FilesOK

LEMMA FilesStay ==
    ASSUME FilesOK, RequestOK, SavesOK, [MemoryNext]_memoryVars
    PROVE  FilesOK' /\ authored \subseteq authored'
<1>1. CASE \/ TurnOnly \/ Boot \/ DaemonDies \/ CatalogueNote \/ Reindex \/ ConsoleStops
           \/ \E t \in Tabs : Save(t) \/ \E p \in Paths : Load(t, p)
    <2>1. UNCHANGED <<files, authored>>
        BY <1>1 DEF TurnOnly, Boot, DaemonDies, CatalogueNote, Reindex, StartWalk, ReadNote, CatalogueRead,
                    ClearCorpus, WriteCorpus, WriteStops, Embed, EmbedFails, ConsoleStops, Save, Load
    <2> QED BY <2>1 DEF FilesOK, NoteOK
<1>2. ASSUME NEW text \in Texts, SaveMemory(text) PROVE FilesOK' /\ authored' = authored
    <2>1. Write(NotePath(text), Empty) /\ authored' = authored /\ NotePath(text) \in Paths
        BY <1>2, MemoryAssumption DEF SaveMemory
    <2>2. NoteOK(NotePath(text), FrontMatter(Empty))'
        BY EmptyNote DEF NoteOK
    <2> QED BY <2>1, <2>2, WriteKeepsFiles
<1>3. CASE WriteNote
    <2>1. PICK text \in Texts : text = serve.text
        BY <1>3 DEF WriteNote, SavesOK
    <2>2. Write(NotePath(text), HostNote(text)) /\ authored' = authored /\ NotePath(text) \in Paths
        BY <1>3, <2>1, MemoryAssumption DEF WriteNote, HostNote
    <2>3. NoteOK(NotePath(text), FrontMatter(HostNote(text)))'
        BY HostNoteIsRead DEF NoteOK
    <2> QED BY <2>2, <2>3, WriteKeepsFiles
<1>4. ASSUME NEW p \in Paths, RemoveFile(p) PROVE FilesOK' /\ authored' = authored
    <2>1. authored' = authored
        BY <1>4 DEF RemoveFile
    <2> QED BY <1>4, <2>1, RemoveFacts DEF FilesOK, NoteOK
<1>5. ASSUME NEW p \in Paths, NEW text \in Texts, Create(p, text) PROVE FilesOK' /\ authored' = authored
    <2>1. Write(p, Empty) /\ authored' = authored
        BY <1>5 DEF Create
    <2>2. NoteOK(p, FrontMatter(Empty))'
        BY EmptyNote DEF NoteOK
    <2> QED BY <2>1, <2>2, WriteKeepsFiles
<1>6. CASE atomic_write
    <2>1. PICK p, raw : p = request.path /\ raw = request.raw
        OBVIOUS
    <2>2. p \in Paths /\ Write(p, raw) /\ authored' = authored \union {FrontMatter(raw).memory_id}
        BY <1>6, <2>1 DEF atomic_write, RequestOK, IdOf, FrontMatter
    <2>3. NoteOK(p, FrontMatter(raw))'
        BY <2>2 DEF NoteOK
    <2> QED BY <2>2, <2>3, WriteKeepsFiles
<1>7. CASE CreateWrites
    <2>1. PICK p, raw : p = request.path /\ raw = request.raw
        OBVIOUS
    <2>2. CASE p \in DOMAIN files
        <3>1. p \in Paths /\ Write(p, raw) /\ authored' = authored \union {FrontMatter(raw).memory_id}
            BY <1>7, <2>1, <2>2 DEF CreateWrites, FilesOK, IdOf, FrontMatter
        <3>2. NoteOK(p, FrontMatter(raw))'
            BY <3>1 DEF NoteOK
        <3> QED BY <3>1, <3>2, WriteKeepsFiles
    <2>3. CASE p \notin DOMAIN files
        <3>1. UNCHANGED <<files, authored>>
            BY <1>7, <2>1, <2>3 DEF CreateWrites
        <3> QED BY <3>1 DEF FilesOK, NoteOK
    <2> QED BY <2>2, <2>3
<1> QED BY <1>1, <1>2, <1>3, <1>4, <1>5, <1>6, <1>7, MemoryStep DEF Console

\* Only the start of a walk forgets what was touched, and what is not touched
\* is as it was.
LEMMA TouchedCovers ==
    ASSUME SavesOK, [MemoryNext]_memoryVars
    PROVE  /\ (StartWalk \/ touched \subseteq touched')
           /\ \A p : p \notin touched' =>
                /\ p \in DOMAIN files' <=> p \in DOMAIN files
                /\ p \in DOMAIN files => files'[p] = files[p]
<1>1. CASE \/ TurnOnly \/ Boot \/ DaemonDies \/ CatalogueNote \/ ReadNote \/ CatalogueRead
           \/ ClearCorpus \/ WriteCorpus \/ WriteStops \/ Embed \/ EmbedFails \/ ConsoleStops
           \/ \E t \in Tabs : Save(t) \/ \E p \in Paths : Load(t, p)
    <2>1. UNCHANGED <<files, touched>>
        BY <1>1 DEF TurnOnly, Boot, DaemonDies, CatalogueNote, ReadNote, CatalogueRead,
                    ClearCorpus, WriteCorpus, WriteStops, Embed, EmbedFails, ConsoleStops, Save, Load
    <2> QED BY <2>1
<1>2. CASE StartWalk
    BY <1>2 DEF StartWalk
<1>3. CASE \E p \in Paths : RemoveFile(p)
    BY <1>3, RemoveFacts
<1>4. CASE \/ (\E text \in Texts : SaveMemory(text)) \/ WriteNote \/ atomic_write
           \/ (\E p \in Paths, text \in Texts : Create(p, text))
           \/ CreateWrites /\ request.path \in DOMAIN files
    <2>1. PICK p, raw : Write(p, raw)
        BY <1>4 DEF SaveMemory, WriteNote, atomic_write, Create, CreateWrites
    <2> QED BY <2>1, WriteFacts
<1>5. CASE CreateWrites /\ request.path \notin DOMAIN files
    BY <1>5 DEF CreateWrites
<1> QED BY <1>1, <1>2, <1>3, <1>4, <1>5, MemoryStep DEF Console, Reindex

LEMMA WhoChanges ==
    ASSUME [MemoryNext]_memoryVars
    PROVE  /\ CatalogueNote \/ saved' = saved
           /\ CatalogueNote \/ CatalogueRead \/ catalog' = catalog
           /\ \/ TurnOnly \/ Boot \/ DaemonDies \/ (\E text \in Texts : SaveMemory(text)) \/ WriteNote
              \/ CatalogueNote \/ serve' = serve
           /\ Boot \/ DaemonDies \/ Reindex \/ UNCHANGED <<walk, corpus, index, health>>
<1>1. CASE TurnOnly
    BY <1>1 DEF TurnOnly
<1>2. CASE Boot \/ DaemonDies
    BY <1>2 DEF Boot, DaemonDies
<1>3. CASE (\E text \in Texts : SaveMemory(text)) \/ WriteNote \/ CatalogueNote
    BY <1>3 DEF SaveMemory, WriteNote, CatalogueNote
<1>4. CASE Reindex
    <2>1. /\ UNCHANGED <<saved, serve>>
          /\ CatalogueRead \/ UNCHANGED catalog
        BY <1>4 DEF Reindex, StartWalk, ReadNote, CatalogueRead, ClearCorpus, WriteCorpus, WriteStops, Embed, EmbedFails
    <2> QED BY <1>4, <2>1
<1>5. CASE Console
    BY <1>5 DEF Console, Save, Load, Create, atomic_write, CreateWrites, ConsoleStops
<1>6. CASE \E p \in Paths : RemoveFile(p)
    BY <1>6 DEF RemoveFile
<1> QED BY <1>1, <1>2, <1>3, <1>4, <1>5, <1>6, MemoryStep

LEMMA LeastIndex ==
    ASSUME NEW S \in SUBSET Nat, S # {} PROVE \E n \in S : \A m \in S : n <= m
<1> DEFINE Less == OpToRel(<, Nat)
<1>1. \A m, n \in Nat : m < n => <<m, n>> \in Less
    BY DEF OpToRel
<1>2. IsWellFoundedOn(Less, Nat)
    BY NatLessThanWellFounded
<1> HIDE DEF Less
<1>3. PICK n \in S : \A m \in S : ~ (<<m, n>> \in Less)
    BY <1>2, WFMin
<1>4. \A m \in S : ~ (m < n)
    BY <1>1, <1>3
<1> QED BY <1>3, <1>4

\* The walk visits what it has left to visit.
LEMMA FirstIsThere ==
    ASSUME NEW S, S \subseteq Paths, S # {}
    PROVE  FirstOf(S) \in S
<1>1. PICK I : I = {i \in DOMAIN Sorted : Sorted[i] \in S}
    OBVIOUS
<1>2. DOMAIN Sorted = 1 .. Len(Sorted) /\ Len(Sorted) \in Nat
    BY MemoryAssumption
<1>3. I \in SUBSET Nat /\ I # {}
    BY <1>1, <1>2 DEF Paths, Range
<1>4. PICK n \in I : \A m \in I : n <= m
    BY <1>3, LeastIndex
<1>5. \A j \in 1 .. n - 1 : Sorted[j] \notin S
    BY <1>1, <1>2, <1>4
<1>6. \E i \in DOMAIN Sorted : Sorted[i] \in S /\ \A j \in 1 .. i - 1 : Sorted[j] \notin S
    BY <1>1, <1>4, <1>5
<1> QED BY <1>6 DEF FirstOf

LEMMA SavesStay ==
    ASSUME SavesOK, FilesOK, RequestOK, WalkOK, [MemoryNext]_memoryVars
    PROVE  SavesOK'
<1>1. authored \subseteq authored'
    BY FilesStay
<1>2. \A p, fm : NoteOK(p, fm) => NoteOK(p, fm)'
    BY <1>1 DEF NoteOK
<1>3. saved' \subseteq {generate_memory_id(Owner, text) : text \in Texts}
    <2>1. CASE CatalogueNote
        BY <2>1 DEF CatalogueNote, SavesOK
    <2> QED BY <2>1, WhoChanges DEF SavesOK
<1>4. serve'.step \in {"truncated", "written"} =>
        /\ serve' = [step |-> serve'.step, text |-> serve'.text]
        /\ serve'.text \in Texts /\ NotePath(serve'.text) \in touched'
    <2>1. ASSUME NEW text \in Texts, SaveMemory(text)
          PROVE  serve' = [step |-> "truncated", text |-> text] /\ NotePath(text) \in touched'
        BY <2>1, WriteFacts DEF SaveMemory
    <2>2. CASE WriteNote
        <3>1. PICK text \in Texts : text = serve.text
            BY <2>2 DEF WriteNote, SavesOK
        <3>2. NotePath(text) \in touched' /\ serve' = [step |-> "written", text |-> text]
            BY <2>2, <3>1, WriteFacts DEF WriteNote, SavesOK
        <3> QED BY <3>2
    <2>3. CASE Boot \/ DaemonDies \/ CatalogueNote
        BY <2>3 DEF Boot, DaemonDies, CatalogueNote, Idle, Down
    <2>4. CASE StartWalk
        BY <2>4 DEF StartWalk, SavesOK
    <2>5. CASE TurnOnly
        BY <2>5 DEF TurnOnly, SavesOK
    <2>6. CASE serve' = serve /\ touched \subseteq touched'
        BY <2>6 DEF SavesOK
    <2> QED BY <2>1, <2>2, <2>3, <2>4, <2>5, <2>6, WhoChanges, TouchedCovers
<1>5. walk'.step = "read" => NoteOK(walk.path, walk.doc.front_matter)'
    <2>1. CASE ReadNote
        <3>1. PICK q, fm : q = FirstOf(walk.todo) /\ fm = FrontMatter(files[q])
            OBVIOUS
        <3>2. ASSUME walk'.step = "read"
              PROVE  q \in DOMAIN files /\ walk'.path = q /\ walk'.doc.front_matter = fm
            BY <2>1, <3>1, <3>2 DEF ReadNote, FrontMatter
        <3>3. q \in DOMAIN files => NoteOK(q, fm)'
            BY <1>2, <3>1 DEF FilesOK
        <3> QED BY <3>2, <3>3 DEF NoteOK
    <2>2. CASE \/ Boot \/ DaemonDies \/ StartWalk \/ CatalogueRead \/ ClearCorpus \/ WriteCorpus \/ WriteStops \/ Embed \/ EmbedFails
        BY <2>2 DEF Boot, DaemonDies, StartWalk, CatalogueRead, ClearCorpus, WriteCorpus, WriteStops, Embed, EmbedFails, NoWalk
    <2>3. CASE walk' = walk
        BY <1>1, <2>3 DEF SavesOK, NoteOK
    <2> QED BY <2>1, <2>2, <2>3, WhoChanges DEF Reindex
<1> QED BY <1>3, <1>4, <1>5 DEF SavesOK

(* What a turn saved keeps a row that a prompt may use: a walk can replace it
   only by what the host itself would have written.                        *)
LEMMA HostEntry ==
    ASSUME NEW text
    PROVE  LET r == CatalogEntry(NotePath(text), HostFrontMatter(text))
           IN  r.memory_id = <<Owner, text>> /\ r.path = NotePath(text) /\ is_eligible(r, DefaultContext)
<1>1. PICK r : r = CatalogEntry(NotePath(text), HostFrontMatter(text))
    OBVIOUS
<1>2. /\ r.memory_id = <<Owner, text>> /\ r.path = NotePath(text)
      /\ r.scope = "all_chats" /\ r.reuse_policy = "same_scope"
    BY <1>1 DEF CatalogEntry, HostFrontMatter, generate_memory_id
<1>3. scope_matches(r, DefaultContext)
    BY <1>2 DEF scope_matches
<1>4. is_eligible(r, DefaultContext)
    BY <1>2, <1>3 DEF is_eligible
<1> QED BY <1>1, <1>2, <1>4

LEMMA SavedStays ==
    ASSUME SavedStaysRetrievable, SavesOK, FilesOK, RequestOK, [MemoryNext]_memoryVars
    PROVE  SavedStaysRetrievable'
<1>1. authored \subseteq authored'
    BY FilesStay
<1>2. CASE saved' = saved /\ catalog' = catalog
    BY <1>1, <1>2 DEF SavedStaysRetrievable
<1>3. ASSUME NEW id \in saved \ authored, NEW p, NEW fm, fm.memory_id # id,
             catalog' = upsert_entry(catalog, p, fm)
      PROVE  \E r \in catalog' :
                r.memory_id = id /\ r.path = NotePath(id[2]) /\ is_eligible(r, DefaultContext)
    BY <1>3 DEF SavedStaysRetrievable, upsert_entry
<1>4. ASSUME NEW text, catalog' = upsert_entry(catalog, NotePath(text), HostFrontMatter(text)),
             NEW id, id = <<Owner, text>>
      PROVE  \E r \in catalog' :
                r.memory_id = id /\ r.path = NotePath(id[2]) /\ is_eligible(r, DefaultContext)
    <2>1. id[2] = text /\ CatalogEntry(NotePath(text), HostFrontMatter(text)) \in catalog'
        BY <1>4 DEF upsert_entry
    <2> QED BY <1>4, <2>1, HostEntry
<1>5. CASE CatalogueNote
    <2>1. PICK text : text = serve.text
        OBVIOUS
    <2>2. /\ catalog' = upsert_entry(catalog, NotePath(text), HostFrontMatter(text))
          /\ saved' = saved \union {<<Owner, text>>} /\ authored' = authored
        BY <1>5, <2>1 DEF CatalogueNote, generate_memory_id
    <2>3. HostFrontMatter(text).memory_id = <<Owner, text>>
        BY DEF HostFrontMatter, generate_memory_id
    <2>4. ASSUME NEW id \in saved' \ authored'
          PROVE  \E r \in catalog' :
                    r.memory_id = id /\ r.path = NotePath(id[2]) /\ is_eligible(r, DefaultContext)
        <3>1. CASE id = <<Owner, text>>
            BY <1>4, <2>2, <3>1
        <3>2. CASE id # <<Owner, text>>
            BY <1>3, <2>2, <2>3, <3>2
        <3> QED BY <3>1, <3>2
    <2> QED BY <2>4 DEF SavedStaysRetrievable
<1>6. CASE CatalogueRead
    <2>1. PICK p, fm : p = walk.path /\ fm = walk.doc.front_matter
        OBVIOUS
    <2>2. catalog' = upsert_entry(catalog, p, fm) /\ saved' = saved /\ authored' = authored /\ NoteOK(p, fm)
        BY <1>6, <2>1 DEF CatalogueRead, SavesOK
    <2>3. ASSUME NEW id \in saved' \ authored'
          PROVE  \E r \in catalog' :
                    r.memory_id = id /\ r.path = NotePath(id[2]) /\ is_eligible(r, DefaultContext)
        <3>1. CASE fm.memory_id # id
            BY <1>3, <2>2, <3>1
        <3>2. CASE fm.memory_id = id
            <4>1. PICK mine \in Texts : id = <<Owner, mine>>
                BY <2>2 DEF SavesOK, generate_memory_id
            <4>2. mine # Absent
                BY MemoryAssumption
            <4>3. fm.memory_id # generate_memory_id(Owner, Absent)
                BY <3>2, <4>1, <4>2 DEF generate_memory_id
            <4>4. PICK text \in Texts : p = NotePath(text) /\ fm = HostFrontMatter(text)
                BY <2>2, <3>2, <4>3 DEF NoteOK
            <4>5. id = <<Owner, text>>
                BY <3>2, <4>4 DEF HostFrontMatter, generate_memory_id
            <4> QED BY <1>4, <2>2, <4>4, <4>5
        <3> QED BY <3>1, <3>2
    <2> QED BY <2>3 DEF SavedStaysRetrievable
<1> QED BY <1>2, <1>5, <1>6, WhoChanges DEF CatalogueRead

-----------------------------------------------------------------------------
\* The reindex

LEMMA WalkStays ==
    ASSUME WalkOK, FilesOK, SavesOK, [MemoryNext]_memoryVars
    PROVE  WalkOK'
<1>1. CASE Boot \/ DaemonDies \/ ClearCorpus \/ WriteCorpus \/ WriteStops \/ Embed \/ EmbedFails
    BY <1>1 DEF Boot, DaemonDies, ClearCorpus, WriteCorpus, WriteStops, Embed, EmbedFails, NoWalk, WalkOK
<1>2. CASE StartWalk
    BY <1>2 DEF StartWalk, WalkOK, collect_markdown
<1>3. CASE ReadNote
    <2>1. PICK q : q = FirstOf(walk.todo)
        OBVIOUS
    <2>2. q \in Paths /\ walk.todo \subseteq Paths
        BY <1>3, <2>1, FirstIsThere DEF ReadNote, WalkOK
    <2>3. CASE q \notin DOMAIN files
        BY <1>3, <2>1, <2>3 DEF ReadNote, WalkOK
    <2>4. CASE q \in DOMAIN files
        BY <1>3, <2>1, <2>2, <2>4 DEF ReadNote, WalkOK
    <2> QED BY <2>3, <2>4
<1>4. CASE CatalogueRead
    BY <1>4 DEF CatalogueRead, WalkOK
<1>5. CASE walk' = walk /\ touched \subseteq touched'
    BY <1>5, TouchedCovers DEF WalkOK
<1> QED BY <1>1, <1>2, <1>3, <1>4, <1>5, WhoChanges, TouchedCovers DEF Reindex

LEMMA UpsertCatalogues ==
    ASSUME NEW p, NEW fm, catalog' = upsert_entry(catalog, p, fm)
    PROVE  Catalogued(p, fm)'
<1>1. CatalogEntry(p, fm).memory_id = fm.memory_id
    BY DEF CatalogEntry
<1> QED BY <1>1 DEF upsert_entry, Catalogued

LEMMA UpsertKeeps ==
    ASSUME NEW p, NEW fm, Catalogued(p, fm), NEW q, NEW g, q # p,
           catalog' = upsert_entry(catalog, q, g)
    PROVE  Catalogued(p, fm)'
<1>1. CatalogEntry(q, g).memory_id = g.memory_id /\ CatalogEntry(q, g).path = q
    BY DEF CatalogEntry
<1> QED BY <1>1 DEF upsert_entry, Catalogued

LEMMA BehindStays ==
    ASSUME BehindTheWalk, WalkOK, FilesOK, SavesOK, [MemoryNext]_memoryVars
    PROVE  BehindTheWalk'
<1> SUFFICES ASSUME NEW p \in DOMAIN files' \ touched', Shape[p].note, Visited(p)'
             PROVE  Catalogued(p, FrontMatter(files[p]))'
    BY DEF BehindTheWalk
<1>1. PICK fm : fm = FrontMatter(files[p])
    OBVIOUS
<1>2. p \in DOMAIN files /\ files'[p] = files[p]
    BY TouchedCovers
<1>3. SUFFICES Catalogued(p, fm)'
    BY <1>1, <1>2 DEF FrontMatter, Catalogued
<1>4. p \notin touched /\ Visited(p) => Catalogued(p, fm)
    BY <1>1, <1>2 DEF BehindTheWalk
<1>5. CASE Boot \/ DaemonDies
    BY <1>5 DEF Boot, DaemonDies, NoWalk, Visited
<1>6. CASE StartWalk
    <2>1. p \in collect_markdown
        BY <1>2 DEF FilesOK, collect_markdown
    <2> QED BY <1>6, <2>1 DEF StartWalk, Visited
<1>7. CASE ReadNote
    <2>1. PICK q : q = FirstOf(walk.todo)
        OBVIOUS
    <2>2. /\ walk.step = "walking" /\ UNCHANGED <<catalog, touched>>
          /\ \/ walk'.step = "failed"
             \/ walk'.step = "read" /\ walk'.todo = walk.todo \ {q} /\ walk'.path = q
        BY <1>7, <2>1 DEF ReadNote
    <2>3. Visited(p)
        BY <2>2 DEF Visited
    <2> QED BY <1>4, <2>2, <2>3 DEF Catalogued
<1>8. CASE CatalogueRead
    <2>1. PICK q, g : q = walk.path /\ g = walk.doc.front_matter
        OBVIOUS
    <2>2. /\ walk.step = "read" /\ touched' = touched /\ catalog' = upsert_entry(catalog, q, g)
          /\ walk'.step = "walking" /\ walk'.todo = walk.todo
        BY <1>8, <2>1 DEF CatalogueRead
    <2>3. CASE q = p
        <3>1. fm = g
            BY <1>1, <2>1, <2>2, <2>3 DEF WalkOK, FrontMatter
        <3> QED BY <2>2, <2>3, <3>1, UpsertCatalogues
    <2>4. CASE q # p
        <3>1. Visited(p)
            BY <2>1, <2>2, <2>4 DEF Visited
        <3> QED BY <1>4, <2>2, <2>4, <3>1, UpsertKeeps
    <2> QED BY <2>3, <2>4
<1>9. CASE ClearCorpus \/ WriteCorpus \/ WriteStops \/ Embed \/ EmbedFails
    <2>1. Visited(p) /\ UNCHANGED <<catalog, touched>>
        BY <1>9 DEF ClearCorpus, WriteCorpus, WriteStops, Embed, EmbedFails, Visited
    <2> QED BY <1>4, <2>1 DEF Catalogued
<1>10. CASE walk' = walk /\ touched \subseteq touched'
    <2>1. Visited(p) /\ p \notin touched
        BY <1>10 DEF Visited
    <2>2. CASE CatalogueNote
        <3>1. PICK q, g : q = NotePath(serve.text) /\ g = HostFrontMatter(serve.text)
            OBVIOUS
        <3>2. catalog' = upsert_entry(catalog, q, g) /\ q \in touched
            BY <2>2, <3>1 DEF CatalogueNote, SavesOK
        <3> QED BY <1>4, <2>1, <3>2, UpsertKeeps
    <2>3. CASE CatalogueRead
        BY <1>8, <2>3
    <2>4. CASE catalog' = catalog
        BY <1>4, <2>1, <2>4 DEF Catalogued
    <2> QED BY <2>2, <2>3, <2>4, WhoChanges
<1> QED BY <1>5, <1>6, <1>7, <1>8, <1>9, <1>10, WhoChanges, TouchedCovers DEF Reindex

LEMMA IndexStays ==
    ASSUME IndexOK, WalkOK, SavesOK, [MemoryNext]_memoryVars
    PROVE  IndexOK'
<1>1. ASSUME NEW d, Sourced(d), touched \subseteq touched' PROVE Sourced(d)'
    BY <1>1, TouchedCovers DEF Sourced
<1>2. CASE Boot \/ DaemonDies
    BY <1>2 DEF Boot, DaemonDies, NoWalk, IndexOK
<1>3. CASE StartWalk
    <2>1. walk'.step = "walking" /\ walk'.docs = <<>>
        BY <1>3 DEF StartWalk
    <2>2. walk'.docs \in Seq(Range(walk'.docs)) /\ DOMAIN walk'.docs = {}
        BY <2>1
    <2> QED BY <2>1, <2>2 DEF IndexOK
<1>4. CASE ReadNote
    <2>1. walk.step = "walking" /\ touched' = touched
        BY <1>4 DEF ReadNote
    <2>2. PICK q : q = FirstOf(walk.todo)
        OBVIOUS
    <2>3. CASE q \notin DOMAIN files
        <3>1. walk'.step = "failed"
            BY <1>4, <2>2, <2>3 DEF ReadNote
        <3> QED BY <3>1 DEF IndexOK
    <2>4. CASE q \in DOMAIN files
        <3>1. walk'.step = "read" /\ walk'.docs = walk.docs
            BY <1>4, <2>2, <2>4 DEF ReadNote
        <3> QED BY <1>1, <2>1, <3>1 DEF IndexOK
    <2> QED BY <2>3, <2>4
<1>5. CASE CatalogueRead
    <2>1. PICK docs, new : docs = walk.docs /\ new = [memory_id |-> walk.doc.front_matter.memory_id,
                                                      body |-> walk.doc.body]
        OBVIOUS
    <2>2. walk.step = "read" /\ touched' = touched /\ walk'.step = "walking" /\ walk'.docs = Append(docs, new)
        BY <1>5, <2>1 DEF CatalogueRead
    <2>3. docs \in Seq(Range(docs)) /\ \A i \in DOMAIN docs : Sourced(docs[i])'
        BY <1>1, <2>1, <2>2 DEF IndexOK
    <2>4. Sourced(new)
        <3>1. new.memory_id = walk.doc.front_matter.memory_id
            BY <2>1
        <3> QED BY <2>2, <3>1 DEF WalkOK, Sourced, IdOf
    <2>5. PICK S : S = Range(docs) \union {new}
        OBVIOUS
    <2>6. docs \in Seq(S) /\ new \in S
        BY <2>3, <2>5
    <2>7. PICK longer : longer = Append(docs, new)
        OBVIOUS
    <2>8. /\ DOMAIN longer = 1 .. Len(docs) + 1 /\ DOMAIN docs = 1 .. Len(docs)
          /\ Len(docs) \in Nat /\ longer[Len(docs) + 1] = new /\ longer \in Seq(S)
          /\ \A i \in DOMAIN docs : longer[i] = docs[i]
        BY <2>6, <2>7
    <2>9. longer \in Seq(Range(longer))
        <3>1. longer \in [1 .. Len(docs) + 1 -> Range(longer)]
            BY <2>8 DEF Range
        <3> QED BY <2>8, <3>1
    <2>10. Sourced(new)'
        BY <1>1, <2>2, <2>4
    <2>11. \A i \in DOMAIN longer : Sourced(longer[i])'
        BY <2>3, <2>8, <2>10
    <2> QED BY <2>2, <2>7, <2>9, <2>11 DEF IndexOK, Sourced
<1>6. CASE WriteCorpus
    <2>1. /\ walk.step = "cleared" /\ touched' = touched
          /\ walk'.step = "embed" /\ walk'.stuck = walk.stuck
          /\ corpus' = written(walk.docs)
        BY <1>6 DEF WriteCorpus
    <2>2. \A d \in CorpusOf(walk.docs) : Sourced(d)
        BY <2>1 DEF IndexOK, CorpusOf
    <2>3. \A d \in corpus' \ walk.stuck : d \in CorpusOf(walk.docs)
        BY <2>1 DEF IndexOK, written
    <2> QED BY <1>1, <2>1, <2>2, <2>3 DEF IndexOK
<1>7. CASE Embed
    <2>1. /\ walk.step = "embed" /\ touched' = touched /\ index' = corpus
          /\ walk'.step = "done" /\ walk'.stuck = walk.stuck
        BY <1>7 DEF Embed
    <2> QED BY <1>1, <2>1 DEF IndexOK
<1>11. CASE ClearCorpus
    <2>1. PICK stuck : /\ corpus' = cleared(stuck) /\ walk' = [step |-> "cleared", docs |-> walk.docs, stuck |-> stuck]
        BY <1>11 DEF ClearCorpus
    <2>2. walk.step = "walking" /\ touched' = touched /\ walk'.docs = walk.docs /\ walk'.step = "cleared"
          /\ corpus' = walk'.stuck
        BY <1>11, <2>1 DEF ClearCorpus, cleared
    <2> QED BY <1>1, <2>2 DEF IndexOK
<1>12. CASE WriteStops
    BY <1>12 DEF WriteStops, IndexOK
<1>8. CASE EmbedFails
    BY <1>8 DEF EmbedFails, IndexOK
<1>9. CASE UNCHANGED <<walk, corpus, index, health>> /\ touched \subseteq touched'
    BY <1>1, <1>9 DEF IndexOK
<1> QED BY <1>2, <1>3, <1>4, <1>5, <1>6, <1>7, <1>8, <1>9, <1>11, <1>12, WhoChanges, TouchedCovers DEF Reindex

-----------------------------------------------------------------------------

LEMMA MemoryInvHolds == MemorySpec => []MemoryInv
<1>1. MemoryInit => MemoryInv
    <2> SUFFICES ASSUME MemoryInit PROVE MemoryInv
        OBVIOUS
    <2>1. /\ files = <<>> /\ catalog = {} /\ serve.step = "down" /\ walk.step = "none" /\ tab = <<>>
          /\ request.op = "none" /\ saved = {}
        BY DEF MemoryInit, Down, NoWalk, NoRequest
    <2>2. RequestOK /\ FilesOK /\ SavesOK /\ WalkOK
        BY <2>1 DEF RequestOK, FilesOK, SavesOK, WalkOK
    <2>3. BehindTheWalk /\ IndexOK /\ SavedStaysRetrievable
        BY <2>1 DEF BehindTheWalk, IndexOK, SavedStaysRetrievable
    <2> QED BY <2>2, <2>3 DEF MemoryInv
<1>2. MemoryInv /\ [MemoryNext]_memoryVars => MemoryInv'
    BY RequestStays, FilesStay, SavesStay, WalkStays, BehindStays, IndexStays, SavedStays DEF MemoryInv
<1> QED BY <1>1, <1>2, PTL DEF MemorySpec

(* A memory that a turn saved stays in the catalog, eligible and at its path,
   unless a person wrote a note of its id: for any texts, tabs and paths,
   through half written files, crashes, failed saves and reindexes.         *)
THEOREM SavedNotesStayRetrievable == MemorySpec => []SavedStaysRetrievable
<1>1. MemoryInv => SavedStaysRetrievable
    BY DEF MemoryInv
<1> QED BY <1>1, MemoryInvHolds, PTL

(* When a reindex is over, the catalog says what every note says that nobody
   changed since it began.                                                   *)
THEOREM ReindexCatchesUp == MemorySpec => []ReindexCatalogues
<1>1. MemoryInv => ReindexCatalogues
    BY DEF MemoryInv, BehindTheWalk, Visited, Catalogued, FrontMatter, ReindexCatalogues
<1> QED BY <1>1, MemoryInvHolds, PTL

(* After a healthy reindex the search knows no note whose file was gone before
   it began, but for what could not be removed from the corpus.              *)
THEOREM SearchForgetsRemovedNotes == MemorySpec => []RemovedNotesForgotten
<1>1. MemoryInv => RemovedNotesForgotten
    BY DEF MemoryInv, IndexOK, Sourced, RemovedNotesForgotten
<1> QED BY <1>1, MemoryInvHolds, PTL

-----------------------------------------------------------------------------
(* CycleSearch: recursion by iteration, and what a search without a cycle     *)
(* says of the graph.                                                        *)

\* The first n values of an iteration that starts from b and goes on by G.
IsRun(f, n, V, b, G) ==
    f \in [0 .. n -> V] /\ f[0] = b /\ \A k \in 1 .. n : f[k] = G[<<k, f[k - 1]>>]

(* A run agrees with one that goes a step further. *)
LEMMA RunsAgree ==
    ASSUME NEW V, NEW b \in V, NEW G \in [Nat \X V -> V], NEW m \in Nat \ {0},
           NEW f, NEW g, IsRun(f, m - 1, V, b, G), IsRun(g, m, V, b, G)
    PROVE  f[m - 1] = g[m - 1]
PROOF
  <1> DEFINE n == m - 1
  <1>a. n \in Nat /\ n <= m /\ IsRun(f, n, V, b, G)
    OBVIOUS
  <1> HIDE DEF n
  <1> DEFINE Differ == {k \in 0 .. n : f[k] # g[k]}
  <1>1. ASSUME Differ # {} PROVE FALSE
    <2>0. Differ \in SUBSET Nat
      BY <1>a
    <2>1. PICK k \in Differ : \A j \in Differ : k <= j
      <3> HIDE DEF Differ
      <3> QED BY <1>1, <2>0, LeastIndex
    <2>2. k # 0
      BY <1>a, <2>1 DEF IsRun
    <2>3. k - 1 \in 0 .. n /\ k \in 1 .. n /\ k \in 1 .. m /\ f[k - 1] = g[k - 1]
      BY <1>a, <2>1, <2>2
    <2>4. f[k] = G[<<k, f[k - 1]>>] /\ g[k] = G[<<k, g[k - 1]>>]
      BY <1>a, <2>3 DEF IsRun
    <2> QED BY <2>1, <2>3, <2>4
  <1> QED BY <1>1, <1>a DEF n

(* There is a run of every length. *)
LEMMA RunsExist ==
    ASSUME NEW V, NEW b \in V, NEW G \in [Nat \X V -> V], NEW n \in Nat
    PROVE  \E f : IsRun(f, n, V, b, G)
PROOF
  <1> DEFINE Without == {k \in Nat : ~ \E f : IsRun(f, k, V, b, G)}
  <1>1. ASSUME Without # {} PROVE FALSE
    <2>1. PICK k \in Without : \A j \in Without : k <= j
      BY <1>1, LeastIndex
    <2>2. k # 0
      <3>1. IsRun([i \in 0 .. 0 |-> b], 0, V, b, G)
        BY DEF IsRun
      <3> QED BY <2>1, <3>1
    <2>3. k - 1 \in Nat /\ k - 1 \notin Without
      BY <2>1, <2>2
    <2>4. PICK f : IsRun(f, k - 1, V, b, G)
      BY <2>3
    <2> DEFINE g == [i \in 0 .. k |-> IF i = k THEN G[<<k, f[k - 1]>>] ELSE f[i]]
    <2>5. f[k - 1] \in V /\ \A i \in 0 .. k - 1 : f[i] \in V
      BY <2>3, <2>4 DEF IsRun
    <2>6. g \in [0 .. k -> V]
      <3>1. G[<<k, f[k - 1]>>] \in V
        BY <2>5, <2>1
      <3>2. \A i \in 0 .. k : i # k => i \in 0 .. k - 1
        BY <2>1
      <3> QED BY <2>5, <3>1, <3>2
    <2>7. g[0] = b
      BY <2>4, <2>1, <2>2 DEF IsRun
    <2>8. \A i \in 1 .. k : g[i] = G[<<i, g[i - 1]>>]
      <3> TAKE i \in 1 .. k
      <3>1. CASE i = k
        <4>1. g[i - 1] = f[k - 1] /\ g[i] = G[<<k, f[k - 1]>>]
          BY <3>1, <2>1, <2>2
        <4> QED BY <3>1, <4>1
      <3>2. CASE i # k
        <4>1. i \in 1 .. k - 1 /\ i - 1 \in 0 .. k /\ i - 1 # k /\ i \in 0 .. k
          BY <3>2, <2>1
        <4>2. g[i] = f[i] /\ g[i - 1] = f[i - 1]
          BY <3>2, <4>1
        <4>3. f[i] = G[<<i, f[i - 1]>>]
          BY <2>4, <4>1 DEF IsRun
        <4> QED BY <4>2, <4>3
      <3> QED BY <3>1, <3>2
    <2>9. IsRun(g, k, V, b, G)
      BY <2>6, <2>7, <2>8 DEF IsRun
    <2> QED BY <2>1, <2>9
  <1> QED BY <1>1

IsIteration(h, V, b, G) ==
    h \in [Nat -> V] /\ h[0] = b /\ \A k \in Nat \ {0} : h[k] = G[<<k, h[k - 1]>>]

(* An iteration goes on for ever. *)
LEMMA Iterate ==
    ASSUME NEW V, NEW b \in V, NEW G \in [Nat \X V -> V]
    PROVE  \E h : IsIteration(h, V, b, G)
PROOF
  <1> DEFINE run(n) == CHOOSE f : IsRun(f, n, V, b, G)
  <1>1. \A n \in Nat : IsRun(run(n), n, V, b, G)
    BY RunsExist
  <1> DEFINE h == [n \in Nat |-> run(n)[n]]
  <1> HIDE DEF run
  <1>2. h \in [Nat -> V]
    <2>1. \A n \in Nat : run(n)[n] \in V
      BY <1>1 DEF IsRun
    <2> QED BY <2>1
  <1>3. h[0] = b
    BY <1>1 DEF IsRun
  <1>4. ASSUME NEW k \in Nat \ {0} PROVE h[k] = G[<<k, h[k - 1]>>]
    <2>1. k \in 1 .. k /\ k - 1 \in Nat /\ k - 1 <= k /\ k \in Nat
      OBVIOUS
    <2>2. run(k)[k] = G[<<k, run(k)[k - 1]>>]
      BY <1>1, <2>1 DEF IsRun
    <2>3. run(k - 1)[k - 1] = run(k)[k - 1]
      <3>1. IsRun(run(k - 1), k - 1, V, b, G) /\ IsRun(run(k), k, V, b, G)
        BY <1>1, <2>1
      <3>2. PICK f, g : f = run(k - 1) /\ g = run(k)
        OBVIOUS
      <3>3. IsRun(f, k - 1, V, b, G) /\ IsRun(g, k, V, b, G)
        BY <3>1, <3>2
      <3>4. f[k - 1] = g[k - 1]
        BY <3>3, RunsAgree
      <3> QED BY <3>2, <3>4
    <2> QED BY <2>1, <2>2, <2>3
  <1> QED BY <1>2, <1>3, <1>4 DEF IsIteration

(* What the search has after one more step, when it had `earlier' before. *)
Outcomes(successors) == [cycle : BOOLEAN, marks : [DOMAIN successors -> Mark]]
Searches(successors) ==
    [Seq(DOMAIN successors) -> [[DOMAIN successors -> Mark] -> Outcomes(successors)]]
IsGraph(successors) == \A n \in DOMAIN successors : successors[n] \in Seq(DOMAIN successors)

Searched(successors, fuel, earlier, todo, marks) ==
    IF todo = <<>> THEN [cycle |-> FALSE, marks |-> marks]
    ELSE IF fuel = 0 \/ marks[Head(todo)] = "visiting" THEN [cycle |-> TRUE, marks |-> marks]
    ELSE IF marks[Head(todo)] = "done" THEN earlier[Tail(todo)][marks]
    ELSE LET inner == earlier[successors[Head(todo)]][[marks EXCEPT ![Head(todo)] = "visiting"]]
         IN IF inner.cycle THEN inner
            ELSE earlier[Tail(todo)][[inner.marks EXCEPT ![Head(todo)] = "done"]]

Deeper(successors, fuel, earlier) ==
    [todo \in Seq(DOMAIN successors) |-> [marks \in [DOMAIN successors -> Mark] |->
       Searched(successors, fuel, earlier, todo, marks)]]

LEMMA SearchedType ==
    ASSUME NEW successors, IsGraph(successors), NEW fuel \in Nat, NEW earlier,
           fuel = 0 \/ earlier \in Searches(successors),
           NEW todo \in Seq(DOMAIN successors), NEW marks \in [DOMAIN successors -> Mark]
    PROVE  Searched(successors, fuel, earlier, todo, marks) \in Outcomes(successors)
PROOF
  <1>1. \A m \in [DOMAIN successors -> Mark], c \in BOOLEAN : [cycle |-> c, marks |-> m] \in Outcomes(successors)
    BY DEF Outcomes
  <1>2. CASE todo = <<>> \/ fuel = 0 \/ marks[Head(todo)] = "visiting"
    BY <1>1, <1>2 DEF Searched
  <1>3. CASE ~ (todo = <<>> \/ fuel = 0 \/ marks[Head(todo)] = "visiting")
    <2>1. Head(todo) \in DOMAIN successors /\ Tail(todo) \in Seq(DOMAIN successors)
      BY <1>3
    <2>2. \A t \in Seq(DOMAIN successors), m \in [DOMAIN successors -> Mark] :
             earlier[t][m] \in Outcomes(successors)
      BY <1>3 DEF Searches
    <2>3. CASE marks[Head(todo)] = "done"
      BY <1>3, <2>1, <2>2, <2>3 DEF Searched
    <2>4. CASE marks[Head(todo)] # "done"
      <3> DEFINE entered == [marks EXCEPT ![Head(todo)] = "visiting"]
                 inner == earlier[successors[Head(todo)]][entered]
                 left == [inner.marks EXCEPT ![Head(todo)] = "done"]
      <3>1. entered \in [DOMAIN successors -> Mark]
        BY DEF Mark
      <3>2. successors[Head(todo)] \in Seq(DOMAIN successors)
        BY <2>1 DEF IsGraph
      <3>3. inner \in Outcomes(successors)
        BY <2>2, <3>1, <3>2
      <3>4. left \in [DOMAIN successors -> Mark]
        BY <3>3 DEF Outcomes, Mark
      <3>5. earlier[Tail(todo)][left] \in Outcomes(successors)
        BY <2>1, <2>2, <3>4
      <3>6. Searched(successors, fuel, earlier, todo, marks) = IF inner.cycle THEN inner ELSE earlier[Tail(todo)][left]
        BY <1>3, <2>4 DEF Searched
      <3> QED BY <3>3, <3>5, <3>6
    <2> QED BY <2>3, <2>4
  <1> QED BY <1>2, <1>3

LEMMA DeeperType ==
    ASSUME NEW successors, IsGraph(successors), NEW fuel \in Nat, NEW earlier,
           fuel = 0 \/ earlier \in Searches(successors)
    PROVE  Deeper(successors, fuel, earlier) \in Searches(successors)
PROOF
  <1>1. \A todo \in Seq(DOMAIN successors), marks \in [DOMAIN successors -> Mark] :
          Searched(successors, fuel, earlier, todo, marks) \in Outcomes(successors)
    BY SearchedType
  <1> QED BY <1>1 DEF Deeper, Searches

(* The search is the limit of these steps. *)
LEMMA SearchExists ==
    ASSUME NEW successors, IsGraph(successors)
    PROVE  \E s \in [Nat -> Searches(successors)] :
              s = [fuel \in Nat |-> Deeper(successors, fuel, s[fuel - 1])]
PROOF
  <1> DEFINE V == Searches(successors)
             G == [p \in Nat \X V |-> Deeper(successors, p[1], p[2])]
             b == Deeper(successors, 0, 0)
  <1>1. b \in V
    BY DeeperType
  <1>2. G \in [Nat \X V -> V]
    <2>1. \A p \in Nat \X V : Deeper(successors, p[1], p[2]) \in V
      BY DeeperType
    <2> HIDE DEF V
    <2> QED BY <2>1
  <1>3. \A e : Deeper(successors, 0, e) = b
    BY DEF Deeper, Searched
  <1>4. \A k \in Nat, e \in V : G[<<k, e>>] = Deeper(successors, k, e)
    <2> HIDE DEF V
    <2> QED OBVIOUS
  <1> HIDE DEF G, b, V
  <1>9. PICK s : IsIteration(s, V, b, G)
    BY <1>1, <1>2, Iterate
  <1>5. s \in [Nat -> V] /\ s[0] = b /\ \A k \in Nat \ {0} : s[k] = G[<<k, s[k - 1]>>]
    BY <1>9 DEF IsIteration
  <1>6. ASSUME NEW k \in Nat PROVE s[k] = Deeper(successors, k, s[k - 1])
    <2>1. CASE k = 0
      BY <2>1, <1>3, <1>5
    <2>2. CASE k # 0
      <3>1. k - 1 \in Nat /\ s[k - 1] \in V
        BY <2>2, <1>5
      <3> QED BY <3>1, <2>2, <1>5, <1>4
    <2> QED BY <2>1, <2>2
  <1>7. s = [fuel \in Nat |-> Deeper(successors, fuel, s[fuel - 1])]
    BY <1>5, <1>6
  <1> QED BY <1>5, <1>7 DEF V

LEMMA VisitIs ==
    ASSUME NEW successors, IsGraph(successors)
    PROVE  /\ visit(successors)[0] = Deeper(successors, 0, 0)
           /\ \A fuel \in Nat \ {0} :
                visit(successors)[fuel] = Deeper(successors, fuel, visit(successors)[fuel - 1])
PROOF
  <1> DEFINE search == CHOOSE search : search = [fuel \in Nat |-> Deeper(successors, fuel, search[fuel - 1])]
  <1>1. visit(successors) = search
    BY DEF visit, Deeper, Searched
  <1>2. search = [fuel \in Nat |-> Deeper(successors, fuel, search[fuel - 1])]
    <2>1. \E s : s = [fuel \in Nat |-> Deeper(successors, fuel, s[fuel - 1])]
      BY SearchExists
    <2> QED BY <2>1, Zenon
  <1>3. \A e : Deeper(successors, 0, e) = Deeper(successors, 0, 0)
    BY DEF Deeper, Searched
  <1>4. \A fuel \in Nat : search[fuel] = Deeper(successors, fuel, search[fuel - 1])
    <2> HIDE DEF search
    <2>1. \A s : s = [fuel \in Nat |-> Deeper(successors, fuel, search[fuel - 1])] =>
                  \A fuel \in Nat : s[fuel] = Deeper(successors, fuel, search[fuel - 1])
      OBVIOUS
    <2> QED BY <1>2, <2>1, Zenon
  <1> HIDE DEF search
  <1> QED BY <1>1, <1>3, <1>4

\* The nodes that are done can be numbered so that every edge goes down.
DoneIn(marks) == {n \in DOMAIN marks : marks[n] = "done"}

IsRanking(successors, marks, rank) ==
    /\ rank \in [DoneIn(marks) -> 1 .. Cardinality(DoneIn(marks))]
    /\ \A n \in DoneIn(marks) : \A i \in DOMAIN successors[n] :
         successors[n][i] \in DoneIn(marks) /\ rank[successors[n][i]] < rank[n]

Ranked(successors, marks) == \E rank : IsRanking(successors, marks, rank)

\* What a search without a cycle has done: the numbering goes on, the nodes
\* being visited are those that were, and those to do are done.
SameVisiting(marks, left) == \A n \in DOMAIN marks : left[n] = "visiting" <=> marks[n] = "visiting"
AllDone(todo, left) == \A i \in DOMAIN todo : left[todo[i]] = "done"

Completed(successors, todo, marks, left) ==
    /\ Ranked(successors, left)
    /\ SameVisiting(marks, left)
    /\ DoneIn(marks) \subseteq DoneIn(left)
    /\ AllDone(todo, left)

Sound(successors, search) ==
    \A todo \in Seq(DOMAIN successors), marks \in [DOMAIN successors -> Mark] :
      Ranked(successors, marks) /\ ~search[todo][marks].cycle
        => Completed(successors, todo, marks, search[todo][marks].marks)

(* The node that is finished takes the next number. *)
LEMMA RankOneMore ==
    ASSUME NEW successors, IsGraph(successors), IsFiniteSet(DOMAIN successors),
           NEW marks \in [DOMAIN successors -> Mark], Ranked(successors, marks),
           NEW n \in DOMAIN successors, marks[n] # "done", AllDone(successors[n], marks)
    PROVE  Ranked(successors, [marks EXCEPT ![n] = "done"])
PROOF
  <1>1. PICK rank : IsRanking(successors, marks, rank)
    BY DEF Ranked
  <1> DEFINE D == DoneIn(marks)
             left == [marks EXCEPT ![n] = "done"]
             wider == [m \in D \union {n} |-> IF m = n THEN Cardinality(D) + 1 ELSE rank[m]]
  <1>2. DoneIn(left) = D \union {n} /\ n \notin D /\ D \subseteq DOMAIN successors
    BY DEF DoneIn
  <1>3. IsFiniteSet(D) /\ Cardinality(D) \in Nat /\ Cardinality(D \union {n}) = Cardinality(D) + 1
    <2>1. IsFiniteSet(D)
      BY <1>2, FS_Subset
    <2> HIDE DEF D
    <2> QED BY <1>2, <2>1, FS_CardinalityType, FS_AddElement
  <1>4. rank \in [D -> 1 .. Cardinality(D)]
    BY <1>1 DEF IsRanking
  <1>5. \A m \in D : \A i \in DOMAIN successors[m] : successors[m][i] \in D /\ rank[successors[m][i]] < rank[m]
    BY <1>1 DEF IsRanking
  <1>6. \A i \in DOMAIN successors[n] : successors[n][i] \in D
    <2> TAKE i \in DOMAIN successors[n]
    <2>1. successors[n][i] \in DOMAIN successors
      BY DEF IsGraph
    <2> QED BY <2>1 DEF AllDone, DoneIn
  <1>7. wider \in [D \union {n} -> 1 .. Cardinality(D) + 1]
    <2> HIDE DEF D
    <2> QED BY <1>3, <1>4
  <1>8. ASSUME NEW m \in D \union {n}, NEW i \in DOMAIN successors[m]
        PROVE  successors[m][i] \in D \union {n} /\ wider[successors[m][i]] < wider[m]
    <2> HIDE DEF D
    <2>1. CASE m = n
      <3>1. successors[m][i] \in D /\ successors[m][i] # n
        BY <2>1, <1>2, <1>6
      <3>2. wider[successors[m][i]] = rank[successors[m][i]] /\ wider[m] = Cardinality(D) + 1
        BY <3>1, <2>1
      <3>3. rank[successors[m][i]] \in 1 .. Cardinality(D)
        BY <3>1, <1>4
      <3> QED BY <3>1, <3>2, <3>3, <1>3
    <2>2. CASE m # n
      <3>1. m \in D /\ successors[m][i] \in D /\ successors[m][i] # n
        BY <2>2, <1>2, <1>5
      <3>2. wider[successors[m][i]] = rank[successors[m][i]] /\ wider[m] = rank[m]
        BY <3>1, <2>2
      <3> QED BY <3>1, <3>2, <1>5
    <2> QED BY <2>1, <2>2
  <1>9. IsRanking(successors, left, wider)
    <2> HIDE DEF D, wider, left
    <2> QED BY <1>2, <1>3, <1>7, <1>8 DEF IsRanking
  <1> QED BY <1>9 DEF Ranked

LEMMA DeeperSound ==
    ASSUME NEW successors, IsGraph(successors), IsFiniteSet(DOMAIN successors), NEW fuel \in Nat,
           NEW earlier, fuel = 0 \/ (earlier \in Searches(successors) /\ Sound(successors, earlier)),
           NEW todo \in Seq(DOMAIN successors), NEW marks \in [DOMAIN successors -> Mark],
           Ranked(successors, marks), ~Searched(successors, fuel, earlier, todo, marks).cycle
    PROVE  Completed(successors, todo, marks, Searched(successors, fuel, earlier, todo, marks).marks)
PROOF
  <1> DEFINE found == Searched(successors, fuel, earlier, todo, marks)
             Marks == [DOMAIN successors -> Mark]
  <1>1. CASE todo = <<>>
    <2>1. found.marks = marks
      BY <1>1 DEF Searched
    <2>2. AllDone(todo, marks)
      BY <1>1 DEF AllDone
    <2> QED BY <2>1, <2>2 DEF Completed, SameVisiting
  <1>2. CASE todo # <<>> /\ (fuel = 0 \/ marks[Head(todo)] = "visiting")
    BY <1>2 DEF Searched
  <1>3. CASE todo # <<>> /\ ~ (fuel = 0 \/ marks[Head(todo)] = "visiting")
    <2>1. Head(todo) \in DOMAIN successors /\ Tail(todo) \in Seq(DOMAIN successors)
      BY <1>3
    <2>2. \A t \in Seq(DOMAIN successors), m \in Marks :
             /\ earlier[t][m] \in Outcomes(successors) /\ earlier[t][m].marks \in Marks
             /\ Ranked(successors, m) /\ ~earlier[t][m].cycle
                  => Completed(successors, t, m, earlier[t][m].marks)
      BY <1>3 DEF Searches, Sound, Outcomes
    <2>3. \A left \in Marks : AllDone(Tail(todo), left) /\ left[Head(todo)] = "done" => AllDone(todo, left)
      <3> SUFFICES ASSUME NEW left \in Marks, AllDone(Tail(todo), left), left[Head(todo)] = "done",
                          NEW i \in DOMAIN todo
                   PROVE  left[todo[i]] = "done"
        BY DEF AllDone
      <3>1. CASE i = 1
        BY <3>1, <1>3
      <3>2. CASE i # 1
        <4>1. i - 1 \in DOMAIN Tail(todo) /\ Tail(todo)[i - 1] = todo[i]
          BY <3>2, <1>3
        <4> QED BY <4>1 DEF AllDone
      <3> QED BY <3>1, <3>2
    <2>4. CASE marks[Head(todo)] = "done"
      <3>1. found = earlier[Tail(todo)][marks]
        BY <1>3, <2>4 DEF Searched
      <3>2. Completed(successors, Tail(todo), marks, found.marks) /\ found.marks \in Marks
        BY <2>1, <2>2, <3>1
      <3>3. found.marks[Head(todo)] = "done"
        BY <2>1, <2>4, <3>2 DEF Completed, DoneIn
      <3> QED BY <2>3, <3>2, <3>3 DEF Completed
    <2>5. CASE marks[Head(todo)] # "done"
      <3> DEFINE n == Head(todo)
                 entered == [marks EXCEPT ![n] = "visiting"]
                 inner == earlier[successors[n]][entered]
                 left == [inner.marks EXCEPT ![n] = "done"]
      <3>0. found = IF inner.cycle THEN inner ELSE earlier[Tail(todo)][left]
        BY <1>3, <2>5 DEF Searched
      <3>1. entered \in Marks /\ DoneIn(entered) = DoneIn(marks)
        BY <2>5 DEF Mark, DoneIn
      <3>2. Ranked(successors, entered)
        BY <3>1 DEF Ranked, IsRanking
      <3>3. successors[n] \in Seq(DOMAIN successors)
        BY <2>1 DEF IsGraph
      <3>4. ~inner.cycle
        BY <3>0
      <3> HIDE DEF n, entered, found
      <3>5. Completed(successors, successors[n], entered, inner.marks) /\ inner.marks \in Marks
        BY <2>2, <3>1, <3>2, <3>3, <3>4
      <3>6. n \in DOMAIN successors
        BY <2>1 DEF n
      <3>7. inner.marks[n] = "visiting"
        BY <3>5, <3>6, <3>1 DEF Completed, SameVisiting, entered
      <3>8. inner.marks[n] # "done"
        BY <3>7
      <3> HIDE DEF inner
      <3>9. Ranked(successors, left) /\ left \in Marks
        BY <3>5, <3>6, <3>8, RankOneMore DEF Completed, Mark
      <3>10. DoneIn(marks) \subseteq DoneIn(left)
        BY <3>1, <3>5, <3>6 DEF Completed, DoneIn
      <3>11. \A m \in DOMAIN successors : left[m] = "visiting" <=> marks[m] = "visiting"
        <4> TAKE m \in DOMAIN successors
        <4>1. CASE m = n
          BY <4>1, <3>5, <3>6, <1>3 DEF n
        <4>2. CASE m # n
          <5>1. left[m] = inner.marks[m] /\ entered[m] = marks[m]
            BY <4>2, <3>5 DEF entered
          <5>2. inner.marks[m] = "visiting" <=> entered[m] = "visiting"
            BY <3>5, <3>1 DEF Completed, SameVisiting
          <5> QED BY <5>1, <5>2
        <4> QED BY <4>1, <4>2
      <3>12. left[n] = "done"
        BY <3>5, <3>6
      <3>13. found = earlier[Tail(todo)][left]
        BY <3>0, <3>4
      <3> HIDE DEF left
      <3>14. Completed(successors, Tail(todo), left, found.marks) /\ found.marks \in Marks
        BY <2>1, <2>2, <3>9, <3>13 DEF found
      <3>15. n \in DoneIn(found.marks)
        BY <3>12, <3>14, <3>9, <3>6 DEF Completed, DoneIn
      <3>16. SameVisiting(marks, found.marks)
        BY <3>9, <3>11, <3>14 DEF Completed, SameVisiting
      <3>17. AllDone(todo, found.marks)
        BY <2>3, <3>14, <3>15 DEF Completed, DoneIn, n
      <3> QED BY <3>10, <3>14, <3>16, <3>17 DEF Completed, found
    <2> QED BY <2>4, <2>5
  <1> QED BY <1>1, <1>2, <1>3

LEMMA VisitType ==
    ASSUME NEW successors, IsGraph(successors), NEW fuel \in Nat
    PROVE  visit(successors)[fuel] \in Searches(successors)
PROOF
  <1> DEFINE Bad == {k \in Nat : visit(successors)[k] \notin Searches(successors)}
  <1>1. ASSUME Bad # {} PROVE FALSE
    <2>1. PICK k \in Bad : \A j \in Bad : k <= j
      BY <1>1, LeastIndex
    <2>2. CASE k = 0
      BY <2>1, <2>2, VisitIs, DeeperType
    <2>3. CASE k # 0
      <3>1. k - 1 \in Nat /\ visit(successors)[k - 1] \in Searches(successors) /\ k \in Nat \ {0}
        BY <2>1, <2>3
      <3> QED BY <2>1, <3>1, VisitIs, DeeperType
    <2> QED BY <2>2, <2>3
  <1> QED BY <1>1

LEMMA VisitSound ==
    ASSUME NEW successors, IsGraph(successors), IsFiniteSet(DOMAIN successors), NEW fuel \in Nat
    PROVE  Sound(successors, visit(successors)[fuel])
PROOF
  <1> DEFINE Bad == {k \in Nat : ~Sound(successors, visit(successors)[k])}
  <1>0. ASSUME NEW k \in Nat, NEW earlier,
               k = 0 \/ (earlier \in Searches(successors) /\ Sound(successors, earlier))
        PROVE  Sound(successors, Deeper(successors, k, earlier))
    <2> SUFFICES ASSUME NEW todo \in Seq(DOMAIN successors), NEW marks \in [DOMAIN successors -> Mark],
                        Ranked(successors, marks), ~Deeper(successors, k, earlier)[todo][marks].cycle
                 PROVE  Completed(successors, todo, marks, Deeper(successors, k, earlier)[todo][marks].marks)
      BY DEF Sound
    <2>1. Deeper(successors, k, earlier)[todo][marks] = Searched(successors, k, earlier, todo, marks)
      BY DEF Deeper
    <2> QED BY <1>0, <2>1, DeeperSound
  <1>1. ASSUME Bad # {} PROVE FALSE
    <2>1. PICK k \in Bad : \A j \in Bad : k <= j
      BY <1>1, LeastIndex
    <2>2. CASE k = 0
      BY <1>0, <2>1, <2>2, VisitIs
    <2>3. CASE k # 0
      <3>1. k - 1 \in Nat /\ Sound(successors, visit(successors)[k - 1]) /\ k \in Nat \ {0}
        BY <2>1, <2>3
      <3>2. visit(successors)[k - 1] \in Searches(successors)
        BY <3>1, VisitType
      <3> QED BY <1>0, <2>1, <3>1, <3>2, VisitIs
    <2> QED BY <2>2, <2>3
  <1> QED BY <1>1

(* A finite set as a sequence has its elements and no others. *)
LEMMA SetToSeqHasAll ==
    ASSUME NEW S, IsFiniteSet(S)
    PROVE  SetToSeq(S) \in Seq(S) /\ \A x \in S : \E i \in DOMAIN SetToSeq(S) : SetToSeq(S)[i] = x
PROOF
  <1> DEFINE n == Cardinality(S)
             f == SetToSeq(S)
  <1>1. n \in Nat /\ ExistsBijection(1 .. n, S)
    BY FS_CardinalityType
  <1>2. \E g \in [1 .. n -> S] : IsInjective(g)
    BY <1>1 DEF ExistsBijection, Bijection, Injection
  <1>3. f \in [1 .. n -> S] /\ IsInjective(f)
    BY <1>2, Zenon DEF SetToSeq
  <1> HIDE DEF f
  <1>4. f \in Injection(1 .. n, S)
    BY <1>3 DEF Injection
  <1>5. Cardinality(1 .. n) = n
    BY <1>1, FS_Interval
  <1>6. f \in Surjection(1 .. n, S)
    BY <1>4, <1>5, FS_Injection
  <1>7. f \in Seq(S)
    BY <1>1, <1>3
  <1>8. \A x \in S : \E i \in DOMAIN f : f[i] = x
    BY <1>3, <1>6 DEF Surjection
  <1> QED BY <1>7, <1>8 DEF f

\* A numbering of all nodes along which every edge goes down.
GoesDown(successors, rank) ==
    /\ rank \in [DOMAIN successors -> 1 .. Cardinality(DOMAIN successors)]
    /\ \A n \in DOMAIN successors : \A i \in DOMAIN successors[n] : rank[successors[n][i]] < rank[n]

(* When the search finds no cycle there is none: every finite graph it lets  *)
(* through has such a numbering (first_cycle_node).                          *)
LEMMA NoCycleGoesDown ==
    ASSUME NEW successors, IsGraph(successors), IsFiniteSet(DOMAIN successors), ~has_cycle(successors)
    PROVE  \E rank : GoesDown(successors, rank)
PROOF
  <1> DEFINE N == DOMAIN successors
             fresh == [n \in N |-> "unseen"]
             fuel == Fuel(successors)
             found == visit(successors)[fuel][SetToSeq(N)][fresh]
  <1>1. Cardinality(N) \in Nat
    BY FS_CardinalityType
  <1>2. fuel \in Nat
    BY <1>1 DEF Fuel
  <1>3. SetToSeq(N) \in Seq(N)
    BY SetToSeqHasAll
  <1>4. fresh \in [N -> Mark] /\ DoneIn(fresh) = {}
    BY DEF Mark, DoneIn
  <1>5. Ranked(successors, fresh)
    <2>1. IsRanking(successors, fresh, [n \in {} |-> 1])
      BY <1>4 DEF IsRanking
    <2> QED BY <2>1 DEF Ranked
  <1>6. ~found.cycle
    BY DEF has_cycle
  <1>7. found \in Outcomes(successors)
    <2>1. visit(successors)[fuel] \in Searches(successors)
      BY <1>2, VisitType
    <2> HIDE DEF fuel, fresh
    <2> QED BY <1>3, <1>4, <2>1 DEF Searches
  <1>8. Completed(successors, SetToSeq(N), fresh, found.marks)
    <2>1. Sound(successors, visit(successors)[fuel])
      BY <1>2, VisitSound
    <2> HIDE DEF fuel, fresh
    <2> QED BY <2>1, <1>3, <1>4, <1>5, <1>6 DEF Sound
  <1> HIDE DEF found, fresh, fuel
  <1>9. found.marks \in [N -> Mark]
    BY <1>7 DEF Outcomes
  <1>10. DoneIn(found.marks) = N
    <2>1. \A n \in N : found.marks[n] = "done"
      <3> TAKE n \in N
      <3>1. PICK i \in DOMAIN SetToSeq(N) : SetToSeq(N)[i] = n
        BY SetToSeqHasAll
      <3> QED BY <1>8, <3>1 DEF Completed, AllDone
    <2> QED BY <1>9, <2>1 DEF DoneIn
  <1>11. PICK rank : IsRanking(successors, found.marks, rank)
    BY <1>8 DEF Completed, Ranked
  <1>12. GoesDown(successors, rank)
    BY <1>10, <1>11 DEF IsRanking, GoesDown
  <1> QED BY <1>12

-----------------------------------------------------------------------------
(* Handoff *)

HandoffSpec == HandoffInit /\ [][HandoffNext]_handoffVars

UsedEdges == Routed("specialist_handoff")

\* The groups can be numbered so that every handoff went down.
Descends(rank) ==
    rank \in [Groups -> Nat] /\ \A e \in UsedEdges : rank[e[2]] < rank[e[1]]

HandoffInv ==
    /\ edges \subseteq Groups \X Groups
    /\ routing_events \in Seq(Groups \X Groups \X {"specialist_handoff", "specialist_result"})
    /\ inbox \in [Groups -> Seq([kind : {"specialist_handoff", "specialist_result"}, from : Groups])]
    /\ UsedEdges \subseteq edges
    /\ \E rank : Descends(rank)
    /\ \A g \in Groups : \A i \in DOMAIN inbox[g] :
         inbox[g][i].kind = "specialist_handoff" => <<inbox[g][i].from, g>> \in UsedEdges
    /\ \A e \in Routed("specialist_result") : <<e[2], e[1]>> \in UsedEdges

LEMMA HandoffInvInit == HandoffInit => HandoffInv
PROOF
  <1> SUFFICES ASSUME HandoffInit PROVE HandoffInv
    OBVIOUS
  <1>1. \A kind : Routed(kind) = {}
    BY DEF HandoffInit, Routed
  <1>2. Descends([g \in Groups |-> 0])
    BY <1>1 DEF Descends, UsedEdges
  <1>3. \E rank : Descends(rank)
    BY <1>2
  <1> QED BY <1>1, <1>3 DEF HandoffInit, HandoffInv, UsedEdges

(* Along the edges of a list without a cycle the groups go down. *)
LEMMA AcyclicDescends ==
    ASSUME edges \subseteq Groups \X Groups, ~first_cycle_node(edges)
    PROVE  \E rank \in [Groups -> Nat] : \A e \in edges : rank[e[2]] < rank[e[1]]
PROOF
  <1> DEFINE N == Nodes(edges)
             next(n) == {m \in N : <<n, m>> \in edges}
             successors == [n \in N |-> SetToSeq(next(n))]
  <1>1. N \subseteq Groups
    BY DEF Nodes
  <1>2. IsFiniteSet(N)
    BY <1>1, HandoffAssumption, FS_Subset
  <1> HIDE DEF N
  <1>3. \A n \in N : IsFiniteSet(next(n))
    BY <1>2, FS_Subset
  <1>4. \A n \in N : SetToSeq(next(n)) \in Seq(next(n)) /\ next(n) \subseteq N
    BY <1>3, SetToSeqHasAll
  <1>5. \A n \in N : SetToSeq(next(n)) \in Seq(N)
    <2> TAKE n \in N
    <2>1. PICK s, S : s = SetToSeq(next(n)) /\ S = next(n)
      OBVIOUS
    <2>2. s \in Seq(S) /\ S \subseteq N
      BY <1>4, <2>1
    <2>3. s \in Seq(N)
      BY <2>2
    <2> QED BY <2>1, <2>3
  <1>6. DOMAIN successors = N /\ \A n \in N : successors[n] = SetToSeq(next(n))
    OBVIOUS
  <1>7. ~has_cycle(successors)
    BY DEF first_cycle_node, N
  <1> HIDE DEF successors
  <1>8. IsGraph(successors)
    BY <1>5, <1>6 DEF IsGraph
  <1>9. PICK down : GoesDown(successors, down)
    BY <1>2, <1>6, <1>7, <1>8, NoCycleGoesDown
  <1>10. down \in [N -> 1 .. Cardinality(N)]
    BY <1>6, <1>9 DEF GoesDown
  <1> DEFINE rank == [g \in Groups |-> IF g \in N THEN down[g] ELSE 0]
  <1>11. Cardinality(N) \in Nat
    BY <1>2, FS_CardinalityType
  <1>12. rank \in [Groups -> Nat]
    BY <1>10, <1>11
  <1>13. ASSUME NEW e \in edges PROVE rank[e[2]] < rank[e[1]]
    <2>1. e = <<e[1], e[2]>> /\ e[1] \in N /\ e[2] \in N /\ e[2] \in next(e[1])
      BY DEF N, Nodes
    <2>2. PICK i \in DOMAIN SetToSeq(next(e[1])) : SetToSeq(next(e[1]))[i] = e[2]
      BY <2>1, <1>3, SetToSeqHasAll
    <2>3. down[e[2]] < down[e[1]]
      BY <2>1, <2>2, <1>6, <1>9 DEF GoesDown
    <2> QED BY <2>1, <2>3, <1>1
  <1> QED BY <1>12, <1>13

(* What a message adds to the edges that were used. *)
LEMMA RecordRoutes ==
    ASSUME HandoffInv, NEW from \in Groups, NEW to \in Groups,
           NEW kind \in {"specialist_handoff", "specialist_result"}, record(from, to, kind)
    PROVE  /\ routing_events' \in Seq(Groups \X Groups \X {"specialist_handoff", "specialist_result"})
           /\ Routed(kind)' = Routed(kind) \union {<<from, to>>}
           /\ \A other : other # kind => Routed(other)' = Routed(other)
PROOF
  <1> DEFINE n == Len(routing_events)
             event == <<from, to, kind>>
  <1>1. /\ routing_events \in Seq(Groups \X Groups \X {"specialist_handoff", "specialist_result"})
        /\ routing_events' = Append(routing_events, event)
    BY DEF HandoffInv, record
  <1>2. event \in Groups \X Groups \X {"specialist_handoff", "specialist_result"}
    OBVIOUS
  <1>3. routing_events' \in Seq(Groups \X Groups \X {"specialist_handoff", "specialist_result"})
    BY <1>1, <1>2
  <1>4. /\ DOMAIN routing_events' = DOMAIN routing_events \union {n + 1}
        /\ routing_events'[n + 1] = event /\ n + 1 \notin DOMAIN routing_events
        /\ \A i \in DOMAIN routing_events : routing_events'[i] = routing_events[i]
    BY <1>1, <1>2
  <1>5. event[1] = from /\ event[2] = to /\ event[3] = kind
    OBVIOUS
  <1> HIDE DEF event, n
  <1>6. Routed(kind)' = Routed(kind) \union {<<from, to>>}
    BY <1>4, <1>5 DEF Routed
  <1>7. \A other : other # kind => Routed(other)' = Routed(other)
    BY <1>4, <1>5 DEF Routed
  <1> QED BY <1>3, <1>6, <1>7

LEMMA HandOverKeepsInv ==
    ASSUME HandoffInv, NEW from \in Groups, NEW to \in Groups, NEW packet, HandOver(from, to, packet)
    PROVE  HandoffInv'
PROOF
  <1> DEFINE row == [kind |-> "specialist_handoff", from |-> from]
             Row == [kind : {"specialist_handoff", "specialist_result"}, from : Groups]
  <1>1. /\ ~first_cycle_node(edges) /\ <<from, to>> \in edges
        /\ record(from, to, "specialist_handoff")
        /\ inbox' = [inbox EXCEPT ![to] = Append(@, row)] /\ edges' = edges
    BY DEF HandOver, route_handoff, authorize_a2a, is_allowed, deliver_handoff, record
  <1>2. /\ routing_events' \in Seq(Groups \X Groups \X {"specialist_handoff", "specialist_result"})
        /\ UsedEdges' = UsedEdges \union {<<from, to>>}
        /\ Routed("specialist_result")' = Routed("specialist_result")
    BY <1>1, RecordRoutes DEF UsedEdges
  <1>3. edges \subseteq Groups \X Groups /\ UsedEdges \subseteq edges /\ inbox \in [Groups -> Seq(Row)]
    BY DEF HandoffInv
  <1>4. UsedEdges' \subseteq edges'
    BY <1>1, <1>2, <1>3
  <1>5. PICK rank \in [Groups -> Nat] : \A e \in edges : rank[e[2]] < rank[e[1]]
    BY <1>1, <1>3, AcyclicDescends
  <1>6. Descends(rank)'
    BY <1>1, <1>4, <1>5 DEF Descends
  <1>7. row \in Row
    OBVIOUS
  <1>8. inbox' \in [Groups -> Seq(Row)]
    <2> HIDE DEF Row, row
    <2> QED BY <1>1, <1>3, <1>7
  <1>9. ASSUME NEW g \in Groups, NEW i \in DOMAIN inbox'[g], inbox'[g][i].kind = "specialist_handoff"
        PROVE  <<inbox'[g][i].from, g>> \in UsedEdges'
    <2>0. inbox[g] \in Seq(Row)
      BY <1>3
    <2>1. CASE i \in DOMAIN inbox[g]
      <3>1. inbox'[g][i] = inbox[g][i]
        <4> HIDE DEF Row, row
        <4> QED BY <1>1, <1>3, <1>7, <2>0, <2>1
      <3> QED BY <1>2, <1>9, <2>1, <3>1 DEF HandoffInv
    <2>2. CASE i \notin DOMAIN inbox[g]
      <3>1. g = to /\ inbox'[g][i] = row
        <4> HIDE DEF Row, row
        <4> QED BY <1>1, <1>3, <1>7, <2>0, <2>2
      <3> QED BY <1>2, <3>1
    <2> QED BY <2>1, <2>2
  <1>10. \A e \in Routed("specialist_result")' : <<e[2], e[1]>> \in UsedEdges'
    BY <1>2 DEF HandoffInv
  <1> QED BY <1>1, <1>2, <1>3, <1>4, <1>6, <1>8, <1>9, <1>10 DEF HandoffInv

LEMMA BringBackKeepsInv ==
    ASSUME HandoffInv, NEW g \in Groups, NEW i, BringBack(g, i)
    PROVE  HandoffInv'
PROOF
  <1> DEFINE to == inbox[g][i].from
             row == [kind |-> "specialist_result", from |-> g]
             Row == [kind : {"specialist_handoff", "specialist_result"}, from : Groups]
  <1>1. /\ i \in DOMAIN inbox[g] /\ inbox[g][i].kind = "specialist_handoff"
        /\ record(g, to, "specialist_result")
        /\ inbox' = [inbox EXCEPT ![to] = Append(@, row)] /\ edges' = edges
    BY DEF BringBack, route_result, deliver_result, record
  <1>2. edges \subseteq Groups \X Groups /\ UsedEdges \subseteq edges /\ inbox \in [Groups -> Seq(Row)]
    BY DEF HandoffInv
  <1>3. inbox[g][i] \in Row
    <2> HIDE DEF Row
    <2>1. inbox[g] \in Seq(Row)
      BY <1>2
    <2> QED BY <1>1, <2>1
  <1>4. to \in Groups /\ <<to, g>> \in UsedEdges
    BY <1>1, <1>3 DEF HandoffInv
  <1> HIDE DEF to
  <1>5. /\ routing_events' \in Seq(Groups \X Groups \X {"specialist_handoff", "specialist_result"})
        /\ UsedEdges' = UsedEdges
        /\ Routed("specialist_result")' = Routed("specialist_result") \union {<<g, to>>}
    BY <1>1, <1>4, RecordRoutes DEF UsedEdges
  <1>6. \E rank : Descends(rank)'
    BY <1>5 DEF HandoffInv, Descends
  <1>7. row \in Row
    OBVIOUS
  <1>8. inbox' \in [Groups -> Seq(Row)]
    <2> HIDE DEF Row, row
    <2> QED BY <1>1, <1>2, <1>4, <1>7
  <1>9. ASSUME NEW h \in Groups, NEW j \in DOMAIN inbox'[h], inbox'[h][j].kind = "specialist_handoff"
        PROVE  <<inbox'[h][j].from, h>> \in UsedEdges'
    <2>0. inbox[h] \in Seq(Row)
      BY <1>2
    <2>1. CASE j \in DOMAIN inbox[h]
      <3>1. inbox'[h][j] = inbox[h][j]
        <4> HIDE DEF Row, row
        <4> QED BY <1>1, <1>2, <1>7, <2>0, <2>1
      <3> QED BY <1>5, <1>9, <2>1, <3>1 DEF HandoffInv
    <2>2. CASE j \notin DOMAIN inbox[h]
      <3>1. inbox'[h][j] = row
        <4> HIDE DEF Row, row
        <4> QED BY <1>1, <1>2, <1>7, <2>0, <2>2
      <3> QED BY <1>9, <3>1
    <2> QED BY <2>1, <2>2
  <1>10. \A e \in Routed("specialist_result")' : <<e[2], e[1]>> \in UsedEdges'
    <2> SUFFICES ASSUME NEW e \in Routed("specialist_result")' PROVE <<e[2], e[1]>> \in UsedEdges'
      OBVIOUS
    <2>1. CASE e \in Routed("specialist_result")
      BY <2>1, <1>5 DEF HandoffInv
    <2>2. CASE e = <<g, to>>
      BY <2>2, <1>4, <1>5
    <2> QED BY <2>1, <2>2, <1>5
  <1> QED BY <1>1, <1>2, <1>5, <1>6, <1>8, <1>9, <1>10 DEF HandoffInv

LEMMA HandoffInvStep == HandoffInv /\ [HandoffNext]_handoffVars => HandoffInv'
PROOF
  <1> SUFFICES ASSUME HandoffInv, [HandoffNext]_handoffVars PROVE HandoffInv'
    OBVIOUS
  <1>1. ASSUME NEW from \in Groups, NEW to \in Groups, allow(from, to) PROVE HandoffInv'
    <2>1. /\ edges' = edges \union {<<from, to>>} /\ inbox' = inbox /\ routing_events' = routing_events
      BY <1>1 DEF allow
    <2>2. \A kind : Routed(kind)' = Routed(kind)
      BY <2>1 DEF Routed
    <2>3. UsedEdges' = UsedEdges
      BY <2>2 DEF UsedEdges
    <2>4. \E rank : Descends(rank)'
      BY <2>3 DEF HandoffInv, Descends
    <2>5. edges' \subseteq Groups \X Groups /\ UsedEdges' \subseteq edges'
      BY <2>1, <2>3 DEF HandoffInv
    <2>6. \A e \in Routed("specialist_result")' : <<e[2], e[1]>> \in UsedEdges'
      BY <2>2, <2>3 DEF HandoffInv
    <2>7. \A g \in Groups : \A i \in DOMAIN inbox'[g] :
            inbox'[g][i].kind = "specialist_handoff" => <<inbox'[g][i].from, g>> \in UsedEdges'
      BY <2>1, <2>3 DEF HandoffInv
    <2> QED BY <2>1, <2>4, <2>5, <2>6, <2>7 DEF HandoffInv
  <1>2. ASSUME UNCHANGED <<edges, inbox, routing_events>> PROVE HandoffInv'
    <2>1. \A kind : Routed(kind)' = Routed(kind)
      BY <1>2 DEF Routed
    <2>2. UsedEdges' = UsedEdges
      BY <2>1 DEF UsedEdges
    <2>3. \E rank : Descends(rank)'
      BY <2>2 DEF HandoffInv, Descends
    <2> QED BY <1>2, <2>1, <2>2, <2>3 DEF HandoffInv
  <1>3. ASSUME NEW g \in Groups, NEW row \in Rows, Emit(g, row) PROVE HandoffInv'
    BY <1>2, <1>3 DEF Emit
  <1>4. CASE UNCHANGED handoffVars
    BY <1>2, <1>4 DEF handoffVars
  <1> QED BY <1>1, <1>3, <1>4, HandOverKeepsInv, BringBackKeepsInv DEF HandoffNext

\* For every finite set of groups, a chain of handoffs ends: the edges that
\* were ever used form no cycle, though edges are allowed between handoffs,
\* and results only come back to those who asked (authorize_a2a).
THEOREM HandoffsEnd == HandoffSpec => []HandoffsTerminate
PROOF
  <1>1. HandoffInv => HandoffsTerminate
    <2> SUFFICES ASSUME HandoffInv PROVE HandoffsTerminate
      OBVIOUS
    <2>1. PICK rank : Descends(rank)
      BY DEF HandoffInv
    <2>2. ASSUME NEW e \in UsedEdges
          PROVE  \E S \in SUBSET Groups : e[2] \in S /\ e[1] \notin S /\ Closed(S, UsedEdges)
      <3> DEFINE S == {g \in Groups : rank[g] <= rank[e[2]]}
      <3>1. \A d \in UsedEdges : d[1] \in Groups /\ d[2] \in Groups
        BY DEF HandoffInv
      <3>2. \A g \in Groups : rank[g] \in Nat
        BY <2>1 DEF Descends
      <3>3. \A d \in UsedEdges : rank[d[2]] < rank[d[1]]
        BY <2>1 DEF Descends
      <3>4. e[2] \in S /\ e[1] \notin S
        BY <3>1, <3>2, <3>3
      <3>5. Closed(S, UsedEdges)
        BY <3>1, <3>2, <3>3 DEF Closed
      <3> QED BY <3>4, <3>5
    <2>3. \A e \in Routed("specialist_result") : <<e[2], e[1]>> \in UsedEdges
      BY DEF HandoffInv
    <2> QED BY <2>2, <2>3 DEF HandoffsTerminate, UsedEdges
  <1> QED BY <1>1, HandoffInvInit, HandoffInvStep, PTL DEF HandoffSpec

-----------------------------------------------------------------------------
(* Manifests *)

ManifestSpec == ManifestInit /\ [][ManifestNext]_manifestVars

ModuleEntry == [id : ModuleIds, depends_on : SUBSET ModuleIds]
FragmentEntry == [id : FragmentIds, owner_module : ModuleIds, order : Orders, depends_on : SUBSET FragmentIds]

ManifestTypeOK == platform \in Seq(ModuleEntry) /\ fragments \in Seq(FragmentEntry)

LEMMA ManifestTypeStep == ManifestTypeOK /\ [ManifestNext]_manifestVars => ManifestTypeOK'
PROOF
  <1> SUFFICES ASSUME ManifestTypeOK, [ManifestNext]_manifestVars PROVE ManifestTypeOK'
    OBVIOUS
  <1>1. ASSUME NEW id \in ModuleIds, NEW deps \in SUBSET ModuleIds, AddModule(id, deps)
        PROVE  ManifestTypeOK'
    <2> DEFINE entry == [id |-> id, depends_on |-> deps]
    <2>1. entry \in ModuleEntry
      BY DEF ModuleEntry
    <2>2. platform' = Append(platform, entry) /\ fragments' = fragments
      BY <1>1 DEF AddModule
    <2> HIDE DEF entry
    <2> QED BY <2>1, <2>2 DEF ManifestTypeOK
  <1>2. ASSUME NEW id \in FragmentIds, NEW owner \in ModuleIds, NEW order \in Orders,
               NEW deps \in SUBSET FragmentIds, AddFragment(id, owner, order, deps)
        PROVE  ManifestTypeOK'
    <2> DEFINE entry == [id |-> id, owner_module |-> owner, order |-> order, depends_on |-> deps]
    <2>1. entry \in FragmentEntry
      BY DEF FragmentEntry
    <2>2. fragments' = Append(fragments, entry) /\ platform' = platform
      BY <1>2 DEF AddFragment
    <2> HIDE DEF entry
    <2> QED BY <2>1, <2>2 DEF ManifestTypeOK
  <1>3. CASE ChangeProduct
    BY <1>3 DEF ChangeProduct, ManifestTypeOK
  <1>4. CASE UNCHANGED manifestVars
    BY <1>4 DEF manifestVars, ManifestTypeOK
  <1> QED BY <1>1, <1>2, <1>3, <1>4 DEF ManifestNext

\* What the lemmas below need of the entries of a manifest.
AreEntries(entries) == \E S : entries \in Seq(S)

LEMMA IdsFinite ==
    ASSUME NEW entries, AreEntries(entries)
    PROVE  IsFiniteSet(Ids(entries)) /\ \A i \in DOMAIN entries : entries[i].id \in Ids(entries)
PROOF
  <1>1. DOMAIN entries = 1 .. Len(entries) /\ Len(entries) \in Nat
    BY DEF AreEntries
  <1>2. IsFiniteSet(DOMAIN entries)
    BY <1>1, FS_Interval
  <1> DEFINE f == [i \in DOMAIN entries |-> entries[i].id]
  <1>3. f \in Surjection(DOMAIN entries, Ids(entries))
    BY DEF Surjection, Ids
  <1> HIDE DEF f
  <1>4. IsFiniteSet(Ids(entries))
    BY <1>2, <1>3, FS_Surjection
  <1> QED BY <1>4 DEF Ids

(* Without duplicates the last entry of an id is its only one. *)
LEMMA LastIsOnly ==
    ASSUME NEW entries, AreEntries(entries), ~Duplicates(entries), NEW i \in DOMAIN entries
    PROVE  LastOf(entries, entries[i].id) = entries[i]
PROOF
  <1>1. DOMAIN entries \subseteq Int
    BY DEF AreEntries
  <1>2. \A j \in DOMAIN entries : entries[j].id = entries[i].id => j = i
    BY <1>1 DEF Duplicates
  <1> DEFINE IsLast(k) == /\ entries[k].id = entries[i].id
                        /\ \A j \in DOMAIN entries : entries[j].id = entries[i].id => j <= k
  <1>3. IsLast(i)
    BY <1>1, <1>2
  <1>4. \A k \in DOMAIN entries : IsLast(k) => k = i
    BY <1>2
  <1>5. LastOf(entries, entries[i].id) = entries[CHOOSE k \in DOMAIN entries : IsLast(k)]
    BY DEF LastOf
  <1>6. (CHOOSE k \in DOMAIN entries : IsLast(k)) = i
    <2> HIDE DEF IsLast
    <2> QED BY <1>3, <1>4
  <1> QED BY <1>5, <1>6

(* Without duplicates, unknown ids and a cycle the entries can be taken one  *)
(* after another, each after all it depends on.                              *)
LEMMA EntriesGoUp ==
    ASSUME NEW entries, AreEntries(entries), ~Duplicates(entries), ~has_cycle(KnownEdges(entries)),
           \A i \in DOMAIN entries : entries[i].depends_on \subseteq Ids(entries)
    PROVE  \E rank \in [Ids(entries) -> 1 .. Cardinality(Ids(entries))] :
              \A i \in DOMAIN entries : \A dep \in entries[i].depends_on :
                 dep \in Ids(entries) /\ rank[dep] < rank[entries[i].id]
PROOF
  <1> DEFINE N == Ids(entries)
             next(id) == LastOf(entries, id).depends_on \intersect N
             successors == KnownEdges(entries)
  <1>1. IsFiniteSet(N)
    BY IdsFinite
  <1>2. DOMAIN successors = N /\ \A id \in N : successors[id] = SetToSeq(next(id))
    BY DEF KnownEdges
  <1>3. ~has_cycle(successors)
    OBVIOUS
  <1> HIDE DEF N, successors
  <1>4. \A id \in N : IsFiniteSet(next(id))
    BY <1>1, FS_Subset
  <1>5. \A id \in N : SetToSeq(next(id)) \in Seq(N)
    <2> TAKE id \in N
    <2>1. PICK s, S : s = SetToSeq(next(id)) /\ S = next(id)
      OBVIOUS
    <2>2. s \in Seq(S) /\ S \subseteq N
      BY <1>4, <2>1, SetToSeqHasAll
    <2>3. s \in Seq(N)
      BY <2>2
    <2> QED BY <2>1, <2>3
  <1>6. IsGraph(successors)
    BY <1>2, <1>5 DEF IsGraph
  <1>7. PICK rank : GoesDown(successors, rank)
    BY <1>1, <1>2, <1>3, <1>6, NoCycleGoesDown
  <1>8. rank \in [N -> 1 .. Cardinality(N)]
    BY <1>2, <1>7 DEF GoesDown
  <1>9. ASSUME NEW i \in DOMAIN entries, NEW dep \in entries[i].depends_on
        PROVE  dep \in N /\ rank[dep] < rank[entries[i].id]
    <2>1. entries[i].id \in N /\ dep \in N
      BY IdsFinite DEF N
    <2>2. dep \in next(entries[i].id)
      BY <2>1, LastIsOnly
    <2>3. PICK j \in DOMAIN SetToSeq(next(entries[i].id)) : SetToSeq(next(entries[i].id))[j] = dep
      BY <1>4, <2>1, <2>2, SetToSeqHasAll
    <2>4. rank[dep] < rank[entries[i].id]
      BY <1>2, <1>7, <2>1, <2>3 DEF GoesDown
    <2> QED BY <2>1, <2>4
  <1> QED BY <1>8, <1>9 DEF N

LEMMA IntervalCounts == \A n \in Nat : IsFiniteSet(1 .. n) /\ Cardinality(1 .. n) = n
PROOF
  <1> TAKE n \in Nat
  <1>1. IsFiniteSet(1 .. n) /\ Cardinality(1 .. n) = IF 1 > n THEN 0 ELSE n - 1 + 1
    BY FS_Interval
  <1> QED BY <1>1

\* The sort of fragments, where no id is there twice: what comes before a
\* fragment, itself included, and with that its place.
Before(frags, i, j) ==
    frags[i].order < frags[j].order \/ (frags[i].order = frags[j].order /\ i <= j)
UpTo(frags, i) == {j \in DOMAIN frags : Before(frags, j, i)}
PlaceOf(frags, i) == Cardinality(UpTo(frags, i))

AreFragments(frags) == AreEntries(frags) /\ \A i \in DOMAIN frags : frags[i].order \in Nat

LEMMA PlaceType ==
    ASSUME NEW frags, AreFragments(frags), NEW i \in DOMAIN frags
    PROVE  IsFiniteSet(UpTo(frags, i)) /\ PlaceOf(frags, i) \in 1 .. Len(frags)
PROOF
  <1>1. DOMAIN frags = 1 .. Len(frags) /\ Len(frags) \in Nat
    BY DEF AreFragments, AreEntries
  <1>2. IsFiniteSet(DOMAIN frags) /\ Cardinality(DOMAIN frags) = Len(frags)
    BY <1>1, IntervalCounts
  <1>3. UpTo(frags, i) \subseteq DOMAIN frags /\ i \in UpTo(frags, i)
    BY <1>1 DEF UpTo, Before, AreFragments
  <1>4. IsFiniteSet(UpTo(frags, i)) /\ Cardinality(UpTo(frags, i)) <= Len(frags)
    BY <1>2, <1>3, FS_Subset
  <1>5. Cardinality(UpTo(frags, i)) \in Nat /\ Cardinality(UpTo(frags, i)) # 0
    BY <1>3, <1>4, FS_CardinalityType, FS_EmptySet
  <1> QED BY <1>1, <1>4, <1>5 DEF PlaceOf

(* Who comes before another has the lower place. *)
LEMMA PlaceGrows ==
    ASSUME NEW frags, AreFragments(frags), NEW i \in DOMAIN frags, NEW j \in DOMAIN frags, i # j,
           Before(frags, i, j)
    PROVE  PlaceOf(frags, i) < PlaceOf(frags, j)
PROOF
  <1>1. DOMAIN frags \subseteq Int
    BY DEF AreFragments, AreEntries
  <1>2. UpTo(frags, i) \subseteq UpTo(frags, j)
    BY <1>1 DEF UpTo, Before, AreFragments
  <1>3. j \in UpTo(frags, j) /\ j \notin UpTo(frags, i)
    BY <1>1 DEF UpTo, Before, AreFragments
  <1>4. IsFiniteSet(UpTo(frags, j)) /\ PlaceOf(frags, i) \in Int /\ PlaceOf(frags, j) \in Int
    BY PlaceType
  <1>5. PlaceOf(frags, i) <= PlaceOf(frags, j) /\ (PlaceOf(frags, j) = PlaceOf(frags, i) => UpTo(frags, j) = UpTo(frags, i))
    BY <1>2, <1>4, FS_Subset DEF PlaceOf
  <1> QED BY <1>3, <1>4, <1>5

LEMMA PlaceIsOwn ==
    ASSUME NEW frags, AreFragments(frags), NEW i \in DOMAIN frags, NEW j \in DOMAIN frags,
           PlaceOf(frags, i) = PlaceOf(frags, j)
    PROVE  i = j
PROOF
  <1>1. DOMAIN frags \subseteq Int /\ frags[i].order \in Nat /\ frags[j].order \in Nat
    BY DEF AreFragments, AreEntries
  <1>2. Before(frags, i, j) \/ Before(frags, j, i)
    BY <1>1 DEF Before
  <1>3. PlaceOf(frags, i) \in Int /\ PlaceOf(frags, j) \in Int
    BY PlaceType
  <1> QED BY <1>2, <1>3, PlaceGrows

LEMMA PlacesTaken ==
    ASSUME NEW frags, AreFragments(frags), NEW k \in 1 .. Len(frags)
    PROVE  \E i \in DOMAIN frags : PlaceOf(frags, i) = k
PROOF
  <1> DEFINE n == Len(frags)
             f == [i \in 1 .. n |-> PlaceOf(frags, i)]
  <1>1. DOMAIN frags = 1 .. n /\ n \in Nat
    BY DEF AreFragments, AreEntries
  <1>2. f \in [1 .. n -> 1 .. n]
    BY <1>1, PlaceType
  <1>3. IsInjective(f)
    <2> SUFFICES ASSUME NEW i \in 1 .. n, NEW j \in 1 .. n, f[i] = f[j] PROVE i = j
      BY <1>1 DEF IsInjective
    <2> QED BY <1>1, PlaceIsOwn
  <1>4. IsFiniteSet(1 .. n)
    BY <1>1, FS_Interval
  <1> HIDE DEF f, n
  <1>5. f \in Injection(1 .. n, 1 .. n)
    BY <1>2, <1>3 DEF Injection
  <1>6. f \in Surjection(1 .. n, 1 .. n)
    BY <1>4, <1>5, FS_Injection
  <1>7. PICK i \in 1 .. n : f[i] = k
    BY <1>6 DEF Surjection, n
  <1> QED BY <1>1, <1>7 DEF f

(* Every fragment is at its place. *)
LEMMA SortedByPlace ==
    ASSUME NEW frags, AreFragments(frags), ~Duplicates(frags)
    PROVE  /\ DOMAIN FirstByOrder(frags) = 1 .. Len(frags)
           /\ \A i \in DOMAIN frags : FirstByOrder(frags)[PlaceOf(frags, i)] = frags[i]
PROOF
  <1> DEFINE first == {i \in DOMAIN frags : \A j \in DOMAIN frags : frags[j].id = frags[i].id => i <= j}
  <1>1. DOMAIN frags = 1 .. Len(frags) /\ Len(frags) \in Nat
    BY DEF AreFragments, AreEntries
  <1>2. first = DOMAIN frags
    BY <1>1 DEF Duplicates
  <1>3. Cardinality(first) = Len(frags)
    BY <1>1, <1>2, IntervalCounts
  <1>4. FirstByOrder(frags) =
          [k \in 1 .. Cardinality(first) |->
             frags[CHOOSE i \in first : Cardinality({j \in first : Before(frags, j, i)}) = k]]
    BY DEF FirstByOrder, Before
  <1> HIDE DEF first
  <1>5. FirstByOrder(frags) = [k \in 1 .. Len(frags) |-> frags[CHOOSE i \in DOMAIN frags : PlaceOf(frags, i) = k]]
    BY <1>2, <1>3, <1>4 DEF PlaceOf, UpTo
  <1>6. ASSUME NEW i \in DOMAIN frags PROVE FirstByOrder(frags)[PlaceOf(frags, i)] = frags[i]
    <2>1. PlaceOf(frags, i) \in 1 .. Len(frags)
      BY PlaceType
    <2>2. \A j \in DOMAIN frags : PlaceOf(frags, j) = PlaceOf(frags, i) => j = i
      BY PlaceIsOwn
    <2>3. (CHOOSE j \in DOMAIN frags : PlaceOf(frags, j) = PlaceOf(frags, i)) = i
      BY <2>2
    <2> QED BY <1>5, <2>1, <2>3
  <1> QED BY <1>5, <1>6

(* Without duplicates a prompt has every fragment once, where the sort puts  *)
(* it.                                                                       *)
LEMMA PromptByPlace ==
    ASSUME NEW frags, AreFragments(frags), ~Duplicates(frags), NEW shown, shown = render_prompt(frags)
    PROVE  /\ DOMAIN shown = 1 .. Len(frags) /\ Len(shown) = Len(frags)
           /\ Range(shown) = Ids(frags)
           /\ \A i \in DOMAIN frags : (CHOOSE k \in DOMAIN shown : shown[k] = frags[i].id) = PlaceOf(frags, i)
PROOF
  <1>1. DOMAIN shown = 1 .. Len(frags) /\ Len(frags) \in Nat
    BY SortedByPlace DEF render_prompt, AreFragments, AreEntries
  <1>2. Len(shown) = Len(frags)
    <2>1. \E S : shown \in [1 .. Len(frags) -> S]
      <3>1. shown \in [1 .. Len(frags) -> {shown[k] : k \in 1 .. Len(frags)}]
        <4>1. shown = [k \in 1 .. Len(frags) |-> FirstByOrder(frags)[k].id]
          BY SortedByPlace DEF render_prompt
        <4> QED BY <4>1
      <3> QED BY <3>1
    <2>2. PICK S : shown \in Seq(S)
      BY <1>1, <2>1
    <2> QED BY <1>1, <2>2
  <1>3. \A i \in DOMAIN frags : PlaceOf(frags, i) \in DOMAIN shown /\ shown[PlaceOf(frags, i)] = frags[i].id
    BY <1>1, PlaceType, SortedByPlace DEF render_prompt
  <1>4. \A k \in DOMAIN shown : \E i \in DOMAIN frags : k = PlaceOf(frags, i)
    BY <1>1, PlacesTaken
  <1>5. Range(shown) = Ids(frags)
    BY <1>3, <1>4 DEF Range, Ids
  <1>6. ASSUME NEW i \in DOMAIN frags
        PROVE  (CHOOSE k \in DOMAIN shown : shown[k] = frags[i].id) = PlaceOf(frags, i)
    <2>1. \A k \in DOMAIN shown : shown[k] = frags[i].id => k = PlaceOf(frags, i)
      <3> TAKE k \in DOMAIN shown
      <3> HAVE shown[k] = frags[i].id
      <3>1. PICK j \in DOMAIN frags : k = PlaceOf(frags, j)
        BY <1>4
      <3>2. frags[j].id = frags[i].id
        BY <1>3, <3>1
      <3>3. DOMAIN frags \subseteq Int
        BY DEF AreFragments, AreEntries
      <3>4. j = i
        BY <3>2, <3>3 DEF Duplicates
      <3> QED BY <3>1, <3>4
    <2>2. PlaceOf(frags, i) \in DOMAIN shown /\ shown[PlaceOf(frags, i)] = frags[i].id
      BY <1>3
    <2> QED BY <2>1, <2>2
  <1> QED BY <1>1, <1>2, <1>5, <1>6

(* What a report without diagnostics says. *)
LEMMA NothingDiagnosed ==
    ASSUME run_compatibility_check
    PROVE  /\ ~Duplicates(platform) /\ ~has_cycle(KnownEdges(platform))
           /\ \A i \in DOMAIN platform : platform[i].depends_on \subseteq Ids(platform)
           /\ product.enabled_modules \subseteq Ids(platform)
           /\ ~Duplicates(fragments)
           /\ \A i \in DOMAIN fragments : fragments[i].depends_on \subseteq Ids(fragments)
           /\ \A i \in DOMAIN fragments : \A dep \in fragments[i].depends_on \intersect Ids(fragments) :
                ~InvalidOrdering(fragments, i, dep)
PROOF
  <1>1. /\ validate_module_graph(platform) = {}
        /\ validate_enabled_modules(product.enabled_modules, platform) = {}
        /\ validate_prompt_fragments(fragments, platform) = {}
    BY DEF run_compatibility_check, build_report
  <1>2. \A code : Diagnose(TRUE, code) # {}
    BY DEF Diagnose
  <1> QED BY <1>1, <1>2 DEF validate_module_graph, validate_enabled_modules, validate_prompt_fragments, Diagnose

\* A release that passes the compatibility check can be put together, whatever
\* ids, orders, dependencies and products the files have: its modules can be
\* started one after another, and a prompt has every fragment once, after all
\* it depends on (first_cycle_node, validate_prompt_fragments, render_prompt).
THEOREM ReleaseAssembles == ManifestSpec => []PassedReleaseAssembles
PROOF
  <1>1. ManifestInit => ManifestTypeOK
    BY DEF ManifestInit, ManifestTypeOK
  <1>2. ManifestTypeOK => PassedReleaseAssembles
    <2> SUFFICES ASSUME ManifestTypeOK, run_compatibility_check PROVE PassedReleaseAssembles
      BY DEF PassedReleaseAssembles
    <2> DEFINE shown == generate(fragments).rendered_prompt
    <2>1. AreEntries(platform)
      BY DEF ManifestTypeOK, AreEntries
    <2>2. \E rank \in [Ids(platform) -> 1 .. Cardinality(Ids(platform))] :
             \A i \in DOMAIN platform : \A dep \in platform[i].depends_on :
                dep \in Ids(platform) /\ rank[dep] < rank[platform[i].id]
      BY <2>1, NothingDiagnosed, EntriesGoUp
    <2>3. AreFragments(fragments)
      <3>1. AreEntries(fragments)
        BY DEF ManifestTypeOK, AreEntries
      <3>2. \A i \in DOMAIN fragments : fragments[i] \in FragmentEntry
        BY DEF ManifestTypeOK
      <3> QED BY <3>1, <3>2, ManifestAssumption DEF FragmentEntry, AreFragments
    <2>4. shown = render_prompt(fragments)
      BY DEF generate
    <2> HIDE DEF shown
    <2>5. /\ Len(shown) = Len(fragments) /\ Range(shown) = Ids(fragments)
          /\ \A i \in DOMAIN fragments :
               (CHOOSE k \in DOMAIN shown : shown[k] = fragments[i].id) = PlaceOf(fragments, i)
      BY <2>3, <2>4, NothingDiagnosed, PromptByPlace
    <2>6. ASSUME NEW i \in DOMAIN fragments, NEW dep \in fragments[i].depends_on
          PROVE  /\ dep \in Ids(fragments)
                 /\ (CHOOSE k \in DOMAIN shown : shown[k] = dep)
                       < (CHOOSE k \in DOMAIN shown : shown[k] = fragments[i].id)
      <3>1. dep \in Ids(fragments) /\ ~InvalidOrdering(fragments, i, dep)
        BY NothingDiagnosed
      <3>2. PICK d \in DOMAIN fragments : dep = fragments[d].id
        BY <3>1 DEF Ids
      <3>3. LastOf(fragments, dep) = fragments[d]
        BY <2>3, <3>2, NothingDiagnosed, LastIsOnly DEF AreFragments
      <3>4. fragments[d].order < fragments[i].order
        BY <2>3, <3>1, <3>3 DEF InvalidOrdering, AreFragments
      <3>5. Before(fragments, d, i) /\ d # i
        BY <2>3, <3>4 DEF Before, AreFragments
      <3>6. PlaceOf(fragments, d) < PlaceOf(fragments, i)
        BY <2>3, <3>5, PlaceGrows
      <3> QED BY <2>5, <3>1, <3>2, <3>6
    <2> QED BY <2>2, <2>5, <2>6, NothingDiagnosed DEF PassedReleaseAssembles, shown
  <1> QED BY <1>1, <1>2, ManifestTypeStep, PTL DEF ManifestSpec

-----------------------------------------------------------------------------
(* Recurrence *)

RecurrenceSpec == RecurrenceInit /\ [][RecurrenceNext]_recurrenceVars

\* What the clock of a zone reads at an instant.
Reading(tz, u) == u + OffsetAt(tz, u)

Changes(tz) == Len(Zones[tz].changes)

\* The k-th stretch between two changes of a clock has the instant u.
InStretch(tz, k, u) ==
    /\ k \in 0 .. Changes(tz)
    /\ k # 0 => ChangeAt(tz, k) <= u
    /\ k # Changes(tz) => u < ChangeAt(tz, k + 1)

LEMMA LargestIndex ==
    ASSUME NEW n \in Nat, NEW S \in SUBSET (0 .. n), S # {} PROVE \E k \in S : \A j \in S : j <= k
PROOF
  <1> DEFINE T == {m \in Nat : n - m \in S}
  <1>1. PICK s \in S : TRUE
    OBVIOUS
  <1>2. n - s \in T
    BY <1>1
  <1>3. PICK m \in T : \A j \in T : m <= j
    <2> HIDE DEF T
    <2>1. T \in SUBSET Nat
      BY DEF T
    <2> QED BY <1>2, <2>1, LeastIndex
  <1>4. \A j \in S : n - j \in T
    OBVIOUS
  <1>5. n - m \in S /\ \A j \in S : j <= n - m
    BY <1>3, <1>4
  <1> QED BY <1>5

LEMMA ClockType ==
    ASSUME NEW tz \in DOMAIN Zones
    PROVE  /\ IsClock(tz) /\ Changes(tz) \in Nat /\ DOMAIN Zones[tz].changes = 1 .. Changes(tz)
           /\ \A i \in 1 .. Changes(tz) : ChangeAt(tz, i) \in Int
           /\ \A i \in 0 .. Changes(tz) : OffsetIn(tz, i) \in Int
PROOF
  <1>1. IsClock(tz)
    BY RecurrenceAssumption
  <1>2. Zones[tz].changes \in Seq([at : Int, offset : Int]) /\ Zones[tz].base \in Int
    BY <1>1 DEF IsClock
  <1>3. Changes(tz) \in Nat /\ DOMAIN Zones[tz].changes = 1 .. Changes(tz)
    BY <1>2 DEF Changes
  <1>4. \A i \in 1 .. Changes(tz) : Zones[tz].changes[i] \in [at : Int, offset : Int]
    BY <1>2, <1>3, ElementOfSeq DEF Changes
  <1>5. \A i \in 1 .. Changes(tz) : ChangeAt(tz, i) \in Int /\ Zones[tz].changes[i].offset \in Int
    BY <1>4 DEF ChangeAt
  <1>6. \A i \in 0 .. Changes(tz) : OffsetIn(tz, i) \in Int
    <2> TAKE i \in 0 .. Changes(tz)
    <2>1. CASE i = 0
      BY <1>2, <2>1 DEF OffsetIn
    <2>2. CASE i # 0
      BY <1>3, <1>5, <2>2 DEF OffsetIn
    <2> QED BY <2>1, <2>2
  <1> QED BY <1>1, <1>3, <1>5, <1>6

(* How the changes of a clock are apart. *)
LEMMA ChangesApart ==
    ASSUME NEW tz \in DOMAIN Zones, NEW i \in 1 .. Changes(tz), NEW j \in 1 .. Changes(tz), i < j
    PROVE  /\ ChangeAt(tz, i) < ChangeAt(tz, j)
           /\ ChangeAt(tz, i) + OffsetIn(tz, i - 1) <= ChangeAt(tz, j) + OffsetIn(tz, j)
           /\ ChangeAt(tz, i) + OffsetIn(tz, i) <= ChangeAt(tz, j) + OffsetIn(tz, j)
PROOF
  <1>1. IsClock(tz) /\ DOMAIN Zones[tz].changes = 1 .. Changes(tz)
    BY ClockType
  <1> QED BY <1>1 DEF IsClock, ReadsBefore, ReadsAfter

LEMMA StretchOffset ==
    ASSUME NEW tz \in DOMAIN Zones, NEW u \in Int, NEW k, InStretch(tz, k, u)
    PROVE  OffsetAt(tz, u) = OffsetIn(tz, k)
PROOF
  <1> DEFINE past == {i \in DOMAIN Zones[tz].changes : Zones[tz].changes[i].at <= u}
  <1>0. k \in 0 .. Changes(tz) /\ Changes(tz) \in Nat
    BY ClockType DEF InStretch
  <1>1. past = {i \in 1 .. Changes(tz) : ChangeAt(tz, i) <= u}
    BY ClockType DEF ChangeAt
  <1>2. ASSUME NEW i \in 1 .. Changes(tz) PROVE ChangeAt(tz, i) <= u <=> i <= k
    <2>1. ChangeAt(tz, i) \in Int
      BY ClockType
    <2>2. CASE i = k
      BY <2>2, <1>0 DEF InStretch
    <2>3. CASE i < k
      <3>1. k \in 1 .. Changes(tz) /\ ChangeAt(tz, k) <= u /\ ChangeAt(tz, k) \in Int
        BY <1>0, <2>3, ClockType DEF InStretch
      <3> QED BY <2>1, <2>3, <3>1, <1>0, ChangesApart
    <2>4. CASE i = k + 1
      BY <2>1, <2>4, <1>0 DEF InStretch
    <2>5. CASE i > k + 1
      <3>1. k + 1 \in 1 .. Changes(tz) /\ u < ChangeAt(tz, k + 1) /\ ChangeAt(tz, k + 1) \in Int
        BY <1>0, <2>5, ClockType DEF InStretch
      <3>2. ChangeAt(tz, k + 1) < ChangeAt(tz, i)
        BY <3>1, <2>5, ChangesApart
      <3> QED BY <2>1, <2>5, <3>1, <3>2, <1>0
    <2> QED BY <1>0, <2>2, <2>3, <2>4, <2>5
  <1>3. past = 1 .. k
    BY <1>0, <1>1, <1>2
  <1>4. OffsetAt(tz, u) = IF past = {} THEN Zones[tz].base ELSE Zones[tz].changes[Max(past)].offset
    BY DEF OffsetAt
  <1> HIDE DEF past
  <1>5. CASE k = 0
    BY <1>3, <1>4, <1>5 DEF OffsetIn
  <1>6. CASE k # 0
    <2>1. k \in past /\ \A y \in past : k >= y
      BY <1>0, <1>3, <1>6
    <2>2. \A x \in past : (\A y \in past : x >= y) => x = k
      BY <1>0, <1>3, <2>1
    <2>3. Max(past) = k
      BY <2>1, <2>2 DEF Max
    <2> QED BY <1>4, <1>6, <2>1, <2>3 DEF OffsetIn
  <1> QED BY <1>5, <1>6

LEMMA StretchExists ==
    ASSUME NEW tz \in DOMAIN Zones, NEW u \in Int
    PROVE  \E k : InStretch(tz, k, u)
PROOF
  <1> DEFINE n == Changes(tz)
             S == {i \in 0 .. n : i = 0 \/ ChangeAt(tz, i) <= u}
  <1>0. n \in Nat /\ \A i \in 1 .. n : ChangeAt(tz, i) \in Int
    BY ClockType
  <1> HIDE DEF n
  <1>1. S \in SUBSET (0 .. n) /\ 0 \in S
    BY <1>0
  <1>2. PICK k \in S : \A j \in S : j <= k
    <2> HIDE DEF S
    <2> QED BY <1>0, <1>1, LargestIndex
  <1>3. ASSUME k # n PROVE u < ChangeAt(tz, k + 1)
    <2>1. k + 1 \in 1 .. n /\ k + 1 \notin S
      BY <1>0, <1>2, <1>3
    <2> QED BY <1>0, <2>1
  <1>4. InStretch(tz, k, u)
    BY <1>2, <1>3 DEF InStretch, n
  <1> QED BY <1>4

LEMMA ReadingType ==
    ASSUME NEW tz \in DOMAIN Zones, NEW u \in Int
    PROVE  OffsetAt(tz, u) \in Int /\ Reading(tz, u) \in Int
PROOF
  <1>1. PICK k : InStretch(tz, k, u)
    BY StretchExists
  <1>2. OffsetAt(tz, u) = OffsetIn(tz, k) /\ k \in 0 .. Changes(tz)
    BY <1>1, StretchOffset DEF InStretch
  <1>3. OffsetIn(tz, k) \in Int
    BY <1>2, ClockType
  <1> QED BY <1>2, <1>3 DEF Reading

(* Where the clock does not go on from one instant to a later one it was set *)
(* back in between, by a day at most, and has read the later time before.    *)
LEMMA SetBack ==
    ASSUME NEW tz \in DOMAIN Zones, NEW u \in Int, NEW v \in Int, u < v, Reading(tz, v) <= Reading(tz, u)
    PROVE  /\ Reading(tz, u) - Reading(tz, v) < Day
           /\ \E w \in Int : w < v /\ Reading(tz, w) = Reading(tz, v)
PROOF
  <1>1. PICK p : InStretch(tz, p, u)
    BY StretchExists
  <1>2. PICK q : InStretch(tz, q, v)
    BY StretchExists
  <1>3. p \in 0 .. Changes(tz) /\ q \in 0 .. Changes(tz) /\ Changes(tz) \in Nat
    BY <1>1, <1>2, ClockType DEF InStretch
  <1>4. /\ Reading(tz, u) = u + OffsetIn(tz, p) /\ OffsetIn(tz, p) \in Int
        /\ Reading(tz, v) = v + OffsetIn(tz, q) /\ OffsetIn(tz, q) \in Int
    BY <1>1, <1>2, <1>3, StretchOffset, ClockType DEF Reading
  <1>5. \A i \in 1 .. Changes(tz) : ChangeAt(tz, i) \in Int
    BY ClockType
  <1>6. p # q
    BY <1>4
  <1>7. p < q
    <2> SUFFICES ASSUME q < p PROVE FALSE
      BY <1>3, <1>6
    <2>1. q + 1 \in 1 .. Changes(tz) /\ p \in 1 .. Changes(tz) /\ q + 1 <= p
      BY <1>3
    <2>2. v < ChangeAt(tz, q + 1) /\ ChangeAt(tz, p) <= u
      BY <1>1, <1>2, <1>3, <2>1 DEF InStretch
    <2>3. ChangeAt(tz, q + 1) <= ChangeAt(tz, p)
      BY <2>1, <1>5, ChangesApart
    <2> QED BY <1>5, <2>1, <2>2, <2>3
  <1>8. p + 1 \in 1 .. Changes(tz) /\ q \in 1 .. Changes(tz) /\ u < ChangeAt(tz, p + 1) /\ ChangeAt(tz, q) <= v
    BY <1>1, <1>2, <1>3, <1>7 DEF InStretch
  <1>9. q = p + 1
    <2> SUFFICES ASSUME p + 1 < q PROVE FALSE
      BY <1>3, <1>7
    <2>1. PICK c \in 1 .. Changes(tz) : c = p + 1
      BY <1>8
    <2>2. c < q /\ c - 1 = p
      BY <1>3, <2>1
    <2>3. ChangeAt(tz, c) + OffsetIn(tz, c - 1) <= ChangeAt(tz, q) + OffsetIn(tz, q)
      BY <1>8, <2>2, ChangesApart
    <2>4. ChangeAt(tz, c) + OffsetIn(tz, p) <= ChangeAt(tz, q) + OffsetIn(tz, q)
      BY <2>2, <2>3
    <2>5. u < ChangeAt(tz, c) /\ ChangeAt(tz, c) \in Int /\ ChangeAt(tz, q) \in Int
      BY <1>5, <1>8, <2>1
    <2> QED BY <1>4, <1>8, <2>4, <2>5
  <1> DEFINE back == ChangeAt(tz, q) + OffsetIn(tz, p) - (ChangeAt(tz, q) + OffsetIn(tz, q))
             w == Reading(tz, v) - OffsetIn(tz, p)
  <1>10. back <= Day
    <2>1. IsClock(tz) /\ q \in DOMAIN Zones[tz].changes /\ q - 1 = p
      BY <1>3, <1>8, <1>9, ClockType
    <2>2. ReadsBefore(tz, q) - ReadsAfter(tz, q) <= Day
      BY <2>1 DEF IsClock
    <2>3. ReadsBefore(tz, q) = ChangeAt(tz, q) + OffsetIn(tz, p)
      BY <2>1 DEF ReadsBefore
    <2>4. Day \in Int
      BY RecurrenceAssumption DEF Day
    <2> QED BY <1>4, <1>5, <1>8, <2>2, <2>3, <2>4 DEF ReadsAfter
  <1>11. Reading(tz, u) - Reading(tz, v) < Day
    <2>1. Day \in Int
      BY RecurrenceAssumption DEF Day
    <2> QED BY <1>4, <1>5, <1>8, <1>9, <1>10, <2>1
  <1>12. w \in Int /\ w < ChangeAt(tz, p + 1) /\ w < v
    BY <1>4, <1>5, <1>8, <1>9
  <1>13. ASSUME p # 0 PROVE ChangeAt(tz, p) <= w
    <2>1. p \in 1 .. Changes(tz) /\ p < q
      BY <1>3, <1>7, <1>13
    <2>2. ChangeAt(tz, p) + OffsetIn(tz, p) <= ChangeAt(tz, q) + OffsetIn(tz, q)
      BY <1>8, <2>1, ChangesApart
    <2> QED BY <1>4, <1>5, <1>8, <2>1, <2>2
  <1>14. InStretch(tz, p, w)
    BY <1>3, <1>12, <1>13 DEF InStretch
  <1>15. Reading(tz, w) = Reading(tz, v)
    <2>1. OffsetAt(tz, w) = OffsetIn(tz, p)
      BY <1>12, <1>14, StretchOffset
    <2>2. w + OffsetIn(tz, p) = Reading(tz, v)
      BY <1>4
    <2> HIDE DEF w
    <2> QED BY <2>1, <2>2 DEF Reading
  <1> HIDE DEF w
  <1> QED BY <1>11, <1>12, <1>15

\* A time that a gap of the clock swallows.
InGap(tz, x) == \E i \in 1 .. Changes(tz) : ReadsBefore(tz, i) <= x /\ x < ReadsAfter(tz, i)

(* A local time is read at some instant, or is in a gap. *)
LEMMA ReadOrGap ==
    ASSUME NEW tz \in DOMAIN Zones, NEW x \in Int
    PROVE  (\E u \in Int : Reading(tz, u) = x) \/ InGap(tz, x)
PROOF
  <1> DEFINE n == Changes(tz)
             S == {i \in 0 .. n : i = 0 \/ ChangeAt(tz, i) + OffsetIn(tz, i) <= x}
  <1>0. n \in Nat /\ (\A i \in 1 .. n : ChangeAt(tz, i) \in Int) /\ (\A i \in 0 .. n : OffsetIn(tz, i) \in Int)
    BY ClockType
  <1> HIDE DEF n
  <1>1. S \in SUBSET (0 .. n) /\ 0 \in S
    BY <1>0
  <1>2. PICK k \in S : \A j \in S : j <= k
    <2> HIDE DEF S
    <2> QED BY <1>0, <1>1, LargestIndex
  <1> DEFINE u == x - OffsetIn(tz, k)
  <1>3. k \in 0 .. n /\ OffsetIn(tz, k) \in Int /\ u \in Int /\ u + OffsetIn(tz, k) = x
    BY <1>0, <1>2
  <1>4. k # 0 => ChangeAt(tz, k) <= u
    BY <1>0, <1>2, <1>3
  <1>5. CASE k = n \/ u < ChangeAt(tz, k + 1)
    <2>1. InStretch(tz, k, u)
      BY <1>3, <1>4, <1>5 DEF InStretch, n
    <2> HIDE DEF u
    <2>2. Reading(tz, u) = x
      BY <1>3, <2>1, StretchOffset DEF Reading
    <2> QED BY <1>3, <2>2
  <1>6. CASE k # n /\ ~ (u < ChangeAt(tz, k + 1))
    <2>1. k + 1 \in 1 .. n /\ k + 1 \notin S /\ k + 1 - 1 = k /\ k + 1 \in 0 .. n
      BY <1>0, <1>2, <1>6
    <2>2. x < ChangeAt(tz, k + 1) + OffsetIn(tz, k + 1)
      BY <1>0, <2>1
    <2>3. ChangeAt(tz, k + 1) + OffsetIn(tz, k) <= x
      BY <1>0, <1>3, <1>6, <2>1
    <2>4. ReadsBefore(tz, k + 1) <= x /\ x < ReadsAfter(tz, k + 1)
      BY <2>1, <2>2, <2>3 DEF ReadsBefore, ReadsAfter
    <2> QED BY <2>1, <2>4 DEF InGap, n
  <1> QED BY <1>5, <1>6

(* The instants of a local time are those at which the clock reads it; they  *)
(* are finitely many, so there is a first.                                   *)
LEMMA ReadingsOf ==
    ASSUME NEW tz \in DOMAIN Zones, NEW x \in Int
    PROVE  /\ from_local_datetime(tz, x) = {u \in Int : Reading(tz, u) = x}
           /\ IsFiniteSet(from_local_datetime(tz, x))
PROOF
  <1> DEFINE offsets == {Zones[tz].base} \union {Zones[tz].changes[i].offset : i \in DOMAIN Zones[tz].changes}
             n == Changes(tz)
             f == [i \in 0 .. n |-> x - OffsetIn(tz, i)]
             candidates == {x - o : o \in offsets}
  <1>0. n \in Nat /\ DOMAIN Zones[tz].changes = 1 .. n /\ \A i \in 0 .. n : OffsetIn(tz, i) \in Int
    BY ClockType
  <1>1. offsets = {OffsetIn(tz, i) : i \in 0 .. n}
    <2>1. OffsetIn(tz, 0) = Zones[tz].base /\ \A i \in 1 .. n : OffsetIn(tz, i) = Zones[tz].changes[i].offset
      BY <1>0 DEF OffsetIn
    <2>2. \A i \in 0 .. n : i = 0 \/ i \in 1 .. n
      BY <1>0
    <2>3. 0 \in 0 .. n /\ \A i \in 1 .. n : i \in 0 .. n
      BY <1>0
    <2> HIDE DEF n
    <2> QED BY <1>0, <2>1, <2>2, <2>3
  <1>2. from_local_datetime(tz, x) = {u \in candidates : u + OffsetAt(tz, u) = x}
    BY DEF from_local_datetime
  <1> HIDE DEF offsets, n
  <1>3. candidates = {x - OffsetIn(tz, i) : i \in 0 .. n}
    BY <1>1
  <1>4. IsFiniteSet(candidates)
    <2>1. f \in Surjection(0 .. n, candidates)
      BY <1>3 DEF Surjection
    <2>2. IsFiniteSet(0 .. n)
      BY <1>0, FS_Interval
    <2> HIDE DEF f, candidates
    <2> QED BY <2>1, <2>2, FS_Surjection
  <1>5. \A u \in candidates : u \in Int
    BY <1>0, <1>3
  <1>6. ASSUME NEW u \in Int, Reading(tz, u) = x PROVE u \in candidates
    <2>1. PICK k : InStretch(tz, k, u)
      BY StretchExists
    <2>2. k \in 0 .. n /\ OffsetAt(tz, u) = OffsetIn(tz, k)
      BY <2>1, StretchOffset DEF InStretch, n
    <2>3. u = x - OffsetIn(tz, k)
      BY <1>0, <1>6, <2>2 DEF Reading
    <2> QED BY <1>3, <2>2, <2>3
  <1> HIDE DEF candidates
  <1>7. from_local_datetime(tz, x) = {u \in Int : Reading(tz, u) = x}
    BY <1>2, <1>5, <1>6 DEF Reading
  <1>8. IsFiniteSet(from_local_datetime(tz, x))
    BY <1>2, <1>4, FS_Subset
  <1> QED BY <1>7, <1>8

HasLeast(f, k) == \E m \in 1 .. k : \A i \in 1 .. k : f[m] <= f[i]

LEMMA FiniteHasMin ==
    ASSUME NEW S \in SUBSET Int, IsFiniteSet(S), S # {}
    PROVE  \E m \in S : \A s \in S : m <= s
PROOF
  <1>1. PICK n \in Nat : ExistsBijection(1 .. n, S)
    BY FS_CardinalityType
  <1>2. PICK f \in [1 .. n -> S] : \A s \in S : \E i \in 1 .. n : f[i] = s
    BY <1>1 DEF ExistsBijection, Bijection, Surjection
  <1>3. n # 0
    <2>1. PICK s \in S : TRUE
      OBVIOUS
    <2>2. PICK i \in 1 .. n : f[i] = s
      BY <1>2, <2>1
    <2> QED BY <2>2
  <1> DEFINE Without == {k \in Nat : k \in 1 .. n /\ ~HasLeast(f, k)}
  <1>4. ASSUME Without # {} PROVE FALSE
    <2>1. Without \in SUBSET Nat
      OBVIOUS
    <2>2. PICK k \in Without : \A j \in Without : k <= j
      <3> HIDE DEF Without
      <3> QED BY <1>4, <2>1, LeastIndex
    <2>a. k \in 1 .. n /\ k \in Nat /\ \A i \in 1 .. k : i \in 1 .. n
      BY <1>1, <2>2
    <2>b. \A i \in 1 .. n : f[i] \in Int
      BY <1>2
    <2>3. k \in 1 .. n /\ \A i \in 1 .. k : f[i] \in Int /\ i \in 1 .. n
      BY <2>a, <2>b
    <2>4. CASE k = 1
      <3>1. 1 \in 1 .. k /\ \A i \in 1 .. k : f[1] <= f[i]
        BY <2>3, <2>4
      <3> QED BY <2>2, <3>1 DEF HasLeast
    <2>5. CASE k # 1
      <3>1. k - 1 \in Nat /\ k - 1 \in 1 .. n /\ k - 1 \notin Without
        BY <2>a, <2>2, <2>5
      <3>2. PICK m \in 1 .. k - 1 : \A i \in 1 .. k - 1 : f[m] <= f[i]
        BY <3>1 DEF HasLeast
      <3>3. m \in 1 .. k /\ k \in 1 .. k /\ f[m] \in Int /\ f[k] \in Int
        BY <2>3, <3>1, <3>2
      <3>4. \A i \in 1 .. k : i = k \/ i \in 1 .. k - 1
        BY <2>3
      <3>5. CASE f[m] <= f[k]
        <4>1. \A i \in 1 .. k : f[m] <= f[i]
          BY <3>2, <3>4, <3>5
        <4> QED BY <2>2, <3>3, <4>1 DEF HasLeast
      <3>6. CASE f[k] < f[m]
        <4>1. \A i \in 1 .. k : f[k] <= f[i]
          BY <2>3, <3>2, <3>3, <3>4, <3>6
        <4> QED BY <2>2, <3>3, <4>1 DEF HasLeast
      <3> QED BY <3>3, <3>5, <3>6
    <2> QED BY <2>4, <2>5
  <1>5. n \in 1 .. n /\ n \notin Without
    <2> HIDE DEF Without
    <2> QED BY <1>3, <1>4
  <1>6. PICK m \in 1 .. n : \A i \in 1 .. n : f[m] <= f[i]
    BY <1>1, <1>5 DEF HasLeast
  <1>7. f[m] \in S /\ \A s \in S : f[m] <= s
    BY <1>2, <1>6
  <1> QED BY <1>7

(* The date of a local time, and how dates go with times. *)
LEMMA DateOf ==
    ASSUME NEW D \in Nat \ {0}, NEW date \in Int, NEW t \in 0 .. D - 1
    PROVE  (date * D + t) \div D = date
PROOF OBVIOUS

LEMMA TimeOf ==
    ASSUME NEW D \in Nat \ {0}, NEW date \in Int, NEW t \in 0 .. D - 1
    PROVE  (date * D + t) % D = t
PROOF OBVIOUS

LEMMA DateBounds ==
    ASSUME NEW D \in Nat \ {0}, NEW x \in Int
    PROVE  /\ x \div D \in Int /\ x % D \in 0 .. D - 1
           /\ x = ((x \div D) * D) + (x % D)
PROOF OBVIOUS

LEMMA DateOrder ==
    ASSUME NEW D \in Nat \ {0}, NEW x \in Int, NEW y \in Int, x <= y
    PROVE  x \div D <= y \div D
PROOF OBVIOUS

LEMMA DateApart ==
    ASSUME NEW D \in Nat \ {0}, NEW x \in Int, NEW y \in Int, (x \div D) + 2 <= y \div D
    PROVE  D <= y - x
PROOF OBVIOUS

LEMMA DayType == Day \in Nat \ {0} /\ MinutesPerHour \in Nat \ {0} /\ MinutesPerHour < Day
PROOF
  <1>1. HoursPerDay \in Nat \ {0, 1} /\ MinutesPerHour \in Nat \ {0}
    BY RecurrenceAssumption
  <1>2. PICK more \in Nat \ {0}, m \in Nat \ {0} : HoursPerDay = 1 + more /\ MinutesPerHour = m
    <2>1. HoursPerDay - 1 \in Nat \ {0} /\ HoursPerDay = 1 + (HoursPerDay - 1)
      BY <1>1
    <2> QED BY <1>1, <2>1
  <1>3. more * m \in Nat \ {0} /\ (1 + more) * m = m + (more * m)
    OBVIOUS
  <1> QED BY <1>2, <1>3 DEF Day

LEMMA LocalDateOf ==
    ASSUME NEW tz \in DOMAIN Zones, NEW u \in Int
    PROVE  LocalDate(tz, u) = Reading(tz, u) \div Day /\ LocalDate(tz, u) \in Int
PROOF
  <1>1. Reading(tz, u) \in Int
    BY ReadingType
  <1>2. Reading(tz, u) \div Day \in Int
    BY <1>1, DayType, DateBounds
  <1> QED BY <1>2 DEF LocalDate, Reading

IsCalendar(rec) ==
    /\ rec.kind # "every" /\ rec.tz \in DOMAIN Zones /\ rec.time \in 0 .. Day - 1
    /\ ScanSuffices(rec)

\* The local time of a recurrence on a date.
TimeOn(rec, date) == date * Day + rec.time

LEMMA TimeOnType ==
    ASSUME NEW rec, IsCalendar(rec), NEW date \in Int
    PROVE  /\ TimeOn(rec, date) \in Int /\ TimeOn(rec, date) + MinutesPerHour \in Int
           /\ TimeOn(rec, date) \div Day = date
           /\ (TimeOn(rec, date) + MinutesPerHour) \div Day \in {date, date + 1}
PROOF
  <1>0. PICK D \in Nat \ {0} : D = Day
    BY DayType
  <1>1. PICK t \in 0 .. D - 1, m \in 0 .. D - 1 : D = Day /\ t = rec.time /\ m = MinutesPerHour
    BY <1>0, DayType DEF IsCalendar
  <1>2. date * D \in Int /\ (date + 1) * D = (date * D) + D
    OBVIOUS
  <1>3. (date * D + t) \div D = date
    BY DateOf
  <1>4. CASE t + m < D
    <2>1. t + m \in 0 .. D - 1 /\ date * D + t + m = date * D + (t + m)
      BY <1>2, <1>4
    <2>2. (date * D + (t + m)) \div D = date
      BY <2>1, DateOf
    <2> QED BY <1>1, <1>2, <1>3, <2>1, <2>2 DEF TimeOn
  <1>5. CASE ~ (t + m < D)
    <2>1. t + m - D \in 0 .. D - 1 /\ date * D + t + m = (date + 1) * D + (t + m - D)
      BY <1>2, <1>5
    <2>2. ((date + 1) * D + (t + m - D)) \div D = date + 1
      BY <2>1, DateOf
    <2> QED BY <1>1, <1>2, <1>3, <2>1, <2>2 DEF TimeOn
  <1> QED BY <1>4, <1>5

(* What resolve_local finds for a date: the clock reads the time of the date *)
(* or an hour more, and for the first time.                                  *)
LEMMA ResolvedIsFirst ==
    ASSUME NEW rec, IsCalendar(rec), NEW date \in Int, NEW w \in resolve_local(rec.tz, date, rec.time)
    PROVE  /\ w \in Int /\ resolve_local(rec.tz, date, rec.time) = {w}
           /\ Reading(rec.tz, w) \in {TimeOn(rec, date), TimeOn(rec, date) + MinutesPerHour}
           /\ LocalDate(rec.tz, w) \in {date, date + 1}
           /\ \A v \in Int : Reading(rec.tz, v) = Reading(rec.tz, w) => w <= v
PROOF
  <1> DEFINE tz == rec.tz
             x == TimeOn(rec, date)
             found == from_local_datetime(tz, x)
             shifted == from_local_datetime(tz, x + MinutesPerHour)
             resolved == resolve_local(tz, date, rec.time)
  <1>0. tz \in DOMAIN Zones /\ x \in Int /\ x + MinutesPerHour \in Int
    BY TimeOnType DEF IsCalendar
  <1>1. resolved = IF found # {} THEN {Min(found)} ELSE IF Cardinality(shifted) = 1 THEN shifted ELSE {}
    BY DEF resolve_local, TimeOn
  <1>2. /\ found = {u \in Int : Reading(tz, u) = x} /\ IsFiniteSet(found)
        /\ shifted = {u \in Int : Reading(tz, u) = x + MinutesPerHour} /\ IsFiniteSet(shifted)
    BY <1>0, ReadingsOf
  <1>3. x \div Day = date /\ (x + MinutesPerHour) \div Day \in {date, date + 1}
    BY TimeOnType
  <1> HIDE DEF found, shifted, resolved, tz, x
  <1>4. CASE found # {}
    <2>1. PICK m \in found : \A s \in found : m <= s
      BY <1>2, <1>4, FiniteHasMin
    <2>2. \A n \in found : (\A s \in found : n <= s) => n = m
      BY <1>2, <2>1
    <2>3. Min(found) = m
      BY <2>1, <2>2 DEF Min
    <2>4. w = m /\ resolved = {w}
      BY <1>1, <1>4, <2>3 DEF resolved, tz
    <2>5. w \in Int /\ Reading(tz, w) = x /\ \A v \in Int : Reading(tz, v) = x => w <= v
      BY <1>2, <2>1, <2>4
    <2>6. LocalDate(tz, w) = date
      BY <1>0, <1>3, <2>5, LocalDateOf
    <2> QED BY <2>4, <2>5, <2>6 DEF tz, resolved, x
  <1>5. CASE found = {}
    <2>1. Cardinality(shifted) = 1 /\ resolved = shifted
      BY <1>1, <1>5 DEF resolved, tz
    <2>2. resolved = {w}
      <3>1. \E y : shifted = {y}
        BY <1>2, <2>1, FS_Singleton
      <3> QED BY <2>1, <3>1 DEF resolved, tz
    <2>3. w \in Int /\ Reading(tz, w) = x + MinutesPerHour
      BY <1>2, <2>1, <2>2
    <2>4. \A v \in Int : Reading(tz, v) = x + MinutesPerHour => v = w
      BY <1>2, <2>1, <2>2
    <2>5. LocalDate(tz, w) \in {date, date + 1}
      BY <1>0, <1>3, <2>3, LocalDateOf
    <2>6. \A v \in Int : Reading(tz, v) = Reading(tz, w) => w <= v
      BY <2>3, <2>4
    <2> QED BY <2>2, <2>3, <2>5, <2>6 DEF tz, resolved, x
  <1> QED BY <1>4, <1>5

(* An instant is due for a date that fires and resolves to it. *)
LEMMA DueIsResolved ==
    ASSUME NEW rec, IsCalendar(rec), NEW date \in Int, NEW u \in Int
    PROVE  DueFor(rec, date, u) <=> date_qualifies(rec, date) /\ resolve_local(rec.tz, date, rec.time) = {u}
PROOF
  <1> DEFINE tz == rec.tz
             x == TimeOn(rec, date)
             found == from_local_datetime(tz, x)
             shifted == from_local_datetime(tz, x + MinutesPerHour)
             resolved == resolve_local(tz, date, rec.time)
  <1>0. tz \in DOMAIN Zones /\ rec.time \in 0 .. Day - 1 /\ x \in Int /\ x + MinutesPerHour \in Int
    BY TimeOnType DEF IsCalendar
  <1>1. resolved = IF found # {} THEN {Min(found)} ELSE IF Cardinality(shifted) = 1 THEN shifted ELSE {}
    BY DEF resolve_local, TimeOn
  <1>2. /\ found = {v \in Int : Reading(tz, v) = x} /\ IsFiniteSet(found)
        /\ shifted = {v \in Int : Reading(tz, v) = x + MinutesPerHour} /\ IsFiniteSet(shifted)
    BY <1>0, ReadingsOf
  <1>3. date * Day + rec.time = x /\ date * Day + (rec.time + MinutesPerHour) = x + MinutesPerHour
    BY <1>0, DayType DEF TimeOn
  <1>4. DueFor(rec, date, u) <=> /\ date_qualifies(rec, date)
                                 /\ \/ u \in found /\ \A v \in found : u <= v
                                    \/ found = {} /\ shifted = {u}
    BY <1>3 DEF DueFor
  <1> HIDE DEF found, shifted, resolved, x, tz
  <1>5. CASE found # {}
    <2>1. PICK m \in found : \A s \in found : m <= s
      BY <1>2, <1>5, FiniteHasMin
    <2>2. \A n \in found : (\A s \in found : n <= s) => n = m
      BY <1>2, <2>1
    <2>3. Min(found) = m
      BY <2>1, <2>2 DEF Min
    <2> QED BY <1>1, <1>4, <1>5, <2>1, <2>2, <2>3 DEF resolved, tz
  <1>6. CASE found = {}
    <2>1. Cardinality(shifted) = 1 <=> \E y : shifted = {y}
      BY <1>2, FS_Singleton
    <2> QED BY <1>1, <1>4, <1>6, <2>1 DEF resolved, tz
  <1> QED BY <1>5, <1>6

(* Of two dates the later one is due later. *)
LEMMA DueInOrder ==
    ASSUME NEW rec, IsCalendar(rec), NEW d \in Int, NEW e \in Int, d < e,
           NEW u \in Int, NEW v \in Int, DueFor(rec, d, u), DueFor(rec, e, v)
    PROVE  u < v
PROOF
  <1>0. rec.tz \in DOMAIN Zones /\ rec.time \in 0 .. Day - 1
    BY DEF IsCalendar
  <1>1. u \in resolve_local(rec.tz, d, rec.time) /\ v \in resolve_local(rec.tz, e, rec.time)
    BY DueIsResolved
  <1>2. /\ Reading(rec.tz, u) \in {TimeOn(rec, d), TimeOn(rec, d) + MinutesPerHour}
        /\ Reading(rec.tz, v) \in {TimeOn(rec, e), TimeOn(rec, e) + MinutesPerHour}
        /\ \A w \in Int : Reading(rec.tz, w) = Reading(rec.tz, u) => u <= w
    BY <1>1, ResolvedIsFirst
  <1>3. Reading(rec.tz, u) < Reading(rec.tz, v)
    <2>0. PICK D \in Nat \ {0} : D = Day
      BY DayType
    <2>1. PICK t \in 0 .. D - 1, m \in 1 .. D - 1 : D = Day /\ t = rec.time /\ m = MinutesPerHour
      BY <1>0, <2>0, DayType
    <2>2. PICK k \in Nat : e = d + 1 + k
      <3>1. e - d - 1 \in Nat /\ e = d + 1 + (e - d - 1)
        OBVIOUS
      <3> QED BY <3>1
    <2>3. e * D = (d * D) + D + (k * D) /\ k * D \in Nat /\ d * D \in Int
      BY <2>2
    <2>4. (d * D + t) + m < e * D + t
      BY <2>3
    <2> QED BY <1>2, <2>1, <2>3, <2>4 DEF TimeOn
  <1>4. Reading(rec.tz, u) \in Int /\ Reading(rec.tz, v) \in Int
    BY <1>0, ReadingType
  <1>5. SUFFICES ASSUME v <= u PROVE FALSE
    OBVIOUS
  <1>6. v < u
    BY <1>3, <1>4, <1>5
  <1>7. PICK w \in Int : w < u /\ Reading(rec.tz, w) = Reading(rec.tz, u)
    BY <1>0, <1>3, <1>4, <1>6, SetBack
  <1> QED BY <1>2, <1>7

(* An instant is due for the date its clock reads or the one before. *)
LEMMA DueDates ==
    ASSUME NEW rec, IsCalendar(rec), NEW date \in Int, NEW u \in Int, DueFor(rec, date, u)
    PROVE  date \in DatesOf(rec.tz, u)
PROOF
  <1>1. u \in resolve_local(rec.tz, date, rec.time)
    BY DueIsResolved
  <1>2. LocalDate(rec.tz, u) \in {date, date + 1}
    BY <1>1, ResolvedIsFirst
  <1> QED BY <1>2 DEF DatesOf

LEMMA ShiftedMod ==
    ASSUME NEW M \in Nat \ {0}, NEW k \in Int, NEW d \in Int
    PROVE  (d + (k * M)) % M = d % M
PROOF
  <1>1. d \div M \in Int /\ d % M \in 0 .. M - 1 /\ d = ((d \div M) * M) + (d % M)
    BY DateBounds
  <1>2. PICK q \in Int, r \in 0 .. M - 1 : q = d \div M /\ r = d % M
    BY <1>1
  <1>3. q + k \in Int /\ d + (k * M) = ((q + k) * M) + r
    BY <1>1, <1>2
  <1>4. (((q + k) * M) + r) % M = r
    BY <1>3, TimeOf
  <1> QED BY <1>2, <1>3, <1>4

MonthAt(day) == CHOOSE i \in DOMAIN MonthLengths : MonthStart(i) <= day /\ day < MonthStart(i + 1)

(* Which days fire repeats with the weeks and the years. *)
LEMMA QualifiesAgain ==
    ASSUME NEW rec, NEW d, NEW e, d % 7 = e % 7, d % YearLength = e % YearLength
    PROVE  date_qualifies(rec, d) <=> date_qualifies(rec, e)
PROOF
  <1>1. MonthOf(d) = MonthAt(d % YearLength) /\ MonthOf(e) = MonthAt(e % YearLength)
    BY DEF MonthOf, MonthAt
  <1>2. MonthOf(d) = MonthOf(e)
    BY <1>1
  <1>3. /\ Weekday(d) = Weekday(e) /\ DayOfMonth(d) = DayOfMonth(e)
        /\ clamp_day(rec.day, d) = clamp_day(rec.day, e)
    BY <1>2 DEF Weekday, DayOfMonth, clamp_day, days_in_month
  <1> QED BY <1>3 DEF date_qualifies

LEMMA ShiftedQualifies ==
    ASSUME NEW rec, NEW d \in Int, NEW q \in Int
    PROVE  date_qualifies(rec, d + (q * (7 * YearLength))) <=> date_qualifies(rec, d)
PROOF
  <1>1. PICK Y \in Nat \ {0} : Y = YearLength
    BY RecurrenceAssumption
  <1>2. q * (7 * Y) = (q * Y) * 7 /\ q * (7 * Y) = (q * 7) * Y /\ q * Y \in Int /\ q * 7 \in Int
    OBVIOUS
  <1>3. (d + ((q * Y) * 7)) % 7 = d % 7
    BY <1>2, ShiftedMod
  <1>4. (d + ((q * 7) * Y)) % Y = d % Y
    BY <1>2, ShiftedMod
  <1>5. (d + (q * (7 * YearLength))) % 7 = d % 7 /\ (d + (q * (7 * YearLength))) % YearLength = d % YearLength
    BY <1>1, <1>2, <1>3, <1>4
  <1> QED BY <1>5, QualifiesAgain

(* The days a zone loses are days of its gaps. *)
LEMMA LostInGaps ==
    ASSUME NEW rec, IsCalendar(rec), NEW date \in Int, resolve_local(rec.tz, date, rec.time) = {}
    PROVE  date \in GapDates(rec.tz)
PROOF
  <1> DEFINE tz == rec.tz
             n == Changes(tz)
             x == date * Day + rec.time
  <1>1. tz \in DOMAIN Zones /\ rec.time \in 0 .. Day - 1
    BY DEF IsCalendar
  <1>2. n \in Nat /\ DOMAIN Zones[tz].changes = 1 .. n
    BY <1>1, ClockType
  <1>3. x \in Int /\ x \div Day = date
    BY <1>1, DayType, DateOf
  <1>4. from_local_datetime(tz, x) = {}
    BY DEF resolve_local
  <1>5. InGap(tz, x)
    BY <1>1, <1>3, <1>4, ReadingsOf, ReadOrGap
  <1> HIDE DEF x
  <1>6. PICK i \in 1 .. n : ReadsBefore(tz, i) <= x /\ x < ReadsAfter(tz, i)
    BY <1>5 DEF InGap
  <1>7. ReadsBefore(tz, i) \in Int /\ ReadsAfter(tz, i) \in Int
    <2>1. i - 1 \in 0 .. Changes(tz) /\ i \in 0 .. Changes(tz)
      BY <1>2
    <2> QED BY <1>1, <2>1, ClockType DEF ReadsBefore, ReadsAfter
  <1>8. ReadsBefore(tz, i) \div Day \in Int /\ ReadsAfter(tz, i) \div Day \in Int
    BY <1>7, DayType, DateBounds
  <1>9. ReadsBefore(tz, i) \div Day <= x \div Day /\ x \div Day <= ReadsAfter(tz, i) \div Day
    BY <1>3, <1>6, <1>7, DayType, DateOrder
  <1>10. date \in (ReadsBefore(tz, i) \div Day) .. (ReadsAfter(tz, i) \div Day)
    BY <1>3, <1>8, <1>9
  <1> QED BY <1>2, <1>10 DEF GapDates

(* From any date the scan reaches a firing day that has a time to fire at.   *)
LEMMA ScanReaches ==
    ASSUME NEW rec, IsCalendar(rec), NEW date \in Int
    PROVE  \E d \in date + 2 .. date + ScanDays - 1 :
              date_qualifies(rec, d) /\ resolve_local(rec.tz, d, rec.time) # {}
PROOF
  <1> DEFINE P == 7 * YearLength
             q == date \div P
             r == date % P
             lost == {d \in GapDates(rec.tz) : resolve_local(rec.tz, d, rec.time) = {}}
             Near == UNION {d - ScanDays .. d : d \in lost}
  <1>1. P \in Nat \ {0} /\ ScanDays \in Nat
    BY RecurrenceAssumption
  <1>2. q \in Int /\ r \in 0 .. P - 1 /\ date = (q * P) + r
    BY <1>1, DateBounds
  <1>3. \A e \in 0 .. P - 1 \union Near :
          \E d \in e + 2 .. e + ScanDays - 1 :
             date_qualifies(rec, d) /\ resolve_local(rec.tz, d, rec.time) # {}
    BY DEF IsCalendar, ScanSuffices
  <1>4. CASE date \in Near
    BY <1>3, <1>4
  <1>5. CASE date \notin Near
    <2>1. PICK e \in r + 2 .. r + ScanDays - 1 : date_qualifies(rec, e)
      BY <1>2, <1>3
    <2> DEFINE d == e + (q * P)
    <2>2. q * P \in Int /\ e \in Int /\ e >= r + 2 /\ e <= r + ScanDays - 1
      BY <1>1, <1>2, <2>1
    <2>3. date_qualifies(rec, d)
      BY <1>2, <2>1, <2>2, ShiftedQualifies
    <2> HIDE DEF P, q, r, Near
    <2>4. d \in date + 2 .. date + ScanDays - 1 /\ d \in Int
      BY <1>1, <1>2, <2>2
    <2>5. resolve_local(rec.tz, d, rec.time) # {}
      <3> HIDE DEF d
      <3> SUFFICES ASSUME resolve_local(rec.tz, d, rec.time) = {} PROVE FALSE
        OBVIOUS
      <3>1. d \in lost
        BY <2>4, LostInGaps
      <3>2. date \in d - ScanDays .. d
        BY <1>1, <2>4
      <3> QED BY <1>5, <3>1, <3>2 DEF Near
    <2> QED BY <2>3, <2>4, <2>5
  <1> QED BY <1>4, <1>5

\* What calendar_match takes of a date.
From(from, inclusive, u) == u > from \/ (inclusive /\ u = from)
Hits(rec, from, inclusive, date) ==
    {u \in resolve_local(rec.tz, date, rec.time) : date_qualifies(rec, date) /\ From(from, inclusive, u)}

\* The first instant, from a given one, that is due for a date from that day on.
IsNextDue(rec, from, inclusive, next) ==
    /\ next \in Int /\ From(from, inclusive, next)
    /\ \E date \in Int : LocalDate(rec.tz, from) <= date /\ DueFor(rec, date, next)
    /\ \A u, date \in Int :
          LocalDate(rec.tz, from) <= date /\ DueFor(rec, date, u) /\ From(from, inclusive, u) => next <= u

(* An instant that is due for a date is a hit of it, and the only one. *)
LEMMA HitIsDue ==
    ASSUME NEW rec, IsCalendar(rec), NEW from \in Int, NEW inclusive \in BOOLEAN, NEW date \in Int,
           NEW u \in Hits(rec, from, inclusive, date)
    PROVE  /\ u \in Int /\ Hits(rec, from, inclusive, date) = {u}
           /\ DueFor(rec, date, u) /\ From(from, inclusive, u)
PROOF
  <1>1. u \in resolve_local(rec.tz, date, rec.time) /\ date_qualifies(rec, date) /\ From(from, inclusive, u)
    BY DEF Hits
  <1>2. u \in Int /\ resolve_local(rec.tz, date, rec.time) = {u}
    BY <1>1, ResolvedIsFirst
  <1>3. DueFor(rec, date, u)
    BY <1>1, <1>2, DueIsResolved
  <1>4. Hits(rec, from, inclusive, date) = {u}
    BY <1>1, <1>2 DEF Hits
  <1> QED BY <1>1, <1>2, <1>3, <1>4

LEMMA DueIsHit ==
    ASSUME NEW rec, IsCalendar(rec), NEW from \in Int, NEW inclusive \in BOOLEAN, NEW date \in Int,
           NEW u \in Int, DueFor(rec, date, u), From(from, inclusive, u)
    PROVE  Hits(rec, from, inclusive, date) = {u}
PROOF
  <1>1. date_qualifies(rec, date) /\ resolve_local(rec.tz, date, rec.time) = {u}
    BY DueIsResolved
  <1> QED BY <1>1 DEF Hits

(* The scan finds what is due next, and always finds something. *)
LEMMA MatchIsNextDue ==
    ASSUME NEW rec, IsCalendar(rec), NEW from \in Int, NEW inclusive \in BOOLEAN
    PROVE  \E next : calendar_match(rec, from, inclusive) = {next} /\ IsNextDue(rec, from, inclusive, next)
PROOF
  <1> DEFINE today == LocalDate(rec.tz, from)
             hits(date) == Hits(rec, from, inclusive, date)
             dates == {date \in today .. today + ScanDays - 1 : hits(date) # {}}
  <1>0. rec.tz \in DOMAIN Zones /\ ScanDays \in Nat
    BY RecurrenceAssumption DEF IsCalendar
  <1>1. today \in Int
    BY <1>0, LocalDateOf
  <1>2. calendar_match(rec, from, inclusive) = IF dates = {} THEN {} ELSE hits(Min(dates))
    BY DEF calendar_match, Hits, From
  <1> HIDE DEF today
  <1>3. dates # {}
    <2>1. PICK d \in today + 2 .. today + ScanDays - 1 :
             date_qualifies(rec, d) /\ resolve_local(rec.tz, d, rec.time) # {}
      BY <1>1, ScanReaches
    <2>2. d \in Int /\ d \in today .. today + ScanDays - 1 /\ today + 2 <= d
      BY <1>0, <1>1, <2>1
    <2>3. PICK w : w \in resolve_local(rec.tz, d, rec.time)
      BY <2>1
    <2>4. w \in Int /\ LocalDate(rec.tz, w) \in {d, d + 1}
      BY <2>2, <2>3, ResolvedIsFirst
    <2>5. from < w
      <3> SUFFICES ASSUME w <= from PROVE FALSE
        BY <2>4
      <3>1. Reading(rec.tz, w) \in Int /\ Reading(rec.tz, from) \in Int
        BY <1>0, <2>4, ReadingType
      <3>2. Reading(rec.tz, w) \div Day \in {d, d + 1} /\ Reading(rec.tz, from) \div Day = today
        BY <1>0, <2>4, LocalDateOf DEF today
      <3>a. (Reading(rec.tz, from) \div Day) + 2 <= Reading(rec.tz, w) \div Day
        BY <1>1, <2>2, <3>2
      <3>3. Day <= Reading(rec.tz, w) - Reading(rec.tz, from)
        BY <3>1, <3>a, DayType, DateApart
      <3>4. w < from
        <4>1. w # from
          BY <3>1, <3>3, DayType
        <4> QED BY <2>4, <4>1
      <3>5. Reading(rec.tz, from) <= Reading(rec.tz, w)
        BY <3>1, <3>3, DayType
      <3>6. Reading(rec.tz, w) - Reading(rec.tz, from) < Day
        BY <1>0, <2>4, <3>4, <3>5, SetBack
      <3> QED BY <3>1, <3>3, <3>6, DayType
    <2>6. w \in hits(d)
      BY <2>1, <2>3, <2>4, <2>5 DEF Hits, From
    <2> QED BY <2>2, <2>6
  <1>4. dates \in SUBSET Int /\ IsFiniteSet(dates)
    <2>1. today + ScanDays - 1 \in Int
      BY <1>0, <1>1
    <2>2. IsFiniteSet(today .. today + ScanDays - 1)
      BY <1>1, <2>1, FS_Interval
    <2>3. dates \subseteq today .. today + ScanDays - 1
      OBVIOUS
    <2>4. today .. today + ScanDays - 1 \subseteq Int
      BY <1>1, <2>1
    <2> HIDE DEF dates
    <2>5. IsFiniteSet(dates)
      BY <2>2, <2>3, FS_Subset
    <2> QED BY <2>3, <2>4, <2>5
  <1>5. PICK m \in dates : \A date \in dates : m <= date
    <2> HIDE DEF dates
    <2> QED BY <1>3, <1>4, FiniteHasMin
  <1>6. Min(dates) = m
    <2> HIDE DEF dates
    <2>1. \A n \in dates : (\A date \in dates : n <= date) => n = m
      BY <1>4, <1>5
    <2> QED BY <1>5, <2>1 DEF Min
  <1>7. PICK next : next \in hits(m)
    BY <1>5
  <1>8. m \in Int /\ today <= m
    BY <1>1, <1>4, <1>5
  <1>9. next \in Int /\ hits(m) = {next} /\ DueFor(rec, m, next) /\ From(from, inclusive, next)
    BY <1>7, <1>8, HitIsDue
  <1>10. calendar_match(rec, from, inclusive) = {next}
    <2> HIDE DEF dates, hits
    <2> QED BY <1>2, <1>3, <1>6, <1>9
  <1>11. ASSUME NEW u \in Int, NEW date \in Int, today <= date, DueFor(rec, date, u), From(from, inclusive, u)
         PROVE  next <= u
    <2>1. hits(date) = {u}
      BY <1>11, DueIsHit
    <2> HIDE DEF hits
    <2>2. m <= date
      <3>1. CASE date <= today + ScanDays - 1
        <4>1. date \in dates
          BY <1>0, <1>1, <1>11, <2>1, <3>1
        <4> QED BY <1>5, <4>1
      <3>2. CASE date > today + ScanDays - 1
        <4>1. m <= today + ScanDays - 1
          BY <1>5
        <4> QED BY <1>0, <1>1, <1>8, <3>2, <4>1
      <3> QED BY <1>0, <1>1, <3>1, <3>2
    <2>3. CASE date = m
      BY <1>9, <2>1, <2>3
    <2>4. CASE m < date
      BY <1>8, <1>9, <1>11, <2>4, DueInOrder
    <2> QED BY <1>8, <2>2, <2>3, <2>4
  <1>12. IsNextDue(rec, from, inclusive, next)
    <2> HIDE DEF hits, dates
    <2>1. \E date \in Int : today <= date /\ DueFor(rec, date, next)
      BY <1>8, <1>9
    <2>2. \A u, date \in Int : today <= date /\ DueFor(rec, date, u) /\ From(from, inclusive, u) => next <= u
      BY <1>11
    <2> QED BY <1>9, <2>1, <2>2 DEF IsNextDue, today
  <1> QED BY <1>10, <1>12

\* The state of an item: a calendar is its only recurrence, and the next time
\* is the first that is due from what it was computed from.
CalendarItem ==
    \A rec \in IF meta.status = "active" THEN meta.recurrence ELSE {} : rec.kind # "every" =>
      /\ meta.recurrence = {rec} /\ IsCalendar(rec) /\ meta.process_after \in Int
      /\ anchor.kind \in {"created", "fired"} =>
           /\ anchor.at \in Int
           /\ IsNextDue(rec, anchor.at, anchor.kind = "created", meta.process_after)

(* What a payload is resolved to. *)
LEMMA ResolvedTiming ==
    ASSUME NEW payload \in Payloads \union Revised, NEW now \in Instants,
           NEW timing \in resolve_timing(payload, now), NEW rec \in timing[2], rec.kind # "every"
    PROVE  /\ timing[2] = {rec} /\ IsCalendar(rec) /\ timing[1] \in Int
           /\ IsNextDue(rec, now, TRUE, timing[1])
PROOF
  <1> DEFINE recs == {r \in UNION {calendar_to_recurrence(s) : s \in payload.calendar} : validate(r)}
  <1>0. now \in Int
    BY RecurrenceAssumption
  <1>1. payload.calendar # {}
    <2> SUFFICES ASSUME payload.calendar = {} PROVE FALSE
      OBVIOUS
    <2>1. timing = <<now + payload.after_seconds, {[kind |-> "every", seconds |-> s] : s \in payload.every_seconds}>>
      BY DEF resolve_timing
    <2>2. timing[2] = {[kind |-> "every", seconds |-> s] : s \in payload.every_seconds}
      BY <2>1
    <2> QED BY <2>2
  <1>2. timing \in UNION {{<<first, {r}>> : first \in first_on_or_after(r, now)} : r \in recs}
    BY <1>1 DEF resolve_timing
  <1> HIDE DEF recs
  <1>a. PICK r \in recs : timing \in {<<first, {r}>> : first \in first_on_or_after(r, now)}
    BY <1>2
  <1>3. PICK first \in first_on_or_after(r, now) : timing = <<first, {r}>>
    BY <1>a
  <1>4. timing[1] = first /\ timing[2] = {r} /\ r = rec
    BY <1>3
  <1>5. rec \in CalendarRecurrences
    BY <1>a, <1>4 DEF recs, CalendarRecurrences
  <1>6. IsCalendar(rec)
    <2>1. rec.time \in Nat /\ ScanSuffices(rec)
      BY <1>5, RecurrenceAssumption
    <2>2. rec.time < Day /\ rec.tz \in DOMAIN Zones
      BY <1>5 DEF CalendarRecurrences, validate, validate_minute_of_day, validate_tz
    <2> QED BY <2>1, <2>2, DayType DEF IsCalendar
  <1>7. first \in calendar_match(rec, now, TRUE)
    BY <1>3, <1>4 DEF first_on_or_after
  <1>8. PICK next : calendar_match(rec, now, TRUE) = {next} /\ IsNextDue(rec, now, TRUE, next)
    BY <1>0, <1>6, MatchIsNextDue
  <1>9. first = next
    BY <1>7, <1>8
  <1> QED BY <1>4, <1>6, <1>8, <1>9 DEF IsNextDue


\* An item has these fields.
ItemShape ==
    \/ meta = NoItem
    \/ meta = [status |-> meta.status, process_after |-> meta.process_after, recurrence |-> meta.recurrence,
               occurrence_seq |-> meta.occurrence_seq, revisions |-> meta.revisions]

LEMMA CreateKeepsItem ==
    ASSUME NEW payload \in Payloads, NEW now \in Instants, create(payload, now)
    PROVE  CalendarItem' /\ ItemShape'
PROOF
  <1>1. PICK timing \in resolve_timing(payload, now) :
          meta' = [status |-> "active", process_after |-> timing[1], recurrence |-> timing[2],
                   occurrence_seq |-> 0, revisions |-> <<Revision(1, timing[1], timing[2])>>]
    BY DEF create
  <1>2. anchor' = [kind |-> "created", at |-> now] /\ now \in Int
    BY RecurrenceAssumption DEF create
  <1>3. meta'.recurrence = timing[2] /\ meta'.process_after = timing[1]
    BY <1>1
  <1>4. anchor'.kind = "created" /\ anchor'.at = now
    BY <1>2
  <1>5. ASSUME NEW rec \in timing[2], rec.kind # "every"
        PROVE  /\ timing[2] = {rec} /\ IsCalendar(rec) /\ timing[1] \in Int
               /\ IsNextDue(rec, now, TRUE, timing[1])
    BY <1>5, ResolvedTiming
  <1>6. CalendarItem'
    <2> SUFFICES ASSUME NEW rec \in timing[2], rec.kind # "every"
                 PROVE  /\ meta'.recurrence = {rec} /\ IsCalendar(rec) /\ meta'.process_after \in Int
                        /\ anchor'.at \in Int
                        /\ IsNextDue(rec, anchor'.at, anchor'.kind = "created", meta'.process_after)
      BY <1>3 DEF CalendarItem
    <2>1. (anchor'.kind = "created") = TRUE
      BY <1>4
    <2>2. IsNextDue(rec, now, anchor'.kind = "created", timing[1])
      BY <1>5, <2>1
    <2> QED BY <1>2, <1>3, <1>4, <1>5, <2>2
  <1>7. ItemShape'
    BY <1>1 DEF ItemShape
  <1> QED BY <1>6, <1>7

LEMMA FireKeepsItem ==
    ASSUME CalendarItem, ItemShape, Fire
    PROVE  CalendarItem' /\ ItemShape'
PROOF
  <1>1. PICK occurrence \in pending_occurrence : record_fired(occurrence)
    BY DEF Fire
  <1>2. meta.status = "active" /\ occurrence.scheduled_for = meta.process_after
    BY <1>1 DEF pending_occurrence
  <1>3. meta # NoItem
    BY <1>2 DEF NoItem
  <1>4. anchor' = [kind |-> "fired", at |-> meta.process_after]
    BY <1>1, <1>2 DEF record_fired
  <1>5. anchor'.kind = "fired" /\ anchor'.at = meta.process_after /\ (anchor'.kind = "created") = FALSE
    BY <1>4
  <1>6. CASE meta.recurrence = {}
    <2>1. meta' = [meta EXCEPT !.occurrence_seq = occurrence.sequence, !.status = "completed"]
      BY <1>1, <1>6 DEF record_fired
    <2>2. meta'.status = "completed" /\ ItemShape'
      BY <1>3, <2>1 DEF ItemShape
    <2> QED BY <2>2 DEF CalendarItem
  <1>7. CASE meta.recurrence # {}
    <2> DEFINE chosen == CHOOSE rec \in meta.recurrence : TRUE
               next == next_after(chosen, meta.process_after)
    <2>1. meta' = [meta EXCEPT !.occurrence_seq = occurrence.sequence, !.process_after = next]
      BY <1>1, <1>2, <1>7 DEF record_fired
    <2> HIDE DEF next
    <2>2. /\ meta'.status = "active" /\ meta'.recurrence = meta.recurrence /\ meta'.process_after = next
          /\ ItemShape'
      BY <1>2, <1>3, <2>1 DEF ItemShape
    <2>3. ASSUME NEW rec \in meta.recurrence, rec.kind # "every"
          PROVE  /\ meta.recurrence = {rec} /\ IsCalendar(rec) /\ meta.process_after \in Int
                 /\ IsNextDue(rec, meta.process_after, FALSE, next)
      <3>1. meta.recurrence = {rec} /\ IsCalendar(rec) /\ meta.process_after \in Int
        BY <1>2, <2>3 DEF CalendarItem
      <3>2. chosen = rec
        BY <3>1
      <3>3. PICK after : /\ calendar_match(rec, meta.process_after, FALSE) = {after}
                         /\ IsNextDue(rec, meta.process_after, FALSE, after)
        BY <3>1, MatchIsNextDue
      <3>4. next = after
        <4>1. (CHOOSE u \in {after} : TRUE) = after
          OBVIOUS
        <4> QED BY <2>3, <3>2, <3>3, <4>1 DEF next, next_after
      <3> QED BY <3>1, <3>3, <3>4
    <2>4. CalendarItem'
      <3> SUFFICES ASSUME NEW rec \in meta.recurrence, rec.kind # "every"
                   PROVE  /\ meta'.recurrence = {rec} /\ IsCalendar(rec) /\ meta'.process_after \in Int
                          /\ anchor'.at \in Int
                          /\ IsNextDue(rec, anchor'.at, anchor'.kind = "created", meta'.process_after)
        BY <2>2 DEF CalendarItem
      <3>1. IsNextDue(rec, meta.process_after, anchor'.kind = "created", next)
        BY <2>3, <1>5
      <3>2. next \in Int
        BY <2>3 DEF IsNextDue
      <3> QED BY <1>5, <2>2, <2>3, <3>1, <3>2
    <2> QED BY <2>2, <2>4
  <1> QED BY <1>6, <1>7

LEMMA UpdateKeepsItem ==
    ASSUME ItemShape, NEW payload \in Revised, NEW at \in Instants,
           NEW timing \in resolve_timing(payload, at), update(timing[1], timing[2])
    PROVE  CalendarItem' /\ ItemShape'
PROOF
  <1>1. /\ meta # NoItem
        /\ meta' = [meta EXCEPT !.process_after = timing[1], !.recurrence = timing[2],
                                !.revisions = Append(@, Revision(Len(@) + 1, timing[1], timing[2]))]
        /\ anchor' = [kind |-> "revised", at |-> timing[1]]
    BY DEF update
  <1>2. meta'.recurrence = timing[2] /\ meta'.process_after = timing[1] /\ ItemShape'
    BY <1>1 DEF ItemShape
  <1>3. anchor'.kind \notin {"created", "fired"}
    BY <1>1
  <1>4. CalendarItem'
    <2> SUFFICES ASSUME NEW rec \in timing[2], rec.kind # "every"
                 PROVE  meta'.recurrence = {rec} /\ IsCalendar(rec) /\ meta'.process_after \in Int
      BY <1>2, <1>3 DEF CalendarItem
    <2>1. payload \in Payloads \union Revised
      OBVIOUS
    <2>2. timing[2] = {rec} /\ IsCalendar(rec) /\ timing[1] \in Int
      BY <2>1, ResolvedTiming
    <2> QED BY <1>2, <2>2
  <1> QED BY <1>2, <1>4

\* Whatever the time zones, the months and the payloads, as far as the clocks
\* are regular: the next time of a calendar item is due for a date from the day
\* of its creation or last fire on, nothing due for such a date was passed over,
\* and no date is fired for twice (calendar_match, resolve_local, record_fired).
THEOREM CalendarKeepsCadence == RecurrenceSpec => []CalendarCadence
PROOF
  <1>1. RecurrenceInit => CalendarItem /\ ItemShape
    <2> SUFFICES ASSUME RecurrenceInit PROVE CalendarItem /\ ItemShape
      OBVIOUS
    <2>1. meta = NoItem /\ meta.status # "active"
      BY DEF RecurrenceInit, NoItem
    <2> QED BY <2>1 DEF CalendarItem, ItemShape
  <1>2. CalendarItem /\ ItemShape /\ [RecurrenceNext]_recurrenceVars => CalendarItem' /\ ItemShape'
    <2> SUFFICES ASSUME CalendarItem, ItemShape, [RecurrenceNext]_recurrenceVars
                 PROVE  CalendarItem' /\ ItemShape'
      OBVIOUS
    <2>1. CASE UNCHANGED recurrenceVars
      BY <2>1 DEF recurrenceVars, CalendarItem, ItemShape
    <2> QED BY <2>1, CreateKeepsItem, FireKeepsItem, UpdateKeepsItem DEF RecurrenceNext
  <1>3. CalendarItem => CalendarCadence
    <2> DEFINE next == meta.process_after
               earliest == IF anchor.kind = "created" THEN anchor.at ELSE anchor.at + 1
    <2> SUFFICES ASSUME CalendarItem, meta.status = "active", NEW rec \in meta.recurrence,
                        rec.kind # "every", anchor.kind \in {"created", "fired"}
                 PROVE  LET today == LocalDate(rec.tz, anchor.at) IN
                        /\ next >= earliest
                        /\ \E date \in DatesOf(rec.tz, next) : date >= today /\ DueFor(rec, date, next)
                        /\ \A u \in earliest .. next - 1 : \A date \in DatesOf(rec.tz, u) :
                              date >= today => ~DueFor(rec, date, u)
                        /\ anchor.kind = "fired" =>
                              \A fired \in DatesOf(rec.tz, anchor.at), date \in DatesOf(rec.tz, next) :
                                 DueFor(rec, fired, anchor.at) /\ DueFor(rec, date, next) => fired < date
      BY DEF CalendarCadence, Computed
    <2> DEFINE today == LocalDate(rec.tz, anchor.at)
    <2>1. /\ IsCalendar(rec) /\ next \in Int /\ anchor.at \in Int
          /\ IsNextDue(rec, anchor.at, anchor.kind = "created", next)
      BY DEF CalendarItem
    <2>0. today \in Int /\ \A u \in Int : DatesOf(rec.tz, u) \subseteq Int
      BY <2>1, LocalDateOf DEF IsCalendar, DatesOf
    <2>2. /\ next > anchor.at \/ (anchor.kind = "created" /\ next = anchor.at)
          /\ \E date \in Int : today <= date /\ DueFor(rec, date, next)
          /\ \A u, date \in Int :
                today <= date /\ DueFor(rec, date, u)
                   /\ (u > anchor.at \/ (anchor.kind = "created" /\ u = anchor.at)) => next <= u
      BY <2>1 DEF IsNextDue, From
    <2> HIDE DEF next, today
    <2>3. next >= earliest
      BY <2>1, <2>2
    <2>4. \E date \in DatesOf(rec.tz, next) : date >= today /\ DueFor(rec, date, next)
      <3>1. PICK date \in Int : today <= date /\ DueFor(rec, date, next)
        BY <2>2
      <3>2. date \in DatesOf(rec.tz, next)
        BY <2>1, <3>1, DueDates
      <3> QED BY <2>0, <3>1, <3>2
    <2>5. ASSUME NEW u \in earliest .. next - 1, NEW date \in DatesOf(rec.tz, u), date >= today,
                 DueFor(rec, date, u)
          PROVE  FALSE
      <3>1. u \in Int /\ earliest <= u /\ u < next
        BY <2>1
      <3>2. u > anchor.at \/ (anchor.kind = "created" /\ u = anchor.at)
        BY <2>1, <3>1
      <3>3. date \in Int /\ today <= date
        BY <2>0, <2>5, <3>1
      <3> QED BY <2>1, <2>2, <2>5, <3>1, <3>2, <3>3
    <2>6. ASSUME anchor.kind = "fired",
                 NEW fired \in DatesOf(rec.tz, anchor.at), NEW date \in DatesOf(rec.tz, next),
                 DueFor(rec, fired, anchor.at), DueFor(rec, date, next)
          PROVE  fired < date
      <3>1. anchor.at < next
        BY <2>1, <2>2, <2>6
      <3>2. fired \in Int /\ date \in Int
        BY <2>0, <2>1
      <3>3. CASE date = fired
        <4>1. /\ resolve_local(rec.tz, date, rec.time) = {anchor.at}
              /\ resolve_local(rec.tz, date, rec.time) = {next}
          BY <2>1, <2>6, <3>2, <3>3, DueIsResolved
        <4> QED BY <2>1, <3>1, <4>1
      <3>4. CASE date < fired
        BY <2>1, <2>6, <3>1, <3>2, <3>4, DueInOrder
      <3> QED BY <3>2, <3>3, <3>4
    <2> QED BY <2>3, <2>4, <2>5, <2>6 DEF today
  <1> QED BY <1>1, <1>2, <1>3, PTL DEF RecurrenceSpec
=============================================================================
