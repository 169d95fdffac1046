------------------------------- MODULE Spawn --------------------------------
(***************************************************************************)
(* Starting the container of an agent: the readiness a process probes when *)
(* it starts, the credential environment and the mounts a spawn is         *)
(* prepared with, and the gateway (OneCLI) that is asked again at each     *)
(* spawn for the proxy and the certificate of the agent.  Setup provisions *)
(* the same files in a process of its own, and so does the gate of a       *)
(* scheduled task.  What the gateway answers is arbitrary, each time.      *)
(***************************************************************************)
CONSTANTS Installation,             \* agent_identifier: the orchestrator's agent
          Slugs,                    \* specialist agent -> group_slug, its workspace
          SpecEnv, SpecVolumes,     \* specialist agent -> extra_env, volumes of its spec
          UrlSafe,                  \* agents whose name fits a query
          Answers                   \* ContainerConfigs the gateway may return

VARIABLES ca_cert,                  \* ca.pem exists
          injection_ok_marker,      \* the marker exists
          setup,                    \* configure_onecli: {}, or the answer it holds
          serving,                  \* {}, or the HostConfig of the process that serves
          proxy,                    \* {}, or the proxy of the process's own calls
          spawning,                 \* agent -> the spawn under way: see NoSpawn
          containers                \* agent -> {} or the SpawnSpec it runs with

spawnVars == <<ca_cert, injection_ok_marker, setup, serving, proxy, spawning, containers>>

Specialists == DOMAIN Slugs
SpawnAgents == {Installation} \union Specialists
NoSpawn == [pc |-> "idle"]

\* An environment maps names to values; what is added later holds.
NoEnv == [key \in {} |-> ""]
extend(env, more) ==
    [key \in DOMAIN env \union DOMAIN more |-> IF key \in DOMAIN more THEN more[key] ELSE env[key]]

-----------------------------------------------------------------------------
(* Mounts *)

Path(root, name) == [root |-> root, name |-> name]
Mount(host, target, read_only) == [host_path |-> host, container_path |-> target, read_only |-> read_only]

build_session_mounts ==
    {Mount(Path("sessions", "inbound.db"), "/session/inbound.db", TRUE),
     Mount(Path("sessions", "outbound.db"), "/session/outbound.db", FALSE),
     Mount(Path("sessions", ".heartbeat"), "/session/.heartbeat", FALSE),
     Mount(Path("sessions", "inbox"), "/session/inbox", TRUE),
     Mount(Path("sessions", "outbox"), "/session/outbox", FALSE)}

Workspace(agent) ==
    Path("workspaces", IF agent \in Specialists THEN Slugs[agent] ELSE agent)

\* The names that stand for raw credentials, and the certificate's extension.
is_blocked(path) == path.name \in {".env", "credentials", "id_rsa", ".ssh", ".aws", "ca.pem"}

starts_with(path, root) == path = root \/ (root.name = "" /\ path.root = root.root)

validate_mounts(mounts, allowed_roots) ==
    /\ \A m \in mounts :
         /\ m.host_path.name # ".." /\ ~is_blocked(m.host_path)
         /\ \E root \in allowed_roots : starts_with(m.host_path, root)
         /\ m.container_path = "/session/inbound.db" => m.read_only
    /\ \A m, n \in mounts : m.container_path = n.container_path => m = n

-----------------------------------------------------------------------------
(* Credentials *)

Credentialed(mode) == mode \in {"claude_oauth", "specialist"}

\* OneCliReadiness::is_ready, with the three conditions.
is_ready(onecli) ==
    onecli.proxy_configured /\ onecli.anthropic_secret_present /\ onecli.placeholder_injection_ok

(* Mutant: a spawn that is not ready falls back on what there is. *)
MutantFallBack(mode, onecli) ==
    {[ASSISTANT_RUNNER_MODE |-> mode, ANTHROPIC_API_KEY |-> "placeholder"]}

\* The environment of one mode, or none: the spawn is refused.
prepare_runner_env(mode, onecli) ==
    IF ~Credentialed(mode) THEN {[ASSISTANT_RUNNER_MODE |-> mode]}
    ELSE IF is_ready(onecli)
         THEN {[ASSISTANT_RUNNER_MODE |-> mode, ANTHROPIC_API_KEY |-> "placeholder",
                CLAUDE_CODE_OAUTH_TOKEN |-> ""]}
         ELSE {}

prepare_spawn(mounts, allowed_roots, mode, onecli) ==
    IF validate_mounts(mounts, allowed_roots)
    THEN {[mode |-> mode, mounts |-> mounts, env |-> env, volumes |-> {}] : env \in prepare_runner_env(mode, onecli)}
    ELSE {}

-----------------------------------------------------------------------------
(* The gateway *)

\* The answers for an agent; it may always fail instead (curl, status, parse).
fetch_container_config(url, agent) == IF url /\ agent \in UrlSafe THEN Answers ELSE {}

CarriesCa(config) == config.ca_certificate /\ config.ca_certificate_container_path

\* The proxy's userinfo names the agent that asked; the key it sets is the
\* same placeholder.
ProxyEnv(config, agent) ==
    [key \in config.env |-> IF key = "ANTHROPIC_API_KEY" THEN "placeholder" ELSE agent]

write_ca(config) == ca_cert' = (ca_cert \/ CarriesCa(config))

CaMount == Mount(Path("onecli", "ca.pem"), "gateway-named", TRUE)

apply_to_spec(spec, config, agent) ==
    [mode |-> spec.mode, env |-> extend(spec.env, ProxyEnv(config, agent)), volumes |-> spec.volumes,
     mounts |-> spec.mounts \union (IF CarriesCa(config) THEN {CaMount} ELSE {})]

\* The host's address with the gateway's userinfo, the agent's token.
splice_proxy_userinfo(gateway_proxy, host_proxy) == [host_proxy EXCEPT !.userinfo = gateway_proxy.userinfo]

host_proxy_url(agent, url) ==
    {splice_proxy_userinfo([host |-> "gateway", userinfo |-> agent], [host |-> "local", userinfo |-> "other"]) :
       config \in {c \in fetch_container_config(url, agent) : "HTTPS_PROXY" \in c.env}}

\* secret_present is the file's size at that moment: either.
probe(url, secret) ==
    [proxy_configured |-> url /\ ca_cert, anthropic_secret_present |-> secret,
     placeholder_injection_ok |-> injection_ok_marker]

-----------------------------------------------------------------------------
(* Setup, in a process of its own *)

\* provision_from_gateway: the certificate is written first.
Provision(url) ==
    /\ setup = {}
    /\ \E config \in fetch_container_config(url, Installation) :
         write_ca(config) /\ setup' = {config}
    /\ UNCHANGED <<injection_ok_marker, serving, proxy, spawning, containers>>

persist_provisioned ==
    /\ setup # {} /\ setup' = {}
    /\ injection_ok_marker' =
         (injection_ok_marker \/ \E config \in setup : CarriesCa(config) /\ config.env # {})
    /\ UNCHANGED <<ca_cert, serving, proxy, spawning, containers>>

SetupDies ==
    /\ setup # {} /\ setup' = {}
    /\ UNCHANGED <<ca_cert, injection_ok_marker, serving, proxy, spawning, containers>>

-----------------------------------------------------------------------------
(* The process that serves *)

\* HostConfig::new with what the process probed; it is not probed again.
Serve(mode, url, secret, extra_env) ==
    /\ serving = {}
    /\ serving' = {[auth_mode |-> mode, onecli |-> probe(url, secret), url |-> url, extra_env |-> extra_env]}

run_inner(mode, url, secret) ==
    /\ Serve(mode, url, secret, NoEnv)
    /\ UNCHANGED <<ca_cert, injection_ok_marker, setup, proxy, spawning, containers>>

\* The menu of specialists, for the orchestrator.
Menu == [ASSISTANT_SPECIALISTS |-> "menu"]

\* The channel's own calls go through the proxy, or it does not start.
serve_slack(mode, url, secret) ==
    /\ Serve(mode, url, secret, Menu)
    /\ \E p \in host_proxy_url(Installation, url) : proxy' = {p}
    /\ UNCHANGED <<ca_cert, injection_ok_marker, setup, spawning, containers>>

\* The containers of a process that ends are stopped or left behind.
ProcessEnds ==
    /\ serving # {} /\ serving' = {} /\ proxy' = {}
    /\ spawning' = [a \in SpawnAgents |-> NoSpawn]
    /\ UNCHANGED <<ca_cert, injection_ok_marker, setup, containers>>

\* It dies, or the host reaps it and drops its handle.
ContainerEnds(agent) ==
    /\ containers[agent] # {}
    /\ containers' = [containers EXCEPT ![agent] = {}]
    /\ \/ UNCHANGED spawning
       \/ spawning[agent].pc = "held" /\ spawning' = [spawning EXCEPT ![agent] = NoSpawn]
    /\ UNCHANGED <<ca_cert, injection_ok_marker, setup, serving, proxy>>

\* agent_host_config: a specialist inherits the readiness, not the agent.
AuthMode(config, agent) ==
    IF agent \in Specialists /\ Credentialed(config.auth_mode) THEN "specialist" ELSE config.auth_mode

\* A specialist has the environment and the volumes of its own specification,
\* and the configuration of its turns (six variables, here one).
TurnConfig == [ASSISTANT_SPECIALIST_TOOLS |-> "tools"]
extra_env(process, agent) ==
    IF agent \in Specialists THEN extend(SpecEnv[agent], TurnConfig) ELSE process.extra_env
extra_volumes(agent) == IF agent \in Specialists THEN SpecVolumes[agent] ELSE {}

AllowedRoots(agent) == {Path("sessions", ""), Workspace(Installation), Workspace(agent)}

Mounts(agent) ==
    build_session_mounts \union {Mount(Workspace(agent), "/workspace", FALSE)}

At(agent, pc, spec) == spawning' = [spawning EXCEPT ![agent] = [pc |-> pc, spec |-> spec]]

\* ensure_spawned as far as prepare_spawn, which refuses or goes on.
Prepare(agent) ==
    /\ spawning[agent] = NoSpawn
    /\ \E config \in serving :
       \E spec \in prepare_spawn(Mounts(agent), AllowedRoots(agent), AuthMode(config, agent), config.onecli) :
         At(agent, IF Credentialed(spec.mode) THEN "fetch" ELSE "spawn", spec)
    /\ UNCHANGED <<ca_cert, injection_ok_marker, setup, serving, proxy, containers>>

\* The certificate is written, whoever else has it mounted.
apply_gateway_config(agent) ==
    /\ spawning[agent].pc = "fetch"
    /\ \E process \in serving : \E config \in fetch_container_config(process.url, agent) :
         /\ write_ca(config)
         /\ At(agent, "spawn", apply_to_spec(spawning[agent].spec, config, agent))
    /\ UNCHANGED <<injection_ok_marker, setup, serving, proxy, containers>>

\* The gateway or docker fails: no container, the turn ends.
SpawnFails(agent) ==
    /\ spawning[agent].pc \in {"fetch", "spawn"}
    /\ spawning' = [spawning EXCEPT ![agent] = NoSpawn]
    /\ UNCHANGED <<ca_cert, injection_ok_marker, setup, serving, proxy, containers>>

\* The last things every container gets, a stub too: volumes as docker takes
\* them, which nothing validates, and variables, which override what is there.
equip(spec, process, agent) ==
    [mode |-> spec.mode, mounts |-> spec.mounts,
     volumes |-> spec.volumes \union extra_volumes(agent),
     env |-> extend(extend(spec.env, extra_env(process, agent)), [WORKSPACE |-> "/workspace"])]

\* Docker refuses a name that runs; the host holds the container it started.
spawn(agent) ==
    /\ spawning[agent].pc = "spawn" /\ containers[agent] = {}
    /\ \E process \in serving :
         LET spec == equip(spawning[agent].spec, process, agent)
         IN containers' = [containers EXCEPT ![agent] = {spec}] /\ At(agent, "held", spec)
    /\ UNCHANGED <<ca_cert, injection_ok_marker, setup, serving, proxy>>

\* The gate of a task runs to its end in a container that outlives no step.
run_gate_in_container(agent) ==
    /\ \E process \in serving : \E config \in fetch_container_config(process.url, agent) : write_ca(config)
    /\ UNCHANGED <<injection_ok_marker, setup, serving, proxy, spawning, containers>>

SpawnInit ==
    /\ ca_cert = FALSE /\ injection_ok_marker = FALSE /\ setup = {} /\ serving = {} /\ proxy = {}
    /\ spawning = [a \in SpawnAgents |-> NoSpawn] /\ containers = [a \in SpawnAgents |-> {}]

SpawnNext ==
    \/ \E url \in BOOLEAN : Provision(url)
    \/ persist_provisioned \/ SetupDies \/ ProcessEnds
    \/ \E mode \in {"stub", "claude_oauth"}, url, secret \in BOOLEAN :
         run_inner(mode, url, secret) \/ serve_slack(mode, url, secret)
    \/ \E a \in SpawnAgents :
         \/ ContainerEnds(a) \/ Prepare(a) \/ apply_gateway_config(a) \/ SpawnFails(a) \/ spawn(a)
         \/ run_gate_in_container(a)

-----------------------------------------------------------------------------
(* Properties *)

\* What the agent's own specification (or the menu) sets, and so overrides.
OwnKeys(agent) ==
    IF agent \in Specialists THEN DOMAIN SpecEnv[agent] \union DOMAIN TurnConfig ELSE DOMAIN Menu

\* In what an agent's own specification does not set, a credentialed container
\* has the placeholder and the gateway's variables for this agent; a stub has
\* nothing but its mode and its workspace.
ScopedEnv(a, spec) ==
    LET given == DOMAIN spec.env \ OwnKeys(a) IN
    /\ Credentialed(spec.mode) =>
         /\ "ANTHROPIC_API_KEY" \in DOMAIN spec.env
         /\ "ANTHROPIC_API_KEY" \in given => spec.env["ANTHROPIC_API_KEY"] = "placeholder"
         /\ \A key \in given \intersect {"HTTPS_PROXY", "NODE_EXTRA_CA_CERTS"} : spec.env[key] = a
    /\ ~Credentialed(spec.mode) => given \subseteq {"ASSISTANT_RUNNER_MODE", "WORKSPACE"}

ScopedMounts(a, spec) ==
    /\ \A m \in spec.mounts : is_blocked(m.host_path) => m = CaMount
    /\ spec.volumes \subseteq extra_volumes(a)

Provisioned == ca_cert /\ injection_ok_marker

ScopedSpec(a, spec) ==
    /\ Credentialed(spec.mode) => Provisioned
    /\ ScopedEnv(a, spec)
    /\ ScopedMounts(a, spec)

\* However long ago the process probed it, an installation that runs a
\* credentialed container is provisioned: marker and certificate are on disk
\* (first_failure in auth.rs refuses, nothing takes them back).  Such a
\* container never has the gateway's token for another agent, nor the process's
\* own proxy, and a stub has no credential of the gateway, except that the
\* agent's own specification may set any variable to anything (extra_env).  Of
\* the bind mounts only the certificate is of a blocked kind, and the volumes,
\* which no one validates, are of this agent's own specification
\* (ensure_spawned, agent_host_config).
ScopedSpawns ==
    /\ \A a \in SpawnAgents : \A spec \in containers[a] : ScopedSpec(a, spec)
    /\ \A p \in proxy : p.userinfo = Installation
=============================================================================
