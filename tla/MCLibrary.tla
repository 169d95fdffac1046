----------------------------- MODULE MCLibrary ------------------------------
(***************************************************************************)
(* Instances of the libraries of the platform: the manifests and their     *)
(* check, the agent loop, handoffs, specialist groups and their jobs,      *)
(* recurrences, observed messages, recoveries and the start of containers. *)
(* A behaviour is one part's, so the parts may name their interchangeable  *)
(* things alike: g1 to g3 are groups and jobs.                             *)
(***************************************************************************)
EXTENDS Manifests, AgentRun, Handoff, Delegation, Recurrence, Observe, Recovery, Spawn, TLC

CONSTANTS g1, g2, g3, h1, h2

VARIABLE part

\* An older version is refused whatever else there is, so the pinned one is current.
MCProducts == {[enabled_modules |-> {"a", "b"}, pinned |-> "current"]}

MCProfiles == {"browser", "orchestrator", "unknown"}
MCMaxSpecialists == [p \in {"browser", "orchestrator"} |-> 1]
MCMaxJobs == [browser |-> 1, orchestrator |-> 0]

\* A handoff that is accepted, and one with a blank fact.
MCPackets == {[goal |-> <<"do">>, facts |-> {<<"fact">>}], [goal |-> <<"do">>, facts |-> {<<>>}]}

MCRows == {[kind |-> "specialist_result", result |-> [artifacts |-> {}]],
           [kind |-> "specialist_result",
            result |-> [artifacts |-> {[by_reference |-> TRUE, size |-> <<2>>]}]],
           [kind |-> "progress", result |-> [artifacts |-> {}]]}

MCRuns ==
    [run_id : {"r1", "r2"}, inbound_seq : {0, 2}, agent_kind : {"orchestrator"}, observe_only : {FALSE}]
    \union [run_id : {"r3"}, inbound_seq : {0}, agent_kind : {"orchestrator", "specialist"},
            observe_only : {TRUE}]

MCResults ==
    [actions : {<<>>, <<"add_reaction">>, <<"add_reaction", "send_message">>}, final_text : {"text"}]
    \union [actions : {<<>>}, final_text : {"blank"}]

\* Days of four hours of two minutes, in months of three and two days.  The
\* clocks change on day 3, at noon, at midnight, in its last hour, or over the
\* whole day.
Clock(base, changes) == [base |-> base, changes |-> changes]
Change(at, offset) == [at |-> at, offset |-> offset]

MCZones ==
    [utc |-> Clock(0, <<>>),
     spring |-> Clock(2, <<Change(26, 4)>>),
     fall |-> Clock(4, <<Change(26, 2)>>),
     both |-> Clock(0, <<Change(10, 2), Change(28, 0)>>),
     midnight_gap |-> Clock(0, <<Change(24, 2)>>),
     midnight_overlap |-> Clock(2, <<Change(22, 0)>>),
     late_gap |-> Clock(0, <<Change(30, 2)>>),
     dateline |-> Clock(-4, <<Change(28, 4)>>)]

MCMonthLengths == <<3, 2>>

Times == {<<0, 0>>, <<2, 0>>, <<3, 1>>}

Plain == [calendar |-> {}, after_seconds |-> 3, every_seconds |-> {}]
Calendar(spec) == [Plain EXCEPT !.calendar = {spec}]

MCRevised ==
    {Calendar([kind |-> "daily", at |-> <<2, 1>>, tz |-> "fall"]),
     [Plain EXCEPT !.every_seconds = {5}]}

MCPayloads ==
    UNION {{Calendar([kind |-> "daily", at |-> at, tz |-> tz]),
            Calendar([kind |-> "weekly", at |-> at, tz |-> tz, days |-> {"thu", "sat"}]),
            Calendar([kind |-> "monthly", at |-> at, tz |-> tz, day |-> 1]),
            Calendar([kind |-> "monthly", at |-> at, tz |-> tz, day |-> 31])} :
             <<at, tz>> \in Times \X DOMAIN MCZones}
    \union MCRevised
    \union {Calendar([kind |-> "weekly", at |-> <<1, 0>>, tz |-> "utc", days |-> {}]),
            Calendar([kind |-> "weekly", at |-> <<1, 0>>, tz |-> "utc", days |-> {"someday"}]),
            Calendar([kind |-> "monthly", at |-> <<1, 0>>, tz |-> "utc", day |-> 0]),
            Calendar([kind |-> "daily", at |-> <<4, 0>>, tz |-> "utc"]),
            Calendar([kind |-> "daily", at |-> <<>>, tz |-> "utc"]),
            Calendar([kind |-> "daily", at |-> <<1, 0>>, tz |-> "nowhere"]),
            Plain, [Plain EXCEPT !.every_seconds = {0}]}

MCSources ==
    [channel : {"slack"}, chat_id : {Absent, "c1"}, thread_id : {Absent, "t1"}, message_id : {"m1"},
     version : {"v1"}, source_user_id : {Absent, "u1"}, job_id : {"j1"}, captured_at : {"now"}]
    \union [channel : {"slack"}, chat_id : {"c1"}, thread_id : {Absent}, message_id : {Absent, "m1"},
            version : {"v1", "v2"}, source_user_id : {"u1"}, job_id : {"j1"}, captured_at : {"now"}]

MCBodies == {{}, {"credential"}, {"instruction"}, {"instruction", "approval"}}

MCContexts ==
    {DefaultContext}
    \union [channel : {"slack", "telegram"}, chat_id : {"c1", "c2"}, thread_id : {Absent, "t1", "t2"},
            user_id : {"u1", "u2"}, is_owner_admin : BOOLEAN]

\* A specialist that goes by a proxy of its own and mounts a volume of a blocked
\* kind, and one whose workspace is named like a credential.
MCSlugs == [browser |-> "browser-1", keys |-> "credentials"]
MCSpecEnv == [browser |-> [HTTPS_PROXY |-> "own"], keys |-> NoEnv]
MCSpecVolumes == [browser |-> {Path("board", "data"), Path("home", ".aws")}, keys |-> {}]

MCAnswers ==
    {[env |-> {"HTTPS_PROXY"}, ca_certificate |-> TRUE, ca_certificate_container_path |-> TRUE],
     [env |-> {"NODE_EXTRA_CA_CERTS"}, ca_certificate |-> FALSE, ca_certificate_container_path |-> TRUE]}

Sym == Permutations(Hosts) \union Permutations({g1, g2, g3})

-----------------------------------------------------------------------------
Init ==
    /\ part \in {"manifests", "agent", "handoff", "groups", "jobs", "recurrence", "observe",
                "recovery", "spawn"}
    /\ ManifestInit /\ AgentInit /\ HandoffInit /\ DelegationInit /\ RecurrenceInit /\ ObserveInit
    /\ RecoveryInit /\ SpawnInit

Only(p) ==
    /\ part = p
    /\ UNCHANGED part
    /\ p # "manifests" => UNCHANGED manifestVars
    /\ p # "agent" => UNCHANGED agentVars
    /\ p # "handoff" => UNCHANGED handoffVars
    /\ p \notin {"groups", "jobs"} => UNCHANGED delegationVars
    /\ p # "recurrence" => UNCHANGED recurrenceVars
    /\ p # "observe" => UNCHANGED observeVars
    /\ p # "recovery" => UNCHANGED recoveryVars
    /\ p # "spawn" => UNCHANGED spawnVars

Next ==
    \/ Only("manifests") /\ ManifestNext
    \/ Only("agent") /\ AgentNext
    \/ Only("handoff") /\ HandoffNext
    \/ Only("groups") /\ GroupNext
    \/ Only("jobs") /\ JobNext
    \/ Only("recurrence") /\ RecurrenceNext
    \/ Only("observe") /\ ObserveNext
    \/ Only("recovery") /\ RecoveryNext
    \/ Only("spawn") /\ SpawnNext

Spec ==
    Init /\ [][Next]_<<part, manifestVars, agentVars, handoffVars, delegationVars, recurrenceVars,
                       observeVars, recoveryVars, spawnVars>>
=============================================================================
