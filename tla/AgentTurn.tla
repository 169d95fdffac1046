----------------------------- MODULE AgentTurn -----------------------------
(***************************************************************************)
(* What one agent turn can write: how a specialist is registered           *)
(* (assistant-config specialists.rs, host lib.rs), the configuration its   *)
(* container gets (host delegation.rs), the tools the shim builds from it  *)
(* (specialist.js, claude.js, assistant-tools.js) and the rows the runner  *)
(* emits for the calls the model made (index.js).                          *)
(***************************************************************************)
EXTENDS Naturals, Sequences, FiniteSets, SequencesExt

CONSTANTS None, Error

Orchestrator == <<"orchestrator">>   \* route names are sequences of the parts between dashes

\* SpecialistSpec: the fields that decide what the agent may do and where.
SpecialistSpec(Names, Tools) ==
    [route_name: Names, mcp_tools: SUBSET Tools, destinations: SUBSET (Names \cup {Orchestrator}),
     slack_wired: BOOLEAN, turn_timeout: Nat \cup {None}, max_turns: Nat,
     repository: BOOLEAN, tag: BOOLEAN, digest: BOOLEAN]

-----------------------------------------------------------------------------
(* Registration *)

\* SpecialistEntry: a bundle below the specialists directory, whether it is
\* enabled, what is overridden, and what reading and parsing the bundle gives.
SpecialistEntry(Specs) ==
    [path: {"below", "parent", "absolute"}, enabled: BOOLEAN, file: Specs \cup {Error},
     overrides: [digest: BOOLEAN, max_turns: Nat \cup {None}]]

\* SpecialistOverrides: capacity and pinning, never tools or prompt.
apply(overrides, spec) ==
    [spec EXCEPT !.digest = @ \/ overrides.digest,
                 !.max_turns = IF overrides.max_turns = None THEN @ ELSE overrides.max_turns]

\* A bundle is named by its path below the specialists directory; absolute paths
\* and .. are refused.
resolve_bundle_path(bundle) == bundle.path \notin {"absolute", "parent"}

\* The image must be pullable: a repository and a tag or digest.
validate_image_ref(spec) == spec.repository /\ (spec.tag \/ spec.digest)

\* One entry becomes a spec or an error.
resolve_entry(entry) ==
    IF ~ resolve_bundle_path(entry) \/ entry.file = Error THEN Error
    ELSE LET spec == apply(entry.overrides, entry.file)
         IN  IF validate_image_ref(spec) THEN spec ELSE Error

\* resolve_specialists: disabled entries are passed over, one bad entry fails all.
resolve_specialists(entries) ==
    LET enabled == SelectSeq(entries, LAMBDA e : e.enabled)
        specs == [i \in DOMAIN enabled |-> resolve_entry(enabled[i])]
    IN  IF \E i \in DOMAIN specs : specs[i] = Error THEN Error ELSE specs

\* registered_specialists: the compiled ones first, and no route name twice.
registered_specialists(compiled, entries) ==
    LET resolved == resolve_specialists(entries)
        all == compiled \o resolved
        duplicate == \E i, j \in DOMAIN all : i # j /\ all[i].route_name = all[j].route_name
    IN  IF resolved = Error THEN Error
        ELSE IF duplicate THEN Error ELSE all

-----------------------------------------------------------------------------
(* The container *)

(* Mutant: the roster of the orchestrator is passed on as the destinations. *)
MutantWholeRoster(base, spec) ==
    [auth_mode |-> "specialist", memory |-> FALSE, turn_timeout |-> base.turn_timeout,
     idle_after |-> base.idle_after, stale_after |-> base.stale_after,
     env |-> [MCP_TOOLS |-> spec.mcp_tools, DESTINATIONS |-> base.env.SPECIALISTS,
              MAX_TURNS |-> spec.max_turns, SPECIALISTS |-> None]]

\* agent_host_config: the specialist's image and identity in place of the
\* orchestrator's, no memory, a deadline of its own with staleness following it,
\* and its declarations as environment.
agent_host_config(base, spec) ==
    LET timeout == spec.turn_timeout
        min(a, b) == IF a < b THEN a ELSE b
    IN  [auth_mode |-> IF base.auth_mode = "stub" THEN "stub" ELSE "specialist",
         memory |-> FALSE,
         turn_timeout |-> IF timeout = None THEN base.turn_timeout ELSE timeout,
         idle_after |-> IF timeout = None THEN base.idle_after ELSE min(base.idle_after, timeout),
         stale_after |-> IF timeout = None THEN base.stale_after ELSE timeout,
         env |-> [MCP_TOOLS |-> spec.mcp_tools, DESTINATIONS |-> spec.destinations,
                  MAX_TURNS |-> spec.max_turns, SPECIALISTS |-> None]]

\* A set of names read from the environment: absent or malformed reads as empty.
jsonStringArray(raw) == IF raw \in {None, Error} THEN {} ELSE raw
jsonDestinations(raw) == IF raw \in {None, Error} THEN {} ELSE raw
specialistsFromEnv(raw) == IF raw \in {None, Error} THEN {} ELSE raw

\* specialistOptionsFromEnv: a step ceiling of 0 means none.
specialistOptionsFromEnv(env) ==
    [mcpTools |-> jsonStringArray(env.MCP_TOOLS),
     destinations |-> jsonDestinations(env.DESTINATIONS),
     maxTurns |-> IF env.MAX_TURNS > 0 THEN env.MAX_TURNS ELSE None]

-----------------------------------------------------------------------------
(* The tools and the rows *)

\* In the order their rows are emitted.
ALL_ASSISTANT_TOOLS ==
    <<"schedule_message", "cancel_schedule", "pause_schedule", "resume_schedule",
      "save_memory", "send_message">>

\* The tools of a turn: the enabled ones, and send_message only with somebody to
\* send to.
buildAssistantTools(enabled, destinations, freeformTo) ==
    {t \in ToSet(ALL_ASSISTANT_TOOLS) :
        t \in enabled /\ (t = "send_message" => freeformTo \/ destinations # {})}

Row(kind, arg) == [kind |-> kind, arg |-> arg]

\* The calls a model can make with its tools: an argument is a schedule, the id
\* of one, or a recipient out of the enumeration (any string when free-form).
Calls(tools, recipients, ids) ==
    {Row(t, None) : t \in tools \cap {"schedule_message", "save_memory"}}
    \cup {Row(t, i) : t \in tools \cap {"cancel_schedule", "pause_schedule", "resume_schedule"}, i \in ids}
    \cup {Row(t, to) : t \in tools \cap {"send_message"}, to \in recipients}

\* runSpecialistTurn: what its environment lets a specialist's model call.
specialist_calls(env, ids) ==
    LET options == specialistOptionsFromEnv(env)
        tools == buildAssistantTools(options.mcpTools, options.destinations, FALSE)
    IN  Calls(tools, options.destinations, ids)

\* runClaudeTurn: the orchestrator has every tool and addresses anybody, the
\* specialists of its menu and any channel.
orchestrator_calls(menu, channels, ids) ==
    LET specialists == specialistsFromEnv(menu)
        tools == buildAssistantTools(ToSet(ALL_ASSISTANT_TOOLS), specialists, TRUE)
    IN  Calls(tools, specialists \cup channels, ids)

\* The calls are buffered tool by tool: what is left of their order is that of
\* the tools.
buffered(calls, n) ==
    LET position(kind) == CHOOSE i \in DOMAIN ALL_ASSISTANT_TOOLS : ALL_ASSISTANT_TOOLS[i] = kind
    IN  {c \in [1 .. n -> calls] : \A i, j \in 1 .. n : i < j => position(c[i].kind) <= position(c[j].kind)}

\* The rows of a turn: the buffered calls, then the text.  There is always one
\* row, or the host would wait.  The row with the usage the SDK reported is
\* counted when the turn returns and is left out.
rows(calls, text) == IF text \/ calls = <<>> THEN Append(calls, Row("text", None)) ELSE calls

\* What a turn can leave in the outbound database.  One that throws loses its
\* buffers and answers with the error as text.
turn_rows(calls, MaxCalls) ==
    {rows(c, text) : c \in UNION {buffered(calls, n) : n \in 0 .. MaxCalls}, text \in BOOLEAN}
    \cup {<<Row("text", None)>>}
=============================================================================
