----------------------------- MODULE Messaging -----------------------------
(***************************************************************************)
(* Agents that write to each other: assistant-host slack.rs, from a turn's *)
(* rows to the turns and posts they cause (deliver_reply,                  *)
(* finalize_scheduled_turn, route_send_message), and the standing tasks of *)
(* scheduler.rs.  A cascade runs depth first on the serve thread, so the   *)
(* rows still to be handled are a stack.  When items are due, leases and   *)
(* background workers are in Scheduler; here an active item may fire at    *)
(* any time and its worker's result is drained at once.  What Scheduler    *)
(* does not have is items of several sessions, each with its source row in *)
(* the session it was made in, that any agent may end from another one.    *)
(***************************************************************************)
EXTENDS AgentTurn

CONSTANTS
    Compiled,        \* the product's specialists
    Entries,         \* the specialists of the configuration
    Channels,        \* Slack channel ids, as session ids
    StandingTasks,   \* [id, run_as, gate] of each standing task; gate: None, "host" or "container"
    DynamicIds,      \* ids of items that turns create
    MAX_DEPTH,       \* hops of a cascade
    MaxCalls,        \* bound: tool calls in one turn
    Recurrences,     \* bound: whether items that turns create recur, within BOOLEAN
    UsedTools        \* bound: the tools models make use of

standing == <<"standing">>
registered == registered_specialists(Compiled, Entries)
agents == [i \in DOMAIN registered |-> registered[i].route_name] \o <<Orchestrator>>
Route(name) == CHOOSE i \in DOMAIN registered : registered[i].route_name = name
Registered(name) == \E i \in DOMAIN registered : registered[i].route_name = name
base == [auth_mode |-> "claude_oauth", memory |-> TRUE, turn_timeout |-> 120, idle_after |-> 30, stale_after |-> 300,
         env |-> [SPECIALISTS |-> {registered[i].route_name : i \in DOMAIN registered}]]

ASSUME MessagingAssumption ==
    /\ registered # Error
    /\ None \notin {"active", "paused", "cancelled", "completed"}   \* the statuses of an item
    /\ None \notin {Orchestrator} \cup {registered[i].route_name : i \in DOMAIN registered}
    /\ MAX_DEPTH \in Nat /\ MaxCalls \in Nat /\ Recurrences \subseteq BOOLEAN
    /\ Channels \cap ToSet(agents) = {}
    /\ {t.id : t \in StandingTasks} \cap DynamicIds = {}
    /\ UsedTools \subseteq ToSet(ALL_ASSISTANT_TOOLS)

ItemIds == {t.id : t \in StandingTasks} \cup DynamicIds

VARIABLES
    items,      \* items[i]: status, session, run_as and recurring of a scheduled item
    source,     \* source[i]: the same, in the item's row in messages_in of that session
    pending,    \* the rows of the cascade that are still to be handled, innermost first
    effect,     \* what the last step did outside: a post, or a turn of an agent
    serving     \* the daemon is up

vars == <<items, source, pending, effect, serving>>

-----------------------------------------------------------------------------
(* Session names *)

\* a2a-<name>-<root>, for a specialist or the orchestrator.
a2a_session(name, root) == <<"a2a">> \o name \o root

(* Mutant: the sender's session is used as it is. *)
MutantNoRoot(sid) == sid

\* conversation_root: leading a2a-<name>- are taken off, the first name of the
\* list that fits each time.
conversation_root(sid) ==
    LET fits(i) == {k \in DOMAIN agents :
                      /\ i + Len(agents[k]) < Len(sid)
                      /\ SubSeq(sid, i + 1, i + Len(agents[k])) = agents[k]}
        first(S) == CHOOSE k \in S : \A m \in S : k <= m
        at[i \in 1 .. Len(sid) + 1] ==
            IF i < Len(sid) /\ sid[i] = "a2a" /\ fits(i) # {}
            THEN at[i + 1 + Len(agents[first(fits(i))])]
            ELSE i
    IN  SubSeq(sid, at[1], Len(sid))

-----------------------------------------------------------------------------
(* Turns *)

\* The ids in the <schedules> block: items that are active or paused.
render_schedules_block == {i \in ItemIds : items[i].status \in {"active", "paused"}}

Only(calls) == {c \in calls : c.kind \in UsedTools}

orchestrator_turn == turn_rows(Only(orchestrator_calls(base.env.SPECIALISTS, Channels, render_schedules_block)), MaxCalls)

specialist_turn(name) ==
    LET env == agent_host_config(base, registered[Route(name)]).env
    IN  turn_rows(Only(specialist_calls(env, render_schedules_block)), MaxCalls)

\* The rows of a turn become work of the serve thread, before what was pending.
Work(rs, session, by, wired, depth, path) ==
    [i \in DOMAIN rs |-> [kind |-> rs[i].kind, arg |-> rs[i].arg, session |-> session, by |-> by,
                          wired |-> wired, depth |-> depth, path |-> path]]

\* A turn of an agent in a session, on behalf of another, and a post to a chat.
Turn(agent, session, from) == [turn |-> agent, session |-> session, by |-> from]
Post(chat, by) == [turn |-> None, session |-> chat, by |-> by]

Finalize(item) == <<[kind |-> "finalize", arg |-> item, session |-> None, by |-> None,
                     wired |-> FALSE, depth |-> 0, path |-> "scheduled"]>>

-----------------------------------------------------------------------------
(* The daemon *)

NoItem == [status |-> None, session |-> None, run_as |-> None, recurring |-> FALSE, gate |-> None]

Init ==
    /\ items = [i \in ItemIds |-> NoItem]
    /\ source = [i \in ItemIds |-> NoItem]
    /\ pending = <<>>
    /\ effect = None
    /\ serving = FALSE

\* ensure_standing_tasks: a task whose item exists, in any status, is left alone.
ensure_standing_tasks(its) ==
    [i \in ItemIds |->
        IF its[i].status = None /\ \E t \in StandingTasks : t.id = i
        THEN LET task == CHOOSE t \in StandingTasks : t.id = i
             IN  [status |-> "active", session |-> standing, run_as |-> task.run_as,
                  recurring |-> TRUE, gate |-> task.gate]
        ELSE its[i]]

\* repair_existing_sessions: an item is again as its source row says; what fails,
\* a session or the rest of one, is left as it is.
repair_existing_sessions(its, repaired) ==
    [i \in ItemIds |-> IF i \in repaired /\ source[i] # NoItem THEN source[i] ELSE its[i]]

\* run_slack: the specialists are resolved, the standing tasks registered and the
\* items repaired; a database that fails is reported and the daemon goes on without.
Serve ==
    /\ ~ serving
    /\ \E its \in {ensure_standing_tasks(items), items}, repaired \in SUBSET ItemIds :
        items' = repair_existing_sessions(its, repaired)
    /\ serving' = TRUE /\ effect' = None
    /\ UNCHANGED <<source, pending>>

\* The daemon stops or dies; what it was handling is gone with it.
Stop ==
    /\ serving
    /\ serving' = FALSE
    /\ pending' = <<>> /\ effect' = None
    /\ UNCHANGED <<items, source>>

\* handle_event, past its gate: a message in a channel is a turn of the
\* orchestrator in the channel's session.
Inbound(c) ==
    /\ serving /\ pending = <<>>
    /\ \E rs \in orchestrator_turn :
        pending' = Work(rs, c, Orchestrator, TRUE, 0, "inbound")
    /\ effect' = Turn(Orchestrator, c, None)
    /\ UNCHANGED <<items, source, serving>>

\* run_gate: the command fires the turn when it exits with success and prints
\* something.
run_gate(spawned, success, stdout) ==
    IF ~ spawned THEN Error ELSE IF success /\ stdout THEN "fire" ELSE "skip"

\* run_gate_in_container: without a gateway on the host after all; with one its
\* configuration must be fetched first.
run_gate_in_container(gateway, fetched, spawned, success, stdout) ==
    IF gateway /\ ~ fetched THEN Error ELSE run_gate(spawned, success, stdout)

\* What the gate of an item may say.
gate_outcome(i) ==
    CASE items[i].gate = None -> {"fire"}
      [] items[i].gate = "host" -> {run_gate(a, b, c) : a, b, c \in BOOLEAN}
      [] items[i].gate = "container" ->
            {run_gate_in_container(g, f, a, b, c) : g, f, a, b, c \in BOOLEAN}

\* finalize_firing: a one-off that is still active is done.
finalize_firing(its, i) ==
    IF its[i].status = "active" /\ ~ its[i].recurring
    THEN [its EXCEPT ![i].status = "completed"] ELSE its

\* scheduler_tick: an active item is claimed.  Its gate may say there is nothing
\* to do, which counts as fired, but the source is not told; an item whose gate
\* cannot run, or that names an agent nobody registered, is left for a later sweep.
GateSkips(i) ==
    /\ serving /\ pending = <<>>
    /\ items[i].status = "active" /\ "skip" \in gate_outcome(i)
    /\ items' = finalize_firing(items, i) /\ effect' = None
    /\ UNCHANGED <<source, pending, serving>>

\* An item of the orchestrator runs in the session it was made in.  A turn that
\* fails leaves the item for a later sweep.
FireInline(i) ==
    /\ serving /\ pending = <<>>
    /\ items[i].status = "active" /\ "fire" \in gate_outcome(i)
    /\ items[i].run_as = None
    /\ \E rs \in orchestrator_turn :
        pending' = Work(rs, items[i].session, Orchestrator, TRUE, 0, "scheduled") \o Finalize(i)
    /\ effect' = Turn(Orchestrator, items[i].session, None)
    /\ UNCHANGED <<items, source, serving>>

RunsAs(i) ==
    /\ serving /\ pending = <<>>
    /\ items[i].status = "active" /\ "fire" \in gate_outcome(i)
    /\ items[i].run_as # None /\ Registered(items[i].run_as)

\* An item of a specialist runs in a session of its own; its rows have their
\* effect in the session of the item.
FireRunAs(i) ==
    /\ RunsAs(i)
    /\ LET name == items[i].run_as IN
        \E rs \in specialist_turn(name) :
            pending' = Work(rs, items[i].session, name, registered[Route(name)].slack_wired, 0, "run_as")
                       \o Finalize(i)
    /\ effect' = None
    /\ UNCHANGED <<items, source, serving>>

\* When its turn fails the occurrence is finalized all the same, and the source
\* is not told.
RunAsFails(i) ==
    /\ RunsAs(i)
    /\ items' = finalize_firing(items, i) /\ effect' = None
    /\ UNCHANGED <<source, pending, serving>>

-----------------------------------------------------------------------------
(* Handling a row *)

row == Head(pending)
rest == Tail(pending)

\* A turn lays the directory of its session; one of a run_as item has another, so
\* the item's may be missing: that of the standing tasks, if none runs inline.
HasDirectory ==
    row.path = "run_as" /\ row.session = standing => \E t \in StandingTasks : t.run_as = None

\* create_schedule: a new item in the session of the turn, for the agent it ran
\* as; the source row first, and the projection may fail.
create_schedule(run_as) ==
    /\ HasDirectory
    /\ \E i \in DynamicIds, recurring \in Recurrences :
        /\ source[i] = NoItem
        /\ source' = [source EXCEPT ![i] = [status |-> "active", session |-> row.session, run_as |-> run_as,
                                           recurring |-> recurring, gate |-> None]]
        /\ items' \in {[items EXCEPT ![i] = source'[i]], items}

\* cancel_item, pause_item and resume_item, each from the statuses it allows.
transition_item(table, kind, i) ==
    LET from == CASE kind = "cancel_schedule" -> {"active", "paused"}
                  [] kind = "pause_schedule" -> {"active"}
                  [] kind = "resume_schedule" -> {"paused"}
        to == CASE kind = "cancel_schedule" -> "cancelled"
                [] kind = "pause_schedule" -> "paused"
                [] kind = "resume_schedule" -> "active"
    IN  IF table[i].status \in from THEN [table EXCEPT ![i].status = to] ELSE table

(* Mutant: the projection moves, the source row does not. *)
MutantCentralOnly(kind, i) ==
    /\ HasDirectory
    /\ items' \in {transition_item(items, kind, i), items}
    /\ UNCHANGED source

\* transition_source, which finds the row only in the item's own session, and
\* then the projection, which may fail.
cancel_schedule(kind, i) ==
    /\ HasDirectory
    /\ source' = IF source[i].session = row.session THEN transition_item(source, kind, i) ELSE source
    /\ items' \in {transition_item(items, kind, i), items}

\* deliver_reply: the side effect of a row, or its text to the chat.  In a turn
\* of a channel or a schedule a message to an agent is not routed here.
DeliverReply ==
    /\ pending # <<>>
    /\ row.path \in {"inbound", "scheduled", "run_as"} /\ row.kind # "finalize"
    /\ row.kind = "send_message" => row.path = "inbound"
    /\ LET run_as == IF row.path = "run_as" THEN row.by ELSE None IN
       \/ /\ row.kind = "schedule_message"
          /\ create_schedule(run_as)
          /\ effect' = None
       \/ /\ row.kind \in {"cancel_schedule", "pause_schedule", "resume_schedule"}
          /\ cancel_schedule(row.kind, row.arg)
          /\ effect' = None
       \/ /\ row.kind # "text"       \* nothing here, or the source row cannot be written
          /\ effect' = None /\ UNCHANGED <<items, source>>
       \/ /\ row.kind = "text"
          /\ effect' = IF run_as = None THEN Post(row.session, row.by) ELSE None
          /\ UNCHANGED <<items, source>>
    /\ pending' = rest
    /\ UNCHANGED serving

\* In a relay or agent session only messages and schedules have an effect.
DeliverInternal ==
    /\ pending # <<>>
    /\ row.path \in {"relay", "a2a"} /\ row.kind # "send_message"
    /\ \/ /\ row.kind = "schedule_message"
          /\ create_schedule(IF row.path = "a2a" THEN row.by ELSE None)
       \/ UNCHANGED <<items, source>>
    /\ pending' = rest /\ effect' = None
    /\ UNCHANGED serving

\* record_fired, whatever status the row has.
record_fired(i) ==
    IF source[i] # NoItem /\ ~ source[i].recurring
    THEN [source EXCEPT ![i].status = "completed"] ELSE source

\* finalize_scheduled_turn, its replies handled: the source row, then the
\* projection; either write may fail.
FinalizeScheduledTurn ==
    /\ pending # <<>> /\ row.kind = "finalize"
    /\ source' \in {record_fired(row.arg), source}
    /\ items' \in {finalize_firing(items, row.arg), items}
    /\ pending' = rest /\ effect' = None
    /\ UNCHANGED serving

Routed == pending # <<>> /\ row.kind = "send_message" /\ row.path # "inbound"

\* route_send_message past the hop limit.
HopLimit ==
    /\ Routed /\ row.depth > MAX_DEPTH
    /\ pending' = rest /\ effect' = None
    /\ UNCHANGED <<items, source, serving>>

(* Mutant: the relay does not count as a hop. *)
MutantFreeRelay ==
    LET relay == a2a_session(Orchestrator, conversation_root(row.session)) IN
    /\ Routed /\ row.depth <= MAX_DEPTH
    /\ row.arg = Orchestrator
    /\ \E rs \in orchestrator_turn :
        pending' = Work(rs, relay, Orchestrator, TRUE, 0, "relay") \o rest
    /\ effect' = Turn(Orchestrator, relay, row.by)
    /\ UNCHANGED <<items, source, serving>>

\* To the orchestrator: a turn in the relay session, whose messages may post.
RouteToOrchestrator ==
    LET relay == a2a_session(Orchestrator, conversation_root(row.session)) IN
    /\ Routed /\ row.depth <= MAX_DEPTH
    /\ row.arg = Orchestrator
    /\ \E rs \in orchestrator_turn \cup {<<>>} :   \* <<>>: the turn failed
        pending' = Work(rs, relay, Orchestrator, TRUE, row.depth + 1, "relay") \o rest
    /\ effect' = Turn(Orchestrator, relay, row.by)
    /\ UNCHANGED <<items, source, serving>>

(* Mutant: a specialist inherits the wire of who wrote to it. *)
MutantInheritWire ==
    /\ Routed /\ row.depth <= MAX_DEPTH
    /\ row.arg # Orchestrator /\ Registered(row.arg)
    /\ LET session == a2a_session(row.arg, conversation_root(row.session)) IN
        /\ \E rs \in specialist_turn(row.arg) :
            pending' = Work(rs, session, row.arg, row.wired, row.depth + 1, "a2a") \o rest
        /\ effect' = Turn(row.arg, session, row.by)
    /\ UNCHANGED <<items, source, serving>>

\* To a specialist: a turn in its session for this conversation; what it sends
\* on is never wired to Slack.
RouteToSpecialist ==
    /\ Routed /\ row.depth <= MAX_DEPTH
    /\ row.arg # Orchestrator /\ Registered(row.arg)
    /\ LET session == a2a_session(row.arg, conversation_root(row.session)) IN
        /\ \E rs \in specialist_turn(row.arg) \cup {<<>>} :
            pending' = Work(rs, session, row.arg, FALSE, row.depth + 1, "a2a") \o rest
        /\ effect' = Turn(row.arg, session, row.by)
    /\ UNCHANGED <<items, source, serving>>

\* Anything else is a channel: posted for a wired sender, dropped for others.
RouteToChannel ==
    /\ Routed /\ row.depth <= MAX_DEPTH
    /\ row.arg # Orchestrator /\ ~ Registered(row.arg)
    /\ effect' = IF row.wired THEN Post(row.arg, row.by) ELSE None
    /\ pending' = rest
    /\ UNCHANGED <<items, source, serving>>

Handle ==
    \/ DeliverReply \/ DeliverInternal \/ FinalizeScheduledTurn
    \/ HopLimit \/ RouteToOrchestrator \/ RouteToSpecialist \/ RouteToChannel

Next ==
    \/ Serve \/ Stop \/ Handle
    \/ \E c \in Channels : Inbound(c)
    \/ \E i \in ItemIds : GateSkips(i) \/ FireInline(i) \/ FireRunAs(i) \/ RunAsFails(i)

\* Once a cascade has begun the serve thread works on nothing else.
Spec == Init /\ [][Next]_vars /\ WF_vars(Handle)

-----------------------------------------------------------------------------
(* Properties *)

\* However a message travels, only a turn of the orchestrator, or of an agent
\* declared to be wired to Slack, posts to a channel (route_send_message,
\* finalize_scheduled_turn).
OnlyWiredPosts ==
    effect # None /\ effect.turn = None =>
        effect.by = Orchestrator \/ (Registered(effect.by) /\ registered[Route(effect.by)].slack_wired)

\* What conversation_root takes for granted of the names: no session of a
\* channel or of the standing tasks begins as an agent's does, and no route name
\* is a prefix, up to a dash, of another one with a session after it.
NamesApart ==
    LET roots == Channels \cup {standing}
        names == [i \in DOMAIN registered |-> registered[i].route_name]
    IN
    /\ names \in Seq(Range(names)) /\ \A i \in DOMAIN names : names[i] \in Seq(Range(names[i]))
    /\ \A r \in roots : r \in Seq(Range(r)) /\ r # <<>> /\ r[1] # "a2a"
    /\ \A k, m \in DOMAIN agents, r \in roots :
          IsStrictPrefix(agents[k], agents[m] \o r) => agents[k] = agents[m]

\* Exchanges of many hops reuse one session for each agent and conversation: no
\* session name ever grows (conversation_root, orchestrator_relay_session).
StableSessions ==
    LET roots == Channels \cup {standing} IN
    effect # None /\ effect.turn # None =>
        effect.session \in roots \cup {a2a_session(effect.turn, r) : r \in roots}

\* An agent makes another take a turn only when its spec names it as a
\* destination, although the host does not look the list up: the shim's
\* enumeration is what enforces it (agent_host_config, buildAssistantTools).
AllowListHolds ==
    effect # None /\ effect.turn # None =>
        \/ effect.by \in {None, Orchestrator}
        \/ effect.turn \in registered[Route(effect.by)].destinations

Ended == {"cancelled", "completed"}

\* What a turn cancels in the session of the item is cancelled in its source row
\* too; what that row knows to have ended never starts again, and neither does a
\* standing task.  Another item that was ended from elsewhere, or by a background
\* turn that failed, comes back at most at a start of the daemon, from the row
\* that was not told (cancel_schedule, finalize_firing, repair_existing_sessions,
\* ensure_standing_tasks).
EndedForGood ==
    [][\A i \in ItemIds :
         /\ pending # <<>> /\ row.session = items[i].session =>
              (items[i].status # "cancelled" /\ items'[i].status = "cancelled" =>
                   source'[i].status \notin {"active", "paused"})
         /\ source[i].status \in Ended => source'[i].status \in Ended
         /\ items[i].status \in Ended =>
              \/ items'[i].status \in Ended
              \/ i \in DynamicIds /\ ~ serving /\ source[i].status \in {"active", "paused"}]_vars

\* Every cascade ends and the serve thread is free again, however the agents
\* answer each other (MAX_DEPTH of route_send_message).
CascadeEnds == pending # <<>> ~> pending = <<>>
=============================================================================
