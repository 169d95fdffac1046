------------------------------ MODULE AgentRun ------------------------------
(***************************************************************************)
(* The agent loop of assistant-agent-protocol: a run's typed actions are   *)
(* delivered in order, and its final text at most once, as a safety net.   *)
(* The loop keeps a ledger of the final texts it decided to deliver, for   *)
(* the life of a process; a run whose sink failed is run again.            *)
(***************************************************************************)
EXTENDS Naturals, Sequences, SequencesExt

CONSTANTS Runs,                     \* contexts: [run_id, inbound_seq, agent_kind, observe_only]
          Results,                  \* what a provider may return: see RunResult
          MaxTries                  \* bound on calls of run_once

VARIABLES ledger,                   \* the <<run_id, inbound_seq>> that fired
          running,                  \* the run in progress and what is left to emit, or Nothing
          sent,                     \* history: what reached the sink
          tries

agentVars == <<ledger, running, sent, tries>>

Nothing == [run |-> "none"]

OutboundAction == {"send_message", "send_file", "send_card", "ask_user_question", "edit_message",
                   "add_reaction", "schedule_message", "save_memory", "cancel_schedule",
                   "pause_schedule", "resume_schedule"}

\* Edits replace visible content; a reaction is no reply.
is_user_visible_send(action) ==
    action \in {"send_message", "send_file", "send_card", "ask_user_question", "edit_message"}

RunResult == [actions : Seq(OutboundAction), final_text : {"none", "blank", "text"}]

ASSUME ResultsAssumption == Results \subseteq RunResult

ASSUME RunsAssumption == \A ctx \in Runs : ctx.agent_kind \in {"orchestrator", "specialist"}

has_user_visible_send(result) == \E i \in DOMAIN result.actions : is_user_visible_send(result.actions[i])

decide_fallback(ctx, result) ==
    /\ ctx.agent_kind # "specialist"
    /\ ~ctx.observe_only
    /\ ~has_user_visible_send(result)
    /\ result.final_text = "text"

Key(ctx) == <<ctx.run_id, ctx.inbound_seq>>

(* Mutant: the ledger is not consulted. *)
MutantNoLedger(fired, ctx, result) == [deliver |-> decide_fallback(ctx, result), fired |-> fired]

\* The pair is recorded when the decision is taken, before anything is emitted.
decide(fired, ctx, result) ==
    LET deliver == Key(ctx) \notin fired /\ decide_fallback(ctx, result)
    IN [deliver |-> deliver, fired |-> IF deliver THEN fired \union {Key(ctx)} ELSE fired]

\* The deliveries are the actions, in order, and the fallback last.
process_run(ctx, result) ==
    LET decision == decide(ledger, ctx, result)
    IN [deliveries |-> result.actions \o (IF decision.deliver THEN <<"fallback">> ELSE <<>>),
        fired |-> decision.fired]

\* run_once up to the first delivery; a provider may answer a rerun otherwise.
run_once(ctx, result) ==
    /\ running = Nothing /\ tries < MaxTries
    /\ tries' = tries + 1
    /\ LET processed == process_run(ctx, result) IN
         /\ ledger' = processed.fired
         /\ running' = [run |-> ctx, result |-> result, left |-> processed.deliveries]
    /\ UNCHANGED sent

emit ==
    /\ running # Nothing /\ running.left # <<>>
    /\ sent' = Append(sent, [run |-> Key(running.run), result |-> running.result,
                             what |-> Head(running.left)])
    /\ running' = [running EXCEPT !.left = Tail(running.left)]
    /\ UNCHANGED <<ledger, tries>>

\* All is emitted, or the sink refused one and the rest is given up.
RunEnds ==
    /\ running # Nothing
    /\ running' = Nothing
    /\ UNCHANGED <<ledger, sent, tries>>

AgentInit == ledger = {} /\ running = Nothing /\ sent = <<>> /\ tries = 0

AgentNext ==
    \/ \E ctx \in Runs, result \in Results : run_once(ctx, result)
    \/ emit \/ RunEnds

-----------------------------------------------------------------------------
(* Properties *)

\* However often a run is retried or replayed, and whatever the sink refused
\* before, its final text is delivered at most once for an inbound message, by
\* an orchestrator that may reply, and by no run whose actions replied
\* (FallbackLedger::decide records before run_once emits).
FinalTextOnce ==
    \A i \in DOMAIN sent : sent[i].what = "fallback" =>
      /\ \A j \in DOMAIN sent : sent[j].what = "fallback" /\ sent[j].run = sent[i].run => i = j
      /\ ~has_user_visible_send(sent[i].result)
      /\ \E ctx \in Runs : Key(ctx) = sent[i].run /\ ctx.agent_kind = "orchestrator" /\ ~ctx.observe_only
=============================================================================
