---------------------------- MODULE MCMessaging ----------------------------
(* An instance of Messaging: a compiled specialist that may write to the
   orchestrator, to the other one and to one that is not enabled, and one with
   a dash in its name that comes from the configuration and may only report to
   the orchestrator. *)
EXTENDS Messaging

se == <<"se">>
docs == <<"ax", "docs">>
browser == <<"browser">>

Spec0 == [route_name |-> se, mcp_tools |-> {"send_message", "schedule_message"},
          destinations |-> {Orchestrator, docs, browser}, slack_wired |-> FALSE, turn_timeout |-> 3600,
          max_turns |-> 0, repository |-> TRUE, tag |-> TRUE, digest |-> FALSE]
Spec1 == [Spec0 EXCEPT !.route_name = docs, !.mcp_tools = {"send_message", "cancel_schedule"},
          !.destinations = {Orchestrator}, !.turn_timeout = None, !.tag = FALSE]

MCCompiled == <<Spec0>>
MCEntries == <<[path |-> "below", file |-> Spec1, enabled |-> TRUE, overrides |-> [digest |-> TRUE, max_turns |-> 5]],
               [path |-> "parent", file |-> Error, enabled |-> FALSE, overrides |-> [digest |-> FALSE, max_turns |-> None]]>>
MCChannels == {<<"C1">>}
MCStanding == {[id |-> "board", run_as |-> se, gate |-> "container"]}

\* The names of the instance can be told apart.
ASSUME MCNames == NamesApart
=============================================================================
