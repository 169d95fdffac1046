------------------------------ MODULE Handoff -------------------------------
(***************************************************************************)
(* Handoffs between agent groups over the session protocol: an allow-list  *)
(* of edges that only grows, packets into a specialist's inbox, results    *)
(* taken from its outbox and brought back.  It is a library: HandOver and  *)
(* BringBack are its caller, as the tests of the crate show it.  An inbox  *)
(* is the sequence of rows of an inbound database, an outbox that of an    *)
(* outbound one.                                                           *)
(***************************************************************************)
EXTENDS Naturals, Sequences, FiniteSets, CycleSearch

CONSTANTS Groups,
          Packets,                  \* packets: [goal, facts]
          Rows,                     \* what a runner writes: [kind, result], a result is [artifacts]
          MaxArtifact,              \* the largest artifact a result may refer to
          MaxEdges, MaxMessages,    \* bounds on edges and messages
          MaxRows                   \* bound on the rows of an outbox

ASSUME HandoffAssumption == IsFiniteSet(Groups)

VARIABLES edges, inbox, outbox, routing_events

handoffVars == <<edges, inbox, outbox, routing_events>>

-----------------------------------------------------------------------------
(* Gates *)

\* Blank text is <<>>.
validate_handoff(packet) == packet.goal # <<>> /\ \A f \in packet.facts : f # <<>>

\* An artifact is [by_reference, size], where the size may be unknown: <<>>.
artifacts_within_policy(result) ==
    \A a \in result.artifacts : a.by_reference /\ (a.size = <<>> \/ a.size[1] <= MaxArtifact)

Nodes(E) == {e[1] : e \in E} \union {e[2] : e \in E}

first_cycle_node(E) == has_cycle([n \in Nodes(E) |-> SetToSeq({m \in Nodes(E) : <<n, m>> \in E})])

is_allowed(from, to) == <<from, to>> \in edges

(* Mutant: only the edge itself is looked at. *)
MutantEdgeOnly(from, to) == is_allowed(from, to)

\* A cycle anywhere in the list refuses every handoff.
authorize_a2a(from, to) == ~first_cycle_node(edges) /\ is_allowed(from, to)

-----------------------------------------------------------------------------
(* Operations *)

allow(from, to) ==
    /\ Cardinality(edges) < MaxEdges
    /\ edges' = edges \union {<<from, to>>}
    /\ UNCHANGED <<inbox, outbox, routing_events>>

\* enqueue_inbound into the session of the receiver.
deliver_handoff(from, to) ==
    inbox' = [inbox EXCEPT ![to] = Append(@, [kind |-> "specialist_handoff", from |-> from])]

deliver_result(from, to) ==
    inbox' = [inbox EXCEPT ![to] = Append(@, [kind |-> "specialist_result", from |-> from])]

record(from, to, kind) ==
    /\ Len(routing_events) < MaxMessages
    /\ routing_events' = Append(routing_events, <<from, to, kind>>)
    /\ UNCHANGED <<edges, outbox>>

route_handoff(from, to) ==
    authorize_a2a(from, to) /\ deliver_handoff(from, to) /\ record(from, to, "specialist_handoff")

\* Results are not gated by the list.
route_result(from, to) == deliver_result(from, to) /\ record(from, to, "specialist_result")

HandOver(from, to, packet) == validate_handoff(packet) /\ route_handoff(from, to)

\* The runner of a group writes a result, or anything else, to its outbox.
Emit(g, row) ==
    /\ Len(outbox[g]) < MaxRows
    /\ \E i \in DOMAIN inbox[g] : inbox[g][i].kind = "specialist_handoff"
    /\ outbox' = [outbox EXCEPT ![g] = Append(@, row)]
    /\ UNCHANGED <<edges, inbox, routing_events>>

\* The last result there is, if any; it may be of an earlier handoff.
collect_result(g) ==
    LET results == {i \in DOMAIN outbox[g] : outbox[g][i].kind = "specialist_result"}
    IN {outbox[g][i].result : i \in {j \in results : \A k \in results : k <= j}}

\* The return path of a handoff names the group that asked.
BringBack(g, i) ==
    /\ i \in DOMAIN inbox[g] /\ inbox[g][i].kind = "specialist_handoff"
    /\ \E result \in collect_result(g) : artifacts_within_policy(result)
    /\ route_result(g, inbox[g][i].from)

HandoffInit ==
    /\ edges = {} /\ routing_events = <<>>
    /\ inbox = [g \in Groups |-> <<>>] /\ outbox = [g \in Groups |-> <<>>]

HandoffNext ==
    \/ \E from, to \in Groups : allow(from, to) \/ \E packet \in Packets : HandOver(from, to, packet)
    \/ \E g \in Groups, row \in Rows : Emit(g, row)
    \/ \E g \in Groups, i \in 1 .. MaxMessages : BringBack(g, i)

-----------------------------------------------------------------------------
(* Properties *)

Routed(kind) ==
    {<<routing_events[i][1], routing_events[i][2]>> :
       i \in {j \in DOMAIN routing_events : routing_events[j][3] = kind}}

Closed(S, E) == \A e \in E : e[1] \in S => e[2] \in S

\* A chain of handoffs ends: though edges are added between handoffs, those
\* that were ever used form no cycle (authorize_a2a, first_cycle_node), and a
\* result travels only against a handoff.
HandoffsTerminate ==
    LET used == Routed("specialist_handoff") IN
    /\ \A e \in used : \E S \in SUBSET Groups : e[2] \in S /\ e[1] \notin S /\ Closed(S, used)
    /\ \A e \in Routed("specialist_result") : <<e[2], e[1]>> \in used
=============================================================================
