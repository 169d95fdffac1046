----------------------------- MODULE CliBridge ------------------------------
(***************************************************************************)
(* assistant-cli: commands that an agent submits from its container over   *)
(* the outbound stream of its session, and that the host serves.           *)
(*                                                                         *)
(* A serving pass reads a batch of requests and then, request by request,  *)
(* dispatches, writes the response and marks the request delivered; each   *)
(* write can fail, which ends the pass.  The high-water mark that keeps    *)
(* the requests apart is in memory only.                                   *)
(***************************************************************************)
EXTENDS Naturals, Sequences, FiniteSets

CONSTANTS
    Commands,      \* the commands an agent may send
    ActionKinds,   \* ActionKinds[c] \in {"read", "write"}: the commands that resolve
    Authorize,     \* Authorize[k]: what the host's policy says of an agent's command
    MAX_BATCH,
    MaxRequests,   \* bound: rows of the outbound stream
    MaxFailures    \* bound: failed writes and restarts

ASSUME BridgeAssumption ==
    /\ DOMAIN ActionKinds \subseteq Commands
    /\ \A c \in DOMAIN ActionKinds : ActionKinds[c] \in {"read", "write"}
    /\ Authorize \in [{"read", "write"} -> {"allow", "deny", "needs_approval"}]
    /\ MAX_BATCH \in Nat \ {0} /\ MaxRequests \in Nat /\ MaxFailures \in Nat

VARIABLES
    outbound,     \* the rows, by seq: a request's command, "malformed", or "reply"
    responses,    \* the responses on the inbound stream, in order
    delivered,    \* the seqs marked delivered
    high_water,
    batch,        \* the requests of the pass that are still to be served
    executed,     \* executed[n]: how often this instance ran the command of n
    unsent,       \* requests whose response or mark failed in this instance
    failures

bridgeVars == <<outbound, responses, delivered, high_water, batch, executed, unsent, failures>>

-----------------------------------------------------------------------------
(* Dispatch *)

\* The registry resolves the command before the policy is asked.
dispatch(c) ==
    IF c \notin DOMAIN ActionKinds THEN "unknown"
    ELSE IF Authorize[ActionKinds[c]] = "allow" THEN "ran"
    ELSE IF Authorize[ActionKinds[c]] = "deny" THEN "denied" ELSE "approval_required"

\* The policy of the operator's own surface.
OperatorOnly(caller) == IF caller = "operator" THEN "allow" ELSE "deny"

-----------------------------------------------------------------------------
(* Serving *)

Requests == {n \in DOMAIN outbound : outbound[n] # "reply"}

Unserved == {n \in Requests : n > high_water}

\* The batch: the first MAX_BATCH unserved requests.
InBatch == {n \in Unserved : Cardinality({m \in Unserved : m < n}) < MAX_BATCH}

BridgeInit ==
    /\ outbound = <<>> /\ responses = <<>> /\ delivered = {}
    /\ high_water = 0 /\ batch = {}
    /\ executed = [n \in 1..MaxRequests |-> 0] /\ unsent = {}
    /\ failures = 0

\* The container writes a row: a request with a command, one that is malformed
\* or too large, or an ordinary reply.
Submit(row) ==
    /\ Len(outbound) < MaxRequests
    /\ outbound' = Append(outbound, row)
    /\ UNCHANGED <<responses, delivered, high_water, batch, executed, unsent, failures>>

\* pending_requests: one bad request fails the whole pass, those before it too.
pending_requests ==
    /\ batch = {} /\ InBatch # {}
    /\ \A n \in InBatch : outbound[n] # "malformed"
    /\ batch' = InBatch
    /\ UNCHANGED <<outbound, responses, delivered, high_water, executed, unsent, failures>>

First == CHOOSE n \in batch : \A m \in batch : n <= m

Execute == executed' = [executed EXCEPT ![First] =
               IF dispatch(outbound[First]) = "ran" THEN @ + 1 ELSE @]

Response == [in_reply_to |-> First, outcome |-> dispatch(outbound[First])]

(* Mutant: the mark is not moved. *)
MutantNoMark ==
    /\ batch # {}
    /\ Execute
    /\ responses' = Append(responses, Response)
    /\ delivered' = delivered \cup {First}
    /\ batch' = batch \ {First}
    /\ UNCHANGED <<outbound, high_water, unsent, failures>>

(* Mutant: the mark moves to the end of the stream. *)
MutantMarkAll ==
    /\ batch # {}
    /\ Execute
    /\ responses' = Append(responses, Response)
    /\ delivered' = delivered \cup {First}
    /\ high_water' = Len(outbound)
    /\ batch' = batch \ {First}
    /\ UNCHANGED <<outbound, unsent, failures>>

\* serve_pending: run the command, write the response, mark the request.
send_response ==
    /\ batch # {}
    /\ Execute
    /\ responses' = Append(responses, Response)
    /\ delivered' = delivered \cup {First}
    /\ high_water' = First
    /\ batch' = batch \ {First}
    /\ UNCHANGED <<outbound, unsent, failures>>

\* The response, or the mark after it, cannot be written: the command has run,
\* the pass ends and the high-water mark stays.
send_response_fails ==
    /\ batch # {} /\ failures < MaxFailures
    /\ Execute
    /\ responses' \in {responses, Append(responses, Response)}
    /\ unsent' = unsent \cup {First}
    /\ batch' = {}
    /\ failures' = failures + 1
    /\ UNCHANGED <<outbound, delivered, high_water>>

\* The host restarts: a new bridge begins at zero.
Restart ==
    /\ failures < MaxFailures
    /\ high_water' = 0 /\ batch' = {} /\ unsent' = {}
    /\ executed' = [n \in 1..MaxRequests |-> 0]
    /\ failures' = failures + 1
    /\ UNCHANGED <<outbound, responses, delivered>>

BridgeNext ==
    \/ \E row \in Commands \cup {"malformed", "reply"} : Submit(row)
    \/ pending_requests
    \/ send_response
    \/ send_response_fails
    \/ Restart

\* The host serves while there is something to serve.
BridgeFairness == WF_bridgeVars(pending_requests) /\ WF_bridgeVars(send_response)

-----------------------------------------------------------------------------
(* Properties *)

BridgeTypeOK ==
    /\ high_water \in 0..MaxRequests /\ batch \subseteq Requests
    /\ delivered \subseteq Requests /\ failures \in 0..MaxFailures
    /\ executed \in [1..MaxRequests -> Nat]

(* A serving instance runs a command once, unless the response or the mark of
   that very request could not be written ("The in-memory high-water mark
   de-duplicates within a serving instance").                              *)
RunOnce == \A n \in 1..MaxRequests : executed[n] > 1 => n \in unsent

(* Every request is answered in the end, however long the queue is against
   the batch and whatever fails on the way, or there is a request in the
   stream that cannot be decoded: that one blocks all that were not served
   before it.                                                              *)
Answered(n) == \E i \in DOMAIN responses : responses[i].in_reply_to = n
Blocked == \E n \in Requests : outbound[n] = "malformed"
EveryRequestAnswered == \A n \in 1..MaxRequests : n \in Requests ~> (Answered(n) \/ Blocked)
=============================================================================
