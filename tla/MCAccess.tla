------------------------------ MODULE MCAccess ------------------------------
(* Parts of the host that do not meet: the users of the central database, its
   approvals, and the command bridge of a session.  A behaviour is of one of
   them; the others keep still. *)
EXTENDS Approvals, CliBridge, TLC

CONSTANTS rob, ann, here, p1, p2

VARIABLE part

vars == <<accessVars, bridgeVars, part>>

MCActionKinds == [c \in {"list", "create"} |-> IF c = "list" THEN "read" ELSE "write"]
MCAuthorize == [k \in {"read", "write"} |-> IF k = "read" THEN "allow" ELSE "needs_approval"]

\* The approvals start from an instance with an owner and one more user; the
\* registrations start from an empty one.
Init ==
    /\ BridgeInit
    /\ \/ part \in {"people", "bridge"} /\ ApprovalInit
       \/ /\ part = "approvals"
          /\ users = {rob, ann} /\ user_roles = {<<rob, "owner">>} /\ ever_admin = {rob}
          /\ user_dms = [u \in Handles |-> [c \in Channels |-> None]]
          /\ standing_instructions = <<>>
          /\ call = [p \in Procs |-> Idle] /\ deaths = 0
          /\ clock = 0 /\ pending_approvals = <<>> /\ pending_questions = <<>>
          /\ decisions = [p \in Procs |-> NoDecision]

RoleChange == \E actor, target \in Handles, role \in Administrative :
    grant_role(actor, target, role) \/ revoke_role(actor, target, role)

Next ==
    \/ /\ part = "people"
       /\ PermissionNext
       /\ UNCHANGED <<approvalVars, bridgeVars, part>>
    \/ /\ part = "approvals"
       /\ ApprovalNext \/ (RoleChange /\ UNCHANGED approvalVars)
       /\ UNCHANGED <<bridgeVars, part>>
    \/ /\ part = "bridge"
       /\ BridgeNext
       /\ UNCHANGED <<accessVars, part>>

Spec == Init /\ [][Next]_vars /\ BridgeFairness
=============================================================================
