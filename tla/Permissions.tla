---------------------------- MODULE Permissions -----------------------------
(***************************************************************************)
(* assistant-permissions and the host's register-user command: users,      *)
(* roles, direct-message routes and standing instructions in the central   *)
(* database.                                                               *)
(*                                                                         *)
(* A handle is unique, so it stands for the user's id.  Processes make the *)
(* calls; a call of several statements is several steps, and a process may *)
(* die (or be refused by a busy database) between them.  bootstrap_owner,  *)
(* grant_role and revoke_role are transactions, hence one step each.       *)
(***************************************************************************)
EXTENDS Naturals, Sequences, FiniteSets

CONSTANTS
    Handles,           \* the handles of users
    Channels,          \* the channels a user has an address on
    Addresses,
    Procs,             \* processes that call the library
    None,
    MaxInstructions,   \* bound: rows of standing_instructions
    MaxDeaths          \* bound: processes that die within a call

ASSUME PermissionsAssumption ==
    /\ None \notin Handles \cup Addresses
    /\ IsFiniteSet(Handles) /\ MaxInstructions \in Nat /\ MaxDeaths \in Nat

VARIABLES
    users,                 \* the handles that have a row
    user_roles,            \* pairs <<user, role>>
    user_dms,              \* user_dms[u][c]: the address of u on c, or None
    standing_instructions, \* the rows, in order of insertion
    call,                  \* what each process is in the middle of
    ever_admin,            \* history: the users that held an administrative role
    deaths

people == <<users, user_roles, user_dms, standing_instructions, ever_admin>>
permissionVars == <<people, call, deaths>>

-----------------------------------------------------------------------------
(* Roles *)

Role == {"member", "admin", "owner"}
Administrative == {"owner", "admin"}

roles_of(u) == {r \in Role : <<u, r>> \in user_roles}
is_administrative(u) == roles_of(u) \cap Administrative # {}
owner_exists == \E u \in users : <<u, "owner">> \in user_roles
Admins == {u \in Handles : is_administrative(u)}

\* The readiness checks.
admin_exists == \E u \in Handles : is_administrative(u)
references_intact ==
    /\ \A p \in user_roles : p[1] \in users
    /\ \A u \in Handles, c \in Channels : user_dms[u][c] # None => u \in users

-----------------------------------------------------------------------------
(* Calls *)

Idle == [pc |-> "idle", user |-> None, address |-> None, owner |-> FALSE, row |-> 0]

Goto(p, c) == call' = [call EXCEPT ![p] = c]

PermissionInit ==
    /\ users = {} /\ user_roles = {}
    /\ user_dms = [u \in Handles |-> [c \in Channels |-> None]]
    /\ standing_instructions = <<>>
    /\ call = [p \in Procs |-> Idle]
    /\ ever_admin = {} /\ deaths = 0

\* register_user: an existing handle is reused, and --owner then means nothing.
RegisterUser(p, u, a, owner) ==
    /\ call[p] = Idle
    /\ Goto(p, [Idle EXCEPT !.pc = IF u \in users THEN "bind" ELSE "insert",
                            !.user = u, !.address = a, !.owner = owner])
    /\ UNCHANGED <<people, deaths>>

(* Mutant: the owner's transaction does not look for an owner. *)
MutantSecondOwner(p) ==
    LET u == call[p].user IN
    /\ call[p].pc = "insert" /\ call[p].owner
    /\ IF u \notin users
         THEN /\ users' = users \cup {u}
              /\ user_roles' = user_roles \cup {<<u, "owner">>}
              /\ ever_admin' = ever_admin \cup {u}
              /\ Goto(p, [call[p] EXCEPT !.pc = "bind"])
         ELSE /\ Goto(p, Idle)
              /\ UNCHANGED <<users, user_roles, ever_admin>>
    /\ UNCHANGED <<user_dms, standing_instructions, deaths>>

\* The user's row and the owner role together; a second owner, or a handle
\* that another process took meanwhile, is an error and ends the call.
bootstrap_owner(p) ==
    LET u == call[p].user IN
    /\ call[p].pc = "insert" /\ call[p].owner
    /\ IF ~owner_exists /\ u \notin users
         THEN /\ users' = users \cup {u}
              /\ user_roles' = user_roles \cup {<<u, "owner">>}
              /\ ever_admin' = ever_admin \cup {u}
              /\ Goto(p, [call[p] EXCEPT !.pc = "bind"])
         ELSE /\ Goto(p, Idle)
              /\ UNCHANGED <<users, user_roles, ever_admin>>
    /\ UNCHANGED <<user_dms, standing_instructions, deaths>>

create_user(p) ==
    LET u == call[p].user IN
    /\ call[p].pc = "insert" /\ ~call[p].owner
    /\ users' = users \cup {u}
    /\ Goto(p, IF u \in users THEN Idle ELSE [call[p] EXCEPT !.pc = "bind"])
    /\ UNCHANGED <<user_roles, user_dms, standing_instructions, ever_admin, deaths>>

\* One address per user and channel; registering again replaces it.
add_user_dm(p, c) ==
    /\ call[p].pc = "bind" /\ call[p].user \in users
    /\ user_dms' = [user_dms EXCEPT ![call[p].user][c] = call[p].address]
    /\ Goto(p, Idle)
    /\ UNCHANGED <<users, user_roles, standing_instructions, ever_admin, deaths>>

\* The owner role is never granted and never revoked.
grant_role(actor, target, role) ==
    /\ is_administrative(actor) /\ role # "owner"
    /\ target \in users /\ <<target, role>> \notin user_roles
    /\ user_roles' = user_roles \cup {<<target, role>>}
    /\ ever_admin' = IF role \in Administrative THEN ever_admin \cup {target} ELSE ever_admin
    /\ UNCHANGED <<users, user_dms, standing_instructions, call, deaths>>

revoke_role(actor, target, role) ==
    /\ is_administrative(actor) /\ role # "owner"
    /\ <<target, role>> \in user_roles
    /\ user_roles' = user_roles \ {<<target, role>>}
    /\ UNCHANGED <<users, user_dms, standing_instructions, ever_admin, call, deaths>>

-----------------------------------------------------------------------------
(* Standing instructions *)

InstructionClass == {"persistent_instruction", "memory_update", "code_tool_invariant"}

\* What the words of an instruction make of it.
classify(hard, code_tool, going_forward) ==
    IF hard /\ code_tool THEN "code_tool_invariant"
    ELSE IF hard \/ going_forward THEN "persistent_instruction"
    ELSE "memory_update"

\* capture: the gate, then (for a persistent instruction only) the insert; the
\* other classes are handed back to the caller and write nothing.
Capture(p, u) ==
    /\ call[p] = Idle /\ is_administrative(u)
    /\ \E hard, code_tool, going_forward \in BOOLEAN :
           classify(hard, code_tool, going_forward) = "persistent_instruction"
    /\ Goto(p, [Idle EXCEPT !.pc = "capture", !.user = u])
    /\ UNCHANGED <<people, deaths>>

InsertInstruction(p) ==
    /\ call[p].pc = "capture" /\ Len(standing_instructions) < MaxInstructions
    /\ standing_instructions' = Append(standing_instructions, [user |-> call[p].user, active |-> TRUE])
    /\ Goto(p, Idle)
    /\ UNCHANGED <<users, user_roles, user_dms, ever_admin, deaths>>

active_standing_instructions == {i \in DOMAIN standing_instructions : standing_instructions[i].active}

\* deactivate: the gate, then the update.
Deactivate(p, u, i) ==
    /\ call[p] = Idle /\ is_administrative(u)
    /\ i \in active_standing_instructions
    /\ Goto(p, [Idle EXCEPT !.pc = "deactivate", !.user = u, !.row = i])
    /\ UNCHANGED <<people, deaths>>

RetireInstruction(p) ==
    /\ call[p].pc = "deactivate"
    /\ standing_instructions' = [standing_instructions EXCEPT ![call[p].row].active = FALSE]
    /\ Goto(p, Idle)
    /\ UNCHANGED <<users, user_roles, user_dms, ever_admin, deaths>>

\* The process dies in a call, or a statement is refused.
Die(p) ==
    /\ call[p] # Idle /\ deaths < MaxDeaths
    /\ deaths' = deaths + 1
    /\ Goto(p, Idle)
    /\ UNCHANGED people

PermissionNext ==
    \/ \E p \in Procs, u \in Handles :
          \/ \E a \in Addresses, owner \in BOOLEAN : RegisterUser(p, u, a, owner)
          \/ Capture(p, u)
          \/ \E i \in 1..MaxInstructions : Deactivate(p, u, i)
    \/ \E p \in Procs : \/ bootstrap_owner(p)
                        \/ create_user(p)
                        \/ \E c \in Channels : add_user_dm(p, c)
                        \/ InsertInstruction(p)
                        \/ RetireInstruction(p)
                        \/ Die(p)
    \/ \E actor, target \in Handles, role \in Role : \/ grant_role(actor, target, role)
                                                     \/ revoke_role(actor, target, role)

-----------------------------------------------------------------------------
(* Properties *)

PermissionTypeOK ==
    /\ users \subseteq Handles /\ user_roles \subseteq Handles \X Role
    /\ user_dms \in [Handles -> [Channels -> Addresses \cup {None}]]
    /\ standing_instructions \in Seq([user: Handles, active: BOOLEAN])
    /\ ever_admin \subseteq Handles /\ deaths \in 0..MaxDeaths

(* There is never a second owner, no role or route is left without its user,
   and no standing instruction comes from one who never was an admin, however
   the steps of concurrent register-user commands, captures, grants and
   revocations interleave and wherever a process dies.  (An admin demoted
   between the gate and the insert of capture still writes that one row.)  *)
OneOwner ==
    /\ \A u, v \in Handles : {<<u, "owner">>, <<v, "owner">>} \subseteq user_roles => u = v
    /\ references_intact
    /\ \A i \in DOMAIN standing_instructions : standing_instructions[i].user \in ever_admin
=============================================================================
