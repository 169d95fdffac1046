---------------------------- MODULE AccessProofs ----------------------------
(***************************************************************************)
(* Proofs for the users and approvals of the central database and for the  *)
(* command bridge of a session.                                            *)
(*                                                                         *)
(* Users: the state a call carries over its steps is the hard part.  A     *)
(* process in "capture" passed a gate that may no longer hold, so the      *)
(* invariant keeps of it only that its user once was an admin; one in      *)
(* "deactivate" holds the number of a row that exists.                     *)
(*                                                                         *)
(* Bridge: what was run and is not among the failed ones lies at or below  *)
(* the high-water mark, and everything of the batch lies above it.         *)
(***************************************************************************)
EXTENDS Approvals, CliBridge, WellFoundedInduction, TLAPS

AccessSpec == ApprovalInit /\ [][AccessNext]_accessVars

BridgeSpec == BridgeInit /\ [][BridgeNext]_bridgeVars

-----------------------------------------------------------------------------
(* Users and their calls *)

Pc == {"idle", "insert", "bind", "capture", "deactivate"}

CallRecord == [pc: Pc, user: Handles \cup {None}, address: Addresses \cup {None},
               owner: BOOLEAN, row: Nat]

Instruction == [user: Handles, active: BOOLEAN]

\* What the state holds of a process in the middle of a call.
CallOK(c) ==
    /\ c.pc \in {"insert", "bind"} => c.user \in Handles /\ c.address \in Addresses
    /\ c.pc = "capture" => c.user \in ever_admin
    /\ c.pc = "deactivate" => c.row \in DOMAIN standing_instructions

PeopleOK ==
    /\ users \subseteq Handles /\ ever_admin \subseteq Handles
    /\ user_roles \subseteq users \X Role
    /\ \A u \in Handles, r \in Administrative : <<u, r>> \in user_roles => u \in ever_admin
    /\ \A u, v \in Handles : <<u, "owner">> \in user_roles /\ <<v, "owner">> \in user_roles => u = v

RoutesOK ==
    /\ user_dms \in [Handles -> [Channels -> Addresses \cup {None}]]
    /\ \A u \in Handles, c \in Channels : user_dms[u][c] # None => u \in users

InstructionsOK ==
    /\ standing_instructions \in Seq(Instruction)
    /\ \A i \in DOMAIN standing_instructions : standing_instructions[i].user \in ever_admin

CallsOK == call \in [Procs -> CallRecord] /\ \A p \in Procs : CallOK(call[p])

PeopleInv == PeopleOK /\ RoutesOK /\ InstructionsOK /\ CallsOK /\ deaths \in 0..MaxDeaths

\* An administrative user is on record as such.
LEMMA AdminOnRecord ==
    ASSUME PeopleOK, NEW u \in Handles, is_administrative(u)
    PROVE  u \in ever_admin
BY DEF PeopleOK, is_administrative, roles_of, Administrative, Role

LEMMA PeopleInit == PermissionInit => PeopleInv
<1> SUFFICES ASSUME PermissionInit PROVE PeopleInv
    OBVIOUS
<1> USE PermissionsAssumption DEF PermissionInit
<1>1. PeopleOK
    BY DEF PeopleOK
<1>2. RoutesOK
    BY DEF RoutesOK
<1>3. InstructionsOK
    BY DEF InstructionsOK
<1>4. CallsOK
    <2>1. Idle \in CallRecord
        BY DEF Idle, CallRecord, Pc
    <2>2. CallOK(Idle)
        BY DEF Idle, CallOK
    <2> QED BY <2>1, <2>2 DEF CallsOK
<1>5. deaths \in 0..MaxDeaths
    OBVIOUS
<1> QED BY <1>1, <1>2, <1>3, <1>4, <1>5 DEF PeopleInv

\* A call moves on: the calls stay in order if the new one is, and if nothing
\* that the others hold is lost.
LEMMA CallMoves ==
    ASSUME CallsOK, NEW p \in Procs, NEW c, Goto(p, c), c \in CallRecord, CallOK(c)',
           ever_admin \subseteq ever_admin',
           DOMAIN standing_instructions \subseteq DOMAIN standing_instructions'
    PROVE  CallsOK'
<1>1. call' \in [Procs -> CallRecord]
    BY DEF CallsOK, Goto
<1>2. ASSUME NEW q \in Procs PROVE CallOK(call[q])'
    <2>1. CASE q = p
        BY <2>1 DEF CallsOK, Goto, CallOK
    <2>2. CASE q # p
        <3>1. call'[q] = call[q] /\ CallOK(call[q])
            BY <2>2 DEF CallsOK, Goto
        <3> QED BY <3>1 DEF CallOK
    <2> QED BY <2>1, <2>2
<1> QED BY <1>1, <1>2 DEF CallsOK

\* No call moves.
LEMMA CallsStay ==
    ASSUME CallsOK, call' = call, ever_admin \subseteq ever_admin',
           DOMAIN standing_instructions \subseteq DOMAIN standing_instructions'
    PROVE  CallsOK'
BY DEF CallsOK, CallOK

LEMMA IdleCall == Idle \in CallRecord /\ CallOK(Idle) /\ CallOK(Idle)'
BY DEF Idle, CallRecord, Pc, CallOK

LEMMA PeopleStep == PeopleInv /\ [PermissionNext]_permissionVars => PeopleInv'
<1> SUFFICES ASSUME PeopleInv, [PermissionNext]_permissionVars PROVE PeopleInv'
    OBVIOUS
<1> USE PermissionsAssumption
<1>a. PeopleOK /\ RoutesOK /\ InstructionsOK /\ CallsOK /\ deaths \in 0..MaxDeaths
    BY DEF PeopleInv
<1>b. \A p \in Procs : call[p] \in CallRecord /\ CallOK(call[p])
    BY <1>a DEF CallsOK
<1>same. ASSUME UNCHANGED people PROVE PeopleOK' /\ RoutesOK' /\ InstructionsOK'
    BY <1>a, <1>same DEF people, PeopleOK, RoutesOK, InstructionsOK
<1>1. ASSUME NEW p \in Procs, NEW u \in Handles, NEW a \in Addresses, NEW owner \in BOOLEAN,
             RegisterUser(p, u, a, owner)
      PROVE  PeopleInv'
    <2>0. PICK pc \in {"bind", "insert"} : pc = IF u \in users THEN "bind" ELSE "insert"
        OBVIOUS
    <2>1. PICK c : /\ c = [Idle EXCEPT !.pc = pc, !.user = u, !.address = a, !.owner = owner]
                   /\ UNCHANGED people /\ deaths' = deaths /\ Goto(p, c)
        BY <1>1, <2>0 DEF RegisterUser
    <2>2. c = [pc |-> pc, user |-> u, address |-> a, owner |-> owner, row |-> 0]
        BY <2>1 DEF Idle
    <2>3. c \in CallRecord /\ CallOK(c)'
        BY <2>2 DEF CallRecord, Pc, CallOK
    <2>4. CallsOK'
        BY <1>a, <2>1, <2>3, CallMoves DEF people
    <2> QED BY <1>a, <1>same, <2>1, <2>4 DEF PeopleInv
<1>2. ASSUME NEW p \in Procs, NEW u \in Handles, Capture(p, u)
      PROVE  PeopleInv'
    <2>1. PICK c : /\ c = [Idle EXCEPT !.pc = "capture", !.user = u]
                   /\ UNCHANGED people /\ deaths' = deaths /\ Goto(p, c) /\ is_administrative(u)
        BY <1>2 DEF Capture
    <2>2. c \in CallRecord /\ c.pc = "capture" /\ c.user = u
        BY <2>1, IdleCall DEF CallRecord, Pc
    <2>3. c \in CallRecord /\ CallOK(c)'
        BY <1>a, <2>1, <2>2, AdminOnRecord DEF CallRecord, Pc, CallOK, people
    <2>4. CallsOK'
        BY <1>a, <2>1, <2>3, CallMoves DEF people
    <2> QED BY <1>a, <1>same, <2>1, <2>4 DEF PeopleInv
<1>3. ASSUME NEW p \in Procs, NEW u \in Handles, NEW i \in 1..MaxInstructions, Deactivate(p, u, i)
      PROVE  PeopleInv'
    <2>1. PICK c : /\ c = [Idle EXCEPT !.pc = "deactivate", !.user = u, !.row = i]
                   /\ UNCHANGED people /\ deaths' = deaths /\ Goto(p, c)
                   /\ i \in DOMAIN standing_instructions
        BY <1>3 DEF Deactivate, active_standing_instructions
    <2>2. c \in CallRecord /\ c.pc = "deactivate" /\ c.row = i
        <3>1. i \in Nat
            OBVIOUS
        <3> QED BY <2>1, <3>1, IdleCall DEF CallRecord, Pc
    <2>3. c \in CallRecord /\ CallOK(c)'
        BY <2>1, <2>2 DEF CallRecord, Pc, CallOK, people
    <2>4. CallsOK'
        BY <1>a, <2>1, <2>3, CallMoves DEF people
    <2> QED BY <1>a, <1>same, <2>1, <2>4 DEF PeopleInv
<1>4. ASSUME NEW p \in Procs, bootstrap_owner(p) PROVE PeopleInv'
    <2> DEFINE u == call[p].user
    <2>1. /\ user_dms' = user_dms /\ deaths' = deaths
          /\ standing_instructions' = standing_instructions
          /\ call[p].pc = "insert" /\ u \in Handles /\ call[p].address \in Addresses
        BY <1>b, <1>4 DEF bootstrap_owner, CallOK
    <2>2. CASE ~owner_exists /\ u \notin users
        <3>1. PICK c :
              /\ c = [call[p] EXCEPT !.pc = "bind"]
              /\ users' = users \cup {u} /\ user_roles' = user_roles \cup {<<u, "owner">>}
              /\ ever_admin' = ever_admin \cup {u} /\ Goto(p, c)
            BY <1>4, <2>2 DEF bootstrap_owner
        <3>2. PeopleOK'
            <4>1. \A v \in Handles : <<v, "owner">> \notin user_roles
                BY <1>a, <2>2 DEF owner_exists, PeopleOK
            <4> QED BY <1>a, <2>1, <3>1, <4>1 DEF PeopleOK, Administrative, Role
        <3>3. RoutesOK'
            BY <1>a, <2>1, <3>1 DEF RoutesOK
        <3>4. InstructionsOK'
            BY <1>a, <2>1, <3>1 DEF InstructionsOK
        <3>5. c \in CallRecord /\ CallOK(c)'
            BY <1>b, <2>1, <3>1 DEF CallRecord, Pc, CallOK
        <3>6. CallsOK'
            BY <1>a, <2>1, <3>1, <3>5, CallMoves
        <3> QED BY <1>a, <2>1, <3>2, <3>3, <3>4, <3>6 DEF PeopleInv
    <2>3. CASE ~(~owner_exists /\ u \notin users)
        <3>1. UNCHANGED people /\ Goto(p, Idle)
            BY <1>4, <2>1, <2>3 DEF bootstrap_owner, people
        <3>2. CallsOK'
            BY <1>a, <3>1, IdleCall, CallMoves DEF people
        <3> QED BY <1>a, <1>same, <2>1, <3>1, <3>2 DEF PeopleInv
    <2> QED BY <2>2, <2>3
<1>5. ASSUME NEW p \in Procs, create_user(p) PROVE PeopleInv'
    <2> DEFINE u == call[p].user
    <2>1. PICK c :
          /\ c = IF u \in users THEN Idle ELSE [call[p] EXCEPT !.pc = "bind"]
          /\ user_dms' = user_dms /\ deaths' = deaths /\ user_roles' = user_roles
          /\ standing_instructions' = standing_instructions /\ ever_admin' = ever_admin
          /\ users' = users \cup {u} /\ Goto(p, c)
        BY <1>5 DEF create_user
    <2>2. u \in Handles /\ call[p].address \in Addresses
        BY <1>b, <1>5 DEF create_user, CallOK
    <2>3. PeopleOK'
        BY <1>a, <2>1, <2>2 DEF PeopleOK
    <2>4. RoutesOK'
        BY <1>a, <2>1 DEF RoutesOK
    <2>5. InstructionsOK'
        BY <1>a, <2>1 DEF InstructionsOK
    <2>6. c \in CallRecord /\ CallOK(c)'
        <3>1. CASE u \in users
            BY <2>1, <3>1, IdleCall
        <3>2. CASE u \notin users
            <4>1. c = [call[p] EXCEPT !.pc = "bind"]
                BY <2>1, <3>2
            <4> QED BY <1>b, <2>2, <4>1 DEF CallRecord, Pc, CallOK
        <3> QED BY <3>1, <3>2
    <2>7. CallsOK'
        BY <1>a, <2>1, <2>6, CallMoves
    <2> QED BY <1>a, <2>1, <2>3, <2>4, <2>5, <2>7 DEF PeopleInv
<1>6. ASSUME NEW p \in Procs, NEW c \in Channels, add_user_dm(p, c) PROVE PeopleInv'
    <2>1. /\ users' = users /\ deaths' = deaths /\ user_roles' = user_roles
          /\ standing_instructions' = standing_instructions /\ ever_admin' = ever_admin
          /\ user_dms' = [user_dms EXCEPT ![call[p].user][c] = call[p].address]
          /\ Goto(p, Idle) /\ call[p].user \in users
        BY <1>6 DEF add_user_dm
    <2>2. call[p].user \in Handles /\ call[p].address \in Addresses
        BY <1>b, <1>6 DEF add_user_dm, CallOK
    <2>3. PeopleOK' /\ InstructionsOK'
        BY <1>a, <2>1 DEF PeopleOK, InstructionsOK
    <2>4. RoutesOK'
        BY <1>a, <2>1, <2>2 DEF RoutesOK
    <2>5. CallsOK'
        BY <1>a, <2>1, IdleCall, CallMoves
    <2> QED BY <1>a, <2>1, <2>3, <2>4, <2>5 DEF PeopleInv
<1>7. ASSUME NEW p \in Procs, InsertInstruction(p) PROVE PeopleInv'
    <2> DEFINE row == [user |-> call[p].user, active |-> TRUE]
    <2>1. /\ users' = users /\ deaths' = deaths /\ user_roles' = user_roles
          /\ user_dms' = user_dms /\ ever_admin' = ever_admin
          /\ standing_instructions' = Append(standing_instructions, row)
          /\ Goto(p, Idle)
        BY <1>7 DEF InsertInstruction
    <2>2. call[p].user \in ever_admin /\ row \in Instruction
        BY <1>a, <1>b, <1>7 DEF InsertInstruction, CallOK, PeopleOK, Instruction
    <2>3. PeopleOK' /\ RoutesOK'
        BY <1>a, <2>1 DEF PeopleOK, RoutesOK
    <2>4. standing_instructions \in Seq(Instruction)
        BY <1>a DEF InstructionsOK
    <2>5. /\ DOMAIN standing_instructions \subseteq DOMAIN standing_instructions'
          /\ standing_instructions' \in Seq(Instruction)
          /\ \A i \in DOMAIN standing_instructions' :
                 \/ i \in DOMAIN standing_instructions
                    /\ standing_instructions'[i] = standing_instructions[i]
                 \/ standing_instructions'[i] = row
        <3> HIDE DEF row
        <3> QED BY <2>1, <2>2, <2>4
    <2>6. InstructionsOK'
        BY <1>a, <2>1, <2>2, <2>5 DEF InstructionsOK
    <2>7. CallsOK'
        BY <1>a, <2>1, <2>5, IdleCall, CallMoves
    <2> QED BY <1>a, <2>1, <2>3, <2>6, <2>7 DEF PeopleInv
<1>8. ASSUME NEW p \in Procs, RetireInstruction(p) PROVE PeopleInv'
    <2> DEFINE n == call[p].row
    <2>1. /\ users' = users /\ deaths' = deaths /\ user_roles' = user_roles
          /\ user_dms' = user_dms /\ ever_admin' = ever_admin
          /\ standing_instructions' = [standing_instructions EXCEPT ![n].active = FALSE]
          /\ Goto(p, Idle)
        BY <1>8 DEF RetireInstruction
    <2>2. n \in DOMAIN standing_instructions
        BY <1>b, <1>8 DEF RetireInstruction, CallOK
    <2>3. standing_instructions \in Seq(Instruction)
        BY <1>a DEF InstructionsOK
    <2>4. /\ DOMAIN standing_instructions' = DOMAIN standing_instructions
          /\ standing_instructions' \in Seq(Instruction)
          /\ \A i \in DOMAIN standing_instructions :
                 standing_instructions'[i].user = standing_instructions[i].user
        <3>1. standing_instructions[n] \in Instruction
            BY <2>2, <2>3
        <3>2. [standing_instructions[n] EXCEPT !.active = FALSE] \in Instruction
            BY <3>1 DEF Instruction
        <3>3. standing_instructions' = [standing_instructions EXCEPT ![n] =
                   [standing_instructions[n] EXCEPT !.active = FALSE]]
            BY <2>1, Zenon
        <3>4. [standing_instructions[n] EXCEPT !.active = FALSE].user = standing_instructions[n].user
            BY <3>1 DEF Instruction
        <3> QED BY <2>2, <2>3, <3>2, <3>3, <3>4
    <2>5. PeopleOK' /\ RoutesOK'
        BY <1>a, <2>1 DEF PeopleOK, RoutesOK
    <2>6. InstructionsOK'
        BY <1>a, <2>1, <2>4 DEF InstructionsOK
    <2>7. CallsOK'
        BY <1>a, <2>1, <2>4, IdleCall, CallMoves
    <2> QED BY <1>a, <2>1, <2>5, <2>6, <2>7 DEF PeopleInv
<1>9. ASSUME NEW p \in Procs, Die(p) PROVE PeopleInv'
    <2>1. UNCHANGED people /\ deaths' = deaths + 1 /\ deaths < MaxDeaths /\ Goto(p, Idle)
        BY <1>9 DEF Die
    <2>2. CallsOK'
        BY <1>a, <2>1, IdleCall, CallMoves DEF people
    <2>3. deaths' \in 0..MaxDeaths
        BY <1>a, <2>1
    <2> QED BY <1>same, <2>1, <2>2, <2>3 DEF PeopleInv
<1>10. ASSUME NEW actor \in Handles, NEW target \in Handles, NEW role \in Role,
              grant_role(actor, target, role)
       PROVE  PeopleInv'
    <2>1. /\ users' = users /\ deaths' = deaths /\ user_dms' = user_dms /\ call' = call
          /\ standing_instructions' = standing_instructions
          /\ user_roles' = user_roles \cup {<<target, role>>}
          /\ role # "owner" /\ target \in users
          /\ ever_admin' = IF role \in Administrative THEN ever_admin \cup {target} ELSE ever_admin
        BY <1>10 DEF grant_role
    <2>2. PeopleOK'
        BY <1>a, <2>1 DEF PeopleOK, Administrative, Role
    <2>3. RoutesOK'
        BY <1>a, <2>1 DEF RoutesOK
    <2>4. InstructionsOK'
        BY <1>a, <2>1 DEF InstructionsOK
    <2>5. CallsOK'
        BY <1>a, <2>1, CallsStay
    <2> QED BY <1>a, <2>1, <2>2, <2>3, <2>4, <2>5 DEF PeopleInv
<1>11. ASSUME NEW actor \in Handles, NEW target \in Handles, NEW role \in Role,
              revoke_role(actor, target, role)
       PROVE  PeopleInv'
    <2>1. /\ users' = users /\ deaths' = deaths /\ user_dms' = user_dms /\ call' = call
          /\ standing_instructions' = standing_instructions /\ ever_admin' = ever_admin
          /\ user_roles' = user_roles \ {<<target, role>>}
        BY <1>11 DEF revoke_role
    <2>2. PeopleOK'
        BY <1>a, <2>1 DEF PeopleOK
    <2>3. RoutesOK' /\ InstructionsOK'
        BY <1>a, <2>1 DEF RoutesOK, InstructionsOK
    <2>4. CallsOK'
        BY <1>a, <2>1, CallsStay
    <2> QED BY <1>a, <2>1, <2>2, <2>3, <2>4 DEF PeopleInv
<1>12. CASE UNCHANGED permissionVars
    <2>1. CallsOK'
        BY <1>a, <1>12, CallsStay DEF permissionVars, people
    <2> QED BY <1>a, <1>same, <1>12, <2>1 DEF PeopleInv, permissionVars
<1> QED
    BY <1>1, <1>2, <1>3, <1>4, <1>5, <1>6, <1>7, <1>8, <1>9, <1>10, <1>11, <1>12
    DEF PermissionNext

LEMMA PeopleInvImplies == PeopleInv => OneOwner
BY PermissionsAssumption
   DEF PeopleInv, PeopleOK, RoutesOK, InstructionsOK, OneOwner, references_intact

(* There is never a second owner, no role or route is left without its user,
   and no standing instruction comes from one who never was an admin, for any
   users, processes and calls, wherever a process dies.                     *)
THEOREM OwnersAreUnique == AccessSpec => []OneOwner
<1>1. ApprovalInit => PeopleInv
    BY PeopleInit DEF ApprovalInit
<1>2. PeopleInv /\ [AccessNext]_accessVars => PeopleInv'
    <2> SUFFICES ASSUME PeopleInv, [AccessNext]_accessVars PROVE PeopleInv'
        OBVIOUS
    <2>1. [PermissionNext]_permissionVars
        BY DEF AccessNext, ApprovalNext, accessVars, Tick, ask, request_approval, ReadClock,
               Decide, sweep_expired, respond
    <2> QED BY <2>1, PeopleStep
<1> QED BY <1>1, <1>2, PeopleInvImplies, PTL DEF AccessSpec

-----------------------------------------------------------------------------
(* Approvals *)

Approval == [kind: ApprovalKind, status: ApprovalStatus, expires_at: 1..Never,
             by: Handles \cup {None}, at: 0..Horizon]

Decision == [who: Handles, id: Nat, now: 0..Horizon, outcome: {"granted", "denied"}]

ApprovalsInv ==
    /\ clock \in 0..Horizon
    /\ pending_approvals \in Seq(Approval)
    /\ \A i \in DOMAIN pending_approvals : pending_approvals[i].status = "granted" =>
           /\ pending_approvals[i].by \in ever_admin
           /\ pending_approvals[i].at < pending_approvals[i].expires_at
    /\ decisions \in [Procs -> {NoDecision} \cup Decision]
    /\ \A p \in Procs : decisions[p] # NoDecision => decisions[p].id \in DOMAIN pending_approvals

\* The step of DecidedForGood.
Settled ==
    \A i \in DOMAIN pending_approvals :
        /\ pending_approvals[i].status # "pending" => pending_approvals'[i] = pending_approvals[i]
        /\ pending_approvals'[i].status = "granted" =>
               /\ pending_approvals'[i].by \in ever_admin
               /\ pending_approvals'[i].at < pending_approvals'[i].expires_at

\* The record of an admin is never taken back.
LEMMA AdminRecordGrows ==
    ASSUME [PermissionNext]_permissionVars PROVE ever_admin \subseteq ever_admin'
BY DEF PermissionNext, permissionVars, people, RegisterUser, Capture, Deactivate, bootstrap_owner,
       create_user, add_user_dm, InsertInstruction, RetireInstruction, Die, grant_role, revoke_role

\* Rows may be rewritten one by one: what holds of each of them holds of all.
LEMMA RowsRewritten ==
    ASSUME ApprovalsInv, clock' \in 0..Horizon, ever_admin \subseteq ever_admin',
           pending_approvals' \in Seq(Approval),
           DOMAIN pending_approvals' = DOMAIN pending_approvals,
           NEW p \in Procs, decisions' = decisions \/ decisions' = [decisions EXCEPT ![p] = NoDecision],
           \A i \in DOMAIN pending_approvals :
               \/ pending_approvals'[i] = pending_approvals[i]
               \/ /\ pending_approvals[i].status = "pending"
                  /\ pending_approvals'[i].status = "granted" =>
                        /\ pending_approvals'[i].by \in ever_admin
                        /\ pending_approvals'[i].at < pending_approvals'[i].expires_at
    PROVE  ApprovalsInv' /\ Settled
<1>1. Settled
    BY DEF Settled, ApprovalsInv
<1>2. \A i \in DOMAIN pending_approvals' : pending_approvals'[i].status = "granted" =>
           /\ pending_approvals'[i].by \in ever_admin'
           /\ pending_approvals'[i].at < pending_approvals'[i].expires_at
    BY <1>1 DEF Settled
<1>3. decisions' \in [Procs -> {NoDecision} \cup Decision]
    BY DEF ApprovalsInv
<1>4. \A q \in Procs : decisions'[q] # NoDecision => decisions'[q].id \in DOMAIN pending_approvals'
    BY DEF ApprovalsInv
<1> QED BY <1>1, <1>2, <1>3, <1>4 DEF ApprovalsInv

LEMMA ApprovalsInit == ApprovalInit => ApprovalsInv
BY ApprovalsAssumption DEF ApprovalInit, ApprovalsInv

LEMMA ApprovalsStep ==
    ASSUME PeopleInv, ApprovalsInv, [AccessNext]_accessVars
    PROVE  ApprovalsInv' /\ Settled
<1> USE ApprovalsAssumption, PermissionsAssumption
<1>a. /\ clock \in 0..Horizon
      /\ pending_approvals \in Seq(Approval)
      /\ decisions \in [Procs -> {NoDecision} \cup Decision]
      /\ \A p \in Procs : decisions[p] # NoDecision => decisions[p].id \in DOMAIN pending_approvals
    BY DEF ApprovalsInv
<1>b. \A i \in DOMAIN pending_approvals : pending_approvals[i] \in Approval
    BY <1>a
<1>s. ASSUME ever_admin \subseteq ever_admin', UNCHANGED <<pending_approvals, decisions>>,
             clock' \in 0..Horizon
      PROVE  ApprovalsInv' /\ Settled
    BY <1>s DEF ApprovalsInv, Settled
<1>1. CASE PermissionNext /\ UNCHANGED approvalVars
    BY <1>1, <1>a, <1>s, AdminRecordGrows DEF approvalVars
<1>2. CASE UNCHANGED accessVars
    BY <1>2, <1>a, <1>s DEF accessVars, approvalVars, permissionVars, people
<1>3. CASE Tick
    BY <1>3, <1>a, <1>s DEF Tick, permissionVars, people
<1>4. CASE ask
    BY <1>4, <1>a, <1>s DEF ask, permissionVars, people
<1>5. ASSUME NEW kind \in ApprovalKind, NEW e \in 1..Never, request_approval(kind, e)
      PROVE  ApprovalsInv' /\ Settled
    <2> DEFINE row == [kind |-> kind, status |-> "pending", expires_at |-> e, by |-> None, at |-> 0]
    <2>1. /\ pending_approvals' = Append(pending_approvals, row)
          /\ UNCHANGED <<clock, decisions, ever_admin>>
        BY <1>5 DEF request_approval, permissionVars, people
    <2>2. row \in Approval /\ row.status = "pending"
        BY DEF Approval, ApprovalStatus
    <2>3. /\ DOMAIN pending_approvals \subseteq DOMAIN pending_approvals'
          /\ pending_approvals' \in Seq(Approval)
          /\ \A i \in DOMAIN pending_approvals : pending_approvals'[i] = pending_approvals[i]
          /\ \A i \in DOMAIN pending_approvals' :
                 i \in DOMAIN pending_approvals \/ pending_approvals'[i] = row
        <3> HIDE DEF row
        <3> QED BY <1>a, <2>1, <2>2
    <2>4. Settled
        BY <2>3 DEF Settled, ApprovalsInv
    <2>5. \A i \in DOMAIN pending_approvals' : pending_approvals'[i].status = "granted" =>
              /\ pending_approvals'[i].by \in ever_admin'
              /\ pending_approvals'[i].at < pending_approvals'[i].expires_at
        BY <2>1, <2>2, <2>3, <2>4 DEF Settled
    <2>6. \A p \in Procs : decisions'[p] # NoDecision => decisions'[p].id \in DOMAIN pending_approvals'
        BY <1>a, <2>1, <2>3
    <2> QED BY <1>a, <2>1, <2>3, <2>4, <2>5, <2>6 DEF ApprovalsInv
<1>6. ASSUME NEW p \in Procs, NEW who \in Handles, NEW id \in 1..MaxApprovals,
             NEW o \in {"granted", "denied"}, ReadClock(p, who, id, o)
      PROVE  ApprovalsInv' /\ Settled
    <2>1. PICK d : /\ d = [who |-> who, id |-> id, now |-> clock, outcome |-> o]
                   /\ decisions' = [decisions EXCEPT ![p] = d]
                   /\ id \in DOMAIN pending_approvals
                   /\ UNCHANGED <<clock, pending_approvals, ever_admin>>
        BY <1>6 DEF ReadClock, permissionVars, people
    <2>2. d \in Decision /\ d.id = id
        BY <1>a, <2>1 DEF Decision
    <2>3. decisions' \in [Procs -> {NoDecision} \cup Decision]
        BY <1>a, <2>1, <2>2
    <2>4. \A q \in Procs : decisions'[q] # NoDecision => decisions'[q].id \in DOMAIN pending_approvals'
        BY <1>a, <2>1, <2>2
    <2>5. Settled
        BY <2>1 DEF Settled, ApprovalsInv
    <2> QED BY <2>1, <2>3, <2>4, <2>5 DEF ApprovalsInv
<1>7. ASSUME NEW p \in Procs, Decide(p)
      PROVE  ApprovalsInv' /\ Settled
    <2>1. PICK d : d = decisions[p]
        OBVIOUS
    <2>2. PICK a : a = pending_approvals[d.id]
        OBVIOUS
    <2>3. /\ d # NoDecision
          /\ decisions' = [decisions EXCEPT ![p] = NoDecision]
          /\ UNCHANGED <<clock, ever_admin>>
        BY <1>7, <2>1 DEF Decide, permissionVars, people
    <2>4. d \in Decision /\ d.id \in DOMAIN pending_approvals /\ a \in Approval
        BY <1>a, <1>b, <2>1, <2>2, <2>3
    <2>5. CASE ~is_administrative(d.who) \/ a.status # "pending"
        <3>1. pending_approvals' = pending_approvals
            BY <1>7, <2>1, <2>2, <2>5 DEF Decide
        <3> QED BY <1>a, <2>3, <3>1, RowsRewritten
    <2>6. CASE is_administrative(d.who) /\ a.status = "pending"
        <3>1. PICK n :
              /\ n = IF a.expires_at <= d.now THEN [a EXCEPT !.status = "expired"]
                     ELSE [a EXCEPT !.status = d.outcome, !.by = d.who, !.at = d.now]
              /\ pending_approvals' = [pending_approvals EXCEPT ![d.id] = n]
            BY <1>7, <2>1, <2>2, <2>6 DEF Decide
        <3>2. d.who \in ever_admin
            BY <2>4, <2>6, AdminOnRecord DEF PeopleInv, Decision
        <3>3. n \in Approval
            <4>1. d.outcome \in ApprovalStatus /\ d.who \in Handles /\ d.now \in 0..Horizon
                BY <2>4 DEF Decision, ApprovalStatus
            <4>2. "expired" \in ApprovalStatus
                BY DEF ApprovalStatus
            <4> QED BY <2>4, <3>1, <4>1, <4>2 DEF Approval
        <3>4. n.status = "granted" => n.by \in ever_admin /\ n.at < n.expires_at
            <4>1. CASE a.expires_at <= d.now
                <5>1. n.status = "expired"
                    BY <2>4, <3>1, <4>1 DEF Approval
                <5> QED BY <5>1
            <4>2. CASE ~(a.expires_at <= d.now)
                <5>1. n.by = d.who /\ n.at = d.now /\ n.expires_at = a.expires_at
                    BY <2>4, <3>1, <4>2 DEF Approval
                <5>2. a.expires_at \in Int /\ d.now \in Int
                    BY <2>4 DEF Approval, Decision, Never
                <5> QED BY <3>2, <4>2, <5>1, <5>2
            <4> QED BY <4>1, <4>2
        <3>5. /\ pending_approvals' \in Seq(Approval)
              /\ DOMAIN pending_approvals' = DOMAIN pending_approvals
              /\ \A i \in DOMAIN pending_approvals : pending_approvals'[i] =
                     IF i = d.id THEN n ELSE pending_approvals[i]
            BY <1>a, <2>4, <3>1, <3>3
        <3> QED BY <1>a, <2>2, <2>3, <2>6, <3>4, <3>5, RowsRewritten
    <2> QED BY <2>5, <2>6
<1>8. ASSUME NEW now \in 0..clock, sweep_expired(now)
      PROVE  ApprovalsInv' /\ Settled
    <2>1. /\ UNCHANGED <<clock, decisions, ever_admin>>
          /\ pending_approvals' = [i \in DOMAIN pending_approvals |->
                 IF i \in pending_past_expiry(now)
                 THEN [pending_approvals[i] EXCEPT !.status = "expired"] ELSE pending_approvals[i]]
        BY <1>8 DEF sweep_expired, permissionVars, people
    <2>2. \A i \in pending_past_expiry(now) :
              i \in DOMAIN pending_approvals /\ pending_approvals[i].status = "pending"
        BY DEF pending_past_expiry
    <2>3. \A i \in DOMAIN pending_approvals :
              LET n == [pending_approvals[i] EXCEPT !.status = "expired"]
              IN  n \in Approval /\ n.status = "expired"
        BY <1>b DEF Approval, ApprovalStatus
    <2>4. DOMAIN pending_approvals' = DOMAIN pending_approvals
        BY <2>1
    <2>5. \A i \in DOMAIN pending_approvals :
              /\ pending_approvals'[i] \in Approval
              /\ \/ pending_approvals'[i] = pending_approvals[i]
                 \/ pending_approvals[i].status = "pending" /\ pending_approvals'[i].status = "expired"
        BY <1>b, <2>1, <2>2, <2>3
    <2>6. pending_approvals' \in Seq(Approval)
        <3>1. DOMAIN pending_approvals = 1..Len(pending_approvals) /\ Len(pending_approvals) \in Nat
            BY <1>a
        <3>2. pending_approvals' \in [1..Len(pending_approvals) -> Approval]
            BY <2>1, <2>5, <3>1
        <3> QED BY <3>1, <3>2
    <2>7. CASE Procs = {}
        BY <1>a, <2>1, <2>4, <2>5, <2>6, <2>7 DEF ApprovalsInv, Settled
    <2>8. CASE Procs # {}
        <3>1. PICK p : p \in Procs
            BY <2>8
        <3> QED BY <1>a, <2>1, <2>4, <2>5, <2>6, <3>1, RowsRewritten
    <2> QED BY <2>7, <2>8
<1>9. ASSUME NEW q \in 1..MaxQuestions, respond(q)
      PROVE  ApprovalsInv' /\ Settled
    BY <1>9, <1>a, <1>s DEF respond, permissionVars, people
<1> QED
    BY <1>1, <1>2, <1>3, <1>4, <1>5, <1>6, <1>7, <1>8, <1>9 DEF AccessNext, ApprovalNext

(* An approval is decided once and for good, by one who was an admin and whose
   clock had not reached the expiry, for any number of approvers, sweeps and
   late calls.                                                              *)
THEOREM DecisionsStand == AccessSpec => DecidedForGood
<1> DEFINE Inv == PeopleInv /\ ApprovalsInv
<1>1. ApprovalInit => Inv
    BY PeopleInit, ApprovalsInit DEF ApprovalInit
<1>2. Inv /\ [AccessNext]_accessVars => Inv' /\ Settled
    <2> SUFFICES ASSUME Inv, [AccessNext]_accessVars PROVE Inv' /\ Settled
        OBVIOUS
    <2>1. [PermissionNext]_permissionVars
        BY DEF AccessNext, ApprovalNext, accessVars, Tick, ask, request_approval, ReadClock,
               Decide, sweep_expired, respond
    <2> QED BY <2>1, PeopleStep, ApprovalsStep
<1>3. DecidedForGood <=> [][Settled]_accessVars
    BY PTL DEF DecidedForGood, Settled
<1> QED BY <1>1, <1>2, <1>3, PTL DEF AccessSpec

-----------------------------------------------------------------------------
(* The command bridge *)

\* A set of numbers that is not empty has a least one.
LEMMA LeastNumber ==
    ASSUME NEW S \in SUBSET Nat, S # {} PROVE \E n \in S : \A m \in S : n <= m
<1> DEFINE Less == OpToRel(<, Nat)
<1>1. \A m, n \in Nat : m < n => <<m, n>> \in Less
    BY DEF OpToRel
<1>2. IsWellFoundedOn(Less, Nat)
    BY NatLessThanWellFounded
<1> HIDE DEF Less
<1>3. PICK n \in S : \A m \in S : ~ (<<m, n>> \in Less)
    BY <1>2, WFMin
<1>4. \A m \in S : ~ (m < n)
    BY <1>1, <1>3
<1> QED BY <1>3, <1>4

\* Runs that are not accounted for by a failure are behind the mark, the batch
\* is ahead of it.
BridgeInv ==
    /\ high_water \in Nat /\ batch \subseteq 1..MaxRequests
    /\ Len(outbound) \in 0..MaxRequests /\ outbound \in Seq(Commands \cup {"malformed", "reply"})
    /\ executed \in [1..MaxRequests -> Nat]
    /\ \A n \in batch : n > high_water
    /\ \A n \in 1..MaxRequests : n \notin unsent =>
           executed[n] \in {0, 1} /\ (executed[n] = 1 => n <= high_water)

LEMMA FirstOfBatch ==
    ASSUME BridgeInv, batch # {} PROVE First \in batch /\ \A m \in batch : First <= m
<1>1. batch \subseteq Nat
    BY BridgeAssumption DEF BridgeInv
<1>2. \E n \in batch : \A m \in batch : n <= m
    BY <1>1, LeastNumber
<1> QED BY <1>2 DEF First

(* A serving instance runs a command once, unless the response or the mark of
   that very request could not be written, for any batch size, any stream and
   any number of failures.                                                  *)
THEOREM CommandsRunOnce == BridgeSpec => []RunOnce
<1>1. BridgeInit => BridgeInv
    BY BridgeAssumption DEF BridgeInit, BridgeInv
<1>2. BridgeInv /\ [BridgeNext]_bridgeVars => BridgeInv'
    <2> SUFFICES ASSUME BridgeInv, [BridgeNext]_bridgeVars PROVE BridgeInv'
        OBVIOUS
    <2> USE BridgeAssumption
    <2>ran. ASSUME Execute, batch # {}
            PROVE  /\ executed' \in [1..MaxRequests -> Nat]
                   /\ \A n \in 1..MaxRequests : n # First => executed'[n] = executed[n]
                   /\ executed'[First] \in {executed[First], executed[First] + 1}
                   /\ First \in 1..MaxRequests
        <3>1. First \in 1..MaxRequests
            BY <2>ran, FirstOfBatch DEF BridgeInv
        <3> HIDE DEF First
        <3> QED BY <2>ran, <3>1 DEF Execute, BridgeInv
    <2>1. ASSUME NEW row \in Commands \cup {"malformed", "reply"}, Submit(row) PROVE BridgeInv'
        BY <2>1 DEF Submit, BridgeInv
    <2>2. CASE pending_requests
        <3>1. batch' \subseteq 1..MaxRequests /\ \A n \in batch' : n > high_water
            BY <2>2 DEF pending_requests, InBatch, Unserved, Requests, BridgeInv
        <3> QED BY <2>2, <3>1 DEF pending_requests, BridgeInv
    <2>3. CASE send_response
        <3>1. /\ batch # {} /\ Execute /\ high_water' = First /\ batch' = batch \ {First}
              /\ UNCHANGED <<outbound, unsent>>
            BY <2>3 DEF send_response
        <3>2. PICK f \in 1..MaxRequests : f = First
            BY <3>1, <2>ran
        <3>3. f \in batch /\ (\A m \in batch : f <= m) /\ f > high_water
            BY <3>1, <3>2, FirstOfBatch DEF BridgeInv
        <3>4. \A n \in batch' : n > f
            BY <3>1, <3>2, <3>3 DEF BridgeInv
        <3>5. ASSUME NEW n \in 1..MaxRequests, n \notin unsent
              PROVE  executed'[n] \in {0, 1} /\ (executed'[n] = 1 => n <= f)
            <4>1. executed[n] \in {0, 1} /\ (executed[n] = 1 => n <= high_water)
                BY <3>5 DEF BridgeInv
            <4>2. CASE n = f
                BY <3>1, <3>2, <3>3, <4>1, <4>2, <2>ran DEF BridgeInv
            <4>3. CASE n # f
                BY <3>1, <3>2, <3>3, <4>1, <4>3, <2>ran DEF BridgeInv
            <4> QED BY <4>2, <4>3
        <3>6. executed' \in [1..MaxRequests -> Nat]
            BY <2>ran, <3>1
        <3> QED BY <3>1, <3>2, <3>4, <3>5, <3>6 DEF BridgeInv
    <2>4. CASE send_response_fails
        <3>1. /\ batch # {} /\ Execute /\ unsent' = unsent \cup {First} /\ batch' = {}
              /\ UNCHANGED <<outbound, high_water>>
            BY <2>4 DEF send_response_fails
        <3>2. PICK f \in 1..MaxRequests : f = First
            BY <3>1, <2>ran
        <3>3. executed' \in [1..MaxRequests -> Nat]
            BY <2>ran, <3>1
        <3>4. \A n \in 1..MaxRequests : n # f => executed'[n] = executed[n]
            BY <2>ran, <3>1, <3>2
        <3> HIDE DEF First
        <3> QED BY <3>1, <3>2, <3>3, <3>4 DEF BridgeInv
    <2>5. CASE Restart
        BY <2>5 DEF Restart, BridgeInv
    <2>6. CASE UNCHANGED bridgeVars
        BY <2>6 DEF bridgeVars, BridgeInv
    <2> QED BY <2>1, <2>2, <2>3, <2>4, <2>5, <2>6 DEF BridgeNext
<1>3. BridgeInv => RunOnce
    BY BridgeAssumption DEF BridgeInv, RunOnce
<1> QED BY <1>1, <1>2, <1>3, PTL DEF BridgeSpec
=============================================================================
