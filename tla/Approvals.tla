----------------------------- MODULE Approvals ------------------------------
(***************************************************************************)
(* assistant-approvals over assistant-permissions: approvals that an       *)
(* administrative user grants or denies before they expire, and questions  *)
(* that are answered once.  The library never reads the clock: a caller    *)
(* passes a time it read before, so its time may lag the clock.            *)
(***************************************************************************)
EXTENDS Permissions

CONSTANTS
    MaxApprovals,   \* bound: rows of pending_approvals
    MaxQuestions,   \* bound: rows of pending_questions
    Horizon         \* bound: the last reading of the clock

ASSUME ApprovalsAssumption == MaxApprovals \in Nat /\ MaxQuestions \in Nat /\ Horizon \in Nat

VARIABLES
    clock,
    pending_approvals,  \* rows [kind, status, expires_at, by, at], by id
    pending_questions,  \* statuses, by id
    decisions           \* what each process is about to decide

approvalVars == <<clock, pending_approvals, pending_questions, decisions>>
accessVars == <<permissionVars, approvalVars>>

ApprovalKind == {"generic", "credential"}
ApprovalStatus == {"pending", "granted", "denied", "expired"}
QuestionStatus == {"open", "answered"}
Never == Horizon + 1            \* expires_at of an approval that does not expire

NoDecision == [who |-> None, id |-> 0, now |-> 0, outcome |-> "pending"]

ApprovalInit ==
    /\ PermissionInit
    /\ clock = 0
    /\ pending_approvals = <<>> /\ pending_questions = <<>>
    /\ decisions = [p \in Procs |-> NoDecision]

\* Time passes while calls are under way.
Tick ==
    /\ clock < Horizon
    /\ clock' = clock + 1
    /\ UNCHANGED <<permissionVars, pending_approvals, pending_questions, decisions>>

request_approval(kind, expires_at) ==
    /\ Len(pending_approvals) < MaxApprovals
    /\ pending_approvals' = Append(pending_approvals,
           [kind |-> kind, status |-> "pending", expires_at |-> expires_at, by |-> None, at |-> 0])
    /\ UNCHANGED <<permissionVars, clock, pending_questions, decisions>>

\* A caller of grant or deny reads the clock.
ReadClock(p, who, id, outcome) ==
    /\ decisions[p] = NoDecision /\ id \in DOMAIN pending_approvals
    /\ decisions' = [decisions EXCEPT ![p] =
           [who |-> who, id |-> id, now |-> clock, outcome |-> outcome]]
    /\ UNCHANGED <<permissionVars, clock, pending_approvals, pending_questions>>

(* Mutant: the status is not looked at again in the transaction. *)
MutantDecideAgain(p) ==
    LET d == decisions[p]
        a == pending_approvals[d.id]
    IN
    /\ d # NoDecision
    /\ IF ~is_administrative(d.who)
         THEN UNCHANGED pending_approvals
         ELSE pending_approvals' = [pending_approvals EXCEPT ![d.id] =
                  IF a.expires_at <= d.now THEN [a EXCEPT !.status = "expired"]
                  ELSE [a EXCEPT !.status = d.outcome, !.by = d.who, !.at = d.now]]
    /\ decisions' = [decisions EXCEPT ![p] = NoDecision]
    /\ UNCHANGED <<permissionVars, clock, pending_questions>>

\* decide, one transaction: the approver is an admin, the approval is pending;
\* one that has expired by the caller's time is marked and never honored.
Decide(p) ==
    LET d == decisions[p]
        a == pending_approvals[d.id]
    IN
    /\ d # NoDecision
    /\ IF ~is_administrative(d.who) \/ a.status # "pending"
         THEN UNCHANGED pending_approvals
         ELSE pending_approvals' = [pending_approvals EXCEPT ![d.id] =
                  IF a.expires_at <= d.now THEN [a EXCEPT !.status = "expired"]
                  ELSE [a EXCEPT !.status = d.outcome, !.by = d.who, !.at = d.now]]
    /\ decisions' = [decisions EXCEPT ![p] = NoDecision]
    /\ UNCHANGED <<permissionVars, clock, pending_questions>>

pending_past_expiry(now) ==
    {i \in DOMAIN pending_approvals :
        pending_approvals[i].status = "pending" /\ pending_approvals[i].expires_at <= now}

no_approvals_stuck_past_expiry == pending_past_expiry(clock) = {}

\* The sweep, by a process whose time may lag.
sweep_expired(now) ==
    /\ pending_past_expiry(now) # {}
    /\ pending_approvals' = [i \in DOMAIN pending_approvals |->
           IF i \in pending_past_expiry(now)
           THEN [pending_approvals[i] EXCEPT !.status = "expired"] ELSE pending_approvals[i]]
    /\ UNCHANGED <<permissionVars, clock, pending_questions, decisions>>

ask ==
    /\ Len(pending_questions) < MaxQuestions
    /\ pending_questions' = Append(pending_questions, "open")
    /\ UNCHANGED <<permissionVars, clock, pending_approvals, decisions>>

respond(q) ==
    /\ q \in DOMAIN pending_questions /\ pending_questions[q] = "open"
    /\ pending_questions' = [pending_questions EXCEPT ![q] = "answered"]
    /\ UNCHANGED <<permissionVars, clock, pending_approvals, decisions>>

ApprovalNext ==
    \/ Tick \/ ask
    \/ \E kind \in ApprovalKind, e \in 1..Never : request_approval(kind, e)
    \/ \E p \in Procs, who \in Handles, id \in 1..MaxApprovals, o \in {"granted", "denied"} :
          ReadClock(p, who, id, o)
    \/ \E p \in Procs : Decide(p)
    \/ \E now \in 0..clock : sweep_expired(now)
    \/ \E q \in 1..MaxQuestions : respond(q)

AccessNext == (PermissionNext /\ UNCHANGED approvalVars) \/ ApprovalNext

-----------------------------------------------------------------------------
(* Properties *)

AccessTypeOK ==
    /\ PermissionTypeOK
    /\ clock \in 0..Horizon
    /\ pending_approvals \in Seq([kind: ApprovalKind, status: ApprovalStatus,
           expires_at: 1..Never, by: Handles \cup {None}, at: 0..Horizon])
    /\ pending_questions \in Seq(QuestionStatus)

(* An approval is decided once and for good: neither a second approver, nor a
   sweep, nor the late call of one whose clock is old changes a row that is no
   longer pending; and a grant is by someone who was an admin, with a clock
   that had not reached the expiry.                                         *)
DecidedForGood ==
    [][\A i \in DOMAIN pending_approvals :
          /\ pending_approvals[i].status # "pending" => pending_approvals'[i] = pending_approvals[i]
          /\ pending_approvals'[i].status = "granted" =>
                 /\ pending_approvals'[i].by \in ever_admin
                 /\ pending_approvals'[i].at < pending_approvals'[i].expires_at]_accessVars
=============================================================================
