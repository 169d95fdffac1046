----------------------------- MODULE Scheduler -----------------------------
(***************************************************************************)
(* Scheduled work: the per-session source of truth of each item            *)
(* (assistant-scheduler/src/model.rs, source.rs), the central projection   *)
(* of items and occurrences (projection.rs), the execution leases          *)
(* (lease.rs), the repair that rebuilds the projection (repair.rs), and    *)
(* the serve loop that drives them (assistant-host/src/slack.rs:           *)
(* scheduler_tick, finalize_scheduled_turn, drain_completed_runas, the     *)
(* schedule side effects of a turn).  The source row lives in the session  *)
(* database and the projection in the central one, so no write covers both *)
(* and the process may die between them.                                   *)
(*                                                                         *)
(* Time is counted in slots: the next_after of a recurrence is the next    *)
(* slot.  A lease is live or not; its TTL may run out at any moment, since *)
(* a turn may take longer.  A turn of a session is one step here; what it  *)
(* guarantees is proved of SessionProtocol.                                *)
(***************************************************************************)
EXTENDS Integers, FiniteSets

CONSTANTS
    Items,       \* ids of scheduled items
    Recurring,   \* the items with a recurrence; the others are one-offs
    RunAs,       \* the items that fire as a named agent, in the background
    Standing,    \* the standing tasks: registered centrally, no source row
    Gated,       \* the items with a gate command
    Sessions,    \* the sessions of the group
    StandingSession,  \* the one standing tasks fire into
    SessionOf,   \* the session an item is bound to
    MaxTime,     \* bound: the last slot the clock reaches
    MaxSeq,      \* bound: occurrences of one item
    MaxEffects,  \* bound: schedule actions of turns in one behaviour
    Faults,      \* the kinds of disturbance that may happen
    MaxFaults    \* bound: disturbances in one behaviour

FaultKinds == {"crash", "restart", "turn_error", "worker_error", "gate_error",
               "claim_error", "source_error", "central_error",
               "finalize_error", "repair_error"}

ASSUME ConstantsAssumption ==
    /\ Recurring \subseteq Items
    /\ RunAs \subseteq Items
    /\ Standing \subseteq Recurring
    /\ Gated \subseteq Standing
    /\ SessionOf \in [Items -> Sessions]
    /\ \A i \in Standing : SessionOf[i] = StandingSession
    /\ MaxTime \in Nat
    /\ MaxSeq \in Nat
    /\ MaxEffects \in Nat
    /\ MaxFaults \in Nat
    /\ Faults \subseteq FaultKinds

VARIABLES
    clock,      \* the current slot
    source,     \* source[i]: the item's row in its session's messages_in
    item,       \* item[i]: the item's row in scheduled_items
    occ,        \* occ[i][s]: its rows in scheduled_occurrences
    (* the serve process *)
    pc,         \* "down", "idle", "turns", "effects" or "finalize"
    stopping,   \* the listener has returned, the workers are being joined
    leases,     \* claimed in this tick, not yet run
    current,    \* the occurrence whose finished turn is being applied
    acting,     \* the session whose replies are being applied
    op,         \* a schedule action between its two writes
    inflight,   \* run_as_inflight: keys of background turns
    workers,    \* background turns: running, ok or err
    (* the sessions *)
    consumed,   \* keys of the inline turns whose replies a host has marked
    (* history *)
    first,      \* the slot an item was created for
    ran,        \* <<item, slot>> whose turn has handed over its replies
    twice,      \* <<item, slot>> for which two turns have
    effects,    \* schedule actions so far
    faults      \* disturbances so far

centralDb == <<item, occ>>
process   == <<pc, stopping, leases, current, acting, op, inflight, workers>>
vars == <<clock, source, centralDb, process, consumed, first, ran, twice,
          effects, faults>>

NoTime == -1
Slots  == 0..MaxTime
Times  == 0..(MaxTime + 1)
Seqs   == 1..MaxSeq
NoOcc  == [item |-> "none"]
NoOp   == [kind |-> "none"]

Status   == {"none", "active", "paused", "cancelled", "completed"}
Terminal == {"cancelled", "completed"}

Meta    == [status : Status, after : Times, seq : 0..MaxSeq]
ItemRow == [status : Status, after : Times]
OccRow  == [status : {"none", "pending", "fired"},
            at : Slots \cup {NoTime}, leased : BOOLEAN]
Lease   == [item : Items, seq : Seqs, at : Slots, due : Slots]
Key     == [item : Items, seq : Seqs]
Action  == [kind : {"create", "cancel", "pause", "resume"}, item : Items]

(* Recurrence::next_after, in slots. *)
next_after(t) == t + 1

KeyOf(l) == [item |-> l.item, seq |-> l.seq]
Highest(S) == {m \in S : \A n \in S : n =< m}

(* A disturbance, counted against the bound. *)
Fault(kind) == /\ kind \in Faults
               /\ faults < MaxFaults
               /\ faults' = faults + 1

Init ==
    /\ clock = 0
    /\ source = [i \in Items |-> [status |-> "none", after |-> 0, seq |-> 0]]
    /\ item = [i \in Items |-> [status |-> "none", after |-> 0]]
    /\ occ = [i \in Items |-> [s \in Seqs |->
                 [status |-> "none", at |-> NoTime, leased |-> FALSE]]]
    /\ pc = "down" /\ stopping = FALSE
    /\ leases = {} /\ current = NoOcc /\ acting = "none" /\ op = NoOp
    /\ inflight = {} /\ workers = {}
    /\ consumed = {}
    /\ first = [i \in Items |-> 0]
    /\ ran = {} /\ twice = {}
    /\ effects = 0 /\ faults = 0

-----------------------------------------------------------------------------
(* Time *)

ClockTicks ==
    /\ clock < MaxTime
    /\ clock' = clock + 1
    /\ UNCHANGED <<source, centralDb, process, consumed, first, ran, twice,
                   effects, faults>>

(* Mutant: only an occurrence without an owner can be claimed. *)
MutantNoStaleRecovery(i, s) == FALSE /\ UNCHANGED vars

(* lease_expires_at =< now. *)
LeaseExpires(i, s) ==
    /\ occ[i][s].leased
    /\ occ' = [occ EXCEPT ![i][s].leased = FALSE]
    /\ UNCHANGED <<clock, source, item, process, consumed, first, ran, twice,
                   effects, faults>>

-----------------------------------------------------------------------------
(* Starting and stopping the serve process *)

(* reconcile_item: the item row is overwritten from the source row. *)
ReconciledItem(i) == [status |-> source[i].status, after |-> source[i].after]

(* reconcile_item: the source's last fired occurrence is fired, later ones  *)
(* are not.  The lease columns and a recorded time are kept.                *)
ReconciledOccs(i) ==
    [s \in Seqs |->
        [occ[i][s] EXCEPT !.status =
            IF s = source[i].seq THEN "fired"
            ELSE IF s > source[i].seq /\ @ = "fired" THEN "pending" ELSE @]]

(* ensure_standing_tasks, then repair_existing_sessions: every session that *)
(* can be read is reconciled; the failing ones are logged and skipped.      *)
ServeStart(failing) ==
    LET fresh(i)  == i \in Standing /\ item[i].status = "none"
        repair(i) == /\ source[i].status # "none"
                     /\ SessionOf[i] \notin failing
    IN
    /\ pc = "down"
    /\ \/ failing = {} /\ UNCHANGED faults
       \/ failing # {} /\ Fault("repair_error")
    /\ item' = [i \in Items |->
          IF fresh(i) THEN [status |-> "active", after |-> clock]
          ELSE IF repair(i) THEN ReconciledItem(i) ELSE item[i]]
    /\ occ' = [i \in Items |-> IF repair(i) THEN ReconciledOccs(i) ELSE occ[i]]
    /\ first' = [i \in Items |-> IF fresh(i) THEN clock ELSE first[i]]
    /\ pc' = "idle"
    /\ UNCHANGED <<clock, source, stopping, leases, current, acting, op,
                   inflight, workers, consumed, ran, twice, effects>>

(* Everything the process held in memory is gone. *)
ProcessGone ==
    /\ pc' = "down" /\ stopping' = FALSE
    /\ leases' = {} /\ current' = NoOcc /\ acting' = "none" /\ op' = NoOp
    /\ inflight' = {} /\ workers' = {}

Crash ==
    /\ pc # "down"
    /\ Fault("crash")
    /\ ProcessGone
    /\ UNCHANGED <<clock, source, centralDb, consumed, first, ran, twice, effects>>

(* A graceful stop joins the background turns and drains them first. *)
StopRequested ==
    /\ pc = "idle" /\ ~stopping
    /\ Fault("restart")
    /\ stopping' = TRUE
    /\ UNCHANGED <<clock, source, centralDb, pc, leases, current, acting, op,
                   inflight, workers, consumed, first, ran, twice, effects>>

ServeReturns ==
    /\ pc = "idle" /\ stopping
    /\ workers = {}
    /\ ProcessGone
    /\ UNCHANGED <<clock, source, centralDb, consumed, first, ran, twice,
                   effects, faults>>

-----------------------------------------------------------------------------
(* The sweep: claim_due *)

PendingSeqs(i)  == {s \in Seqs : occ[i][s].status = "pending"}
ExistingSeqs(i) == {s \in Seqs : occ[i][s].status # "none"}

Due(i) == item[i].status = "active" /\ item[i].after =< clock

AlreadyFired(i) ==
    \E s \in Seqs : occ[i][s].status = "fired" /\ occ[i][s].at = item[i].after

LeaseOn(i, s, at) == [item |-> i, seq |-> s, at |-> at, due |-> item[i].after]

(* COALESCE(MAX(sequence), 0) + 1, within the bound. *)
NextSeq(i) == {s \in Seqs : /\ s = 1 \/ s - 1 \in ExistingSeqs(i)
                            /\ \A n \in ExistingSeqs(i) : n < s}

(* Mutant: a pending occurrence is not looked for. *)
MutantAlwaysAllocate(i) ==
    IF AlreadyFired(i) THEN {}
    ELSE {LeaseOn(i, s, item[i].after) : s \in NextSeq(i)}

(* next_claimable_occurrence: the highest pending occurrence, else nothing  *)
(* when the item's current slot has fired, else the next sequence number.   *)
(* A set of at most one lease.                                              *)
NextClaimable(i) ==
    IF PendingSeqs(i) # {}
      THEN {LeaseOn(i, s, IF occ[i][s].at = NoTime THEN item[i].after
                          ELSE occ[i][s].at) : s \in Highest(PendingSeqs(i))}
    ELSE IF AlreadyFired(i) THEN {}
    ELSE {LeaseOn(i, s, item[i].after) : s \in NextSeq(i)}

(* claim_due: the due occurrences no live lease holds. *)
Claims == {l \in UNION {NextClaimable(i) : i \in {j \in Items : Due(j)}} :
              ~occ[l.item][l.seq].leased}

(* acquire_lease of each: the row is inserted if absent, then leased. *)
Acquire(C) ==
    occ' = [i \in Items |-> [s \in Seqs |->
        IF \E l \in C : KeyOf(l) = [item |-> i, seq |-> s]
          THEN LET l == CHOOSE x \in C : KeyOf(x) = [item |-> i, seq |-> s] IN
               [status |-> "pending",
                at     |-> IF occ[i][s].status = "none" THEN l.at ELSE occ[i][s].at,
                leased |-> TRUE]
          ELSE occ[i][s]]]

(* scheduler_tick up to its loop. *)
Tick ==
    /\ pc = "idle" /\ ~stopping
    /\ Claims # {}
    /\ Acquire(Claims)
    /\ leases' = Claims
    /\ pc' = "turns"
    /\ UNCHANGED <<clock, source, item, stopping, current, acting, op, inflight,
                   workers, consumed, first, ran, twice, effects, faults>>

(* claim_due or list_items fails part-way: the leases taken are left. *)
TickFails ==
    /\ pc = "idle" /\ ~stopping
    /\ Fault("claim_error")
    /\ \E C \in SUBSET Claims : C # {} /\ Acquire(C)
    /\ UNCHANGED <<clock, source, item, process, consumed, first, ran, twice,
                   effects>>

(* The leases are run in the order claim_due listed the items; the id that  *)
(* breaks a tie is a hash, so any order of equal due times is possible.     *)
NextLease(l) == l \in leases /\ \A m \in leases : l.due =< m.due

(* The loop goes on with the next lease. *)
Drop(l) ==
    /\ leases' = leases \ {l}
    /\ pc' = IF leases = {l} THEN "idle" ELSE "turns"

-----------------------------------------------------------------------------
(* Finalizing an occurrence *)

(* Mutant: the occurrence is fired and the item left as it was. *)
MutantNoAdvance(l) ==
    /\ occ' = [occ EXCEPT ![l.item][l.seq].status = "fired",
                          ![l.item][l.seq].leased = FALSE]
    /\ item' = item

(* finalize_firing: complete_occurrence, then advance_recurrence or         *)
(* complete_item, in one transaction.                                       *)
FinalizeFiring(l) ==
    /\ occ' = [occ EXCEPT ![l.item][l.seq].status = "fired",
                          ![l.item][l.seq].leased = FALSE]
    /\ item' = IF l.item \in Recurring
                 THEN [item EXCEPT ![l.item].after = next_after(l.at)]
               ELSE IF item[l.item].status = "active"
                 THEN [item EXCEPT ![l.item].status = "completed"]
               ELSE item

FinalizeOrFail(l) ==
    \/ FinalizeFiring(l) /\ UNCHANGED faults
    \/ Fault("finalize_error") /\ UNCHANGED centralDb

-----------------------------------------------------------------------------
(* Running one lease *)

(* GateOutcome::Skip: the schedule moves on without a turn. *)
GateSkips(l) ==
    /\ pc = "turns" /\ NextLease(l)
    /\ l.item \in Gated
    /\ FinalizeOrFail(l)
    /\ Drop(l)
    /\ UNCHANGED <<clock, source, stopping, current, acting, op, inflight,
                   workers, consumed, first, ran, twice, effects>>

(* The gate cannot be run, or run_as names no registered agent: the lease   *)
(* is left to expire.                                                       *)
LeaveLease(l) ==
    /\ pc = "turns" /\ NextLease(l)
    /\ l.item \in Gated \cup RunAs
    /\ Fault("gate_error")
    /\ Drop(l)
    /\ UNCHANGED <<clock, source, centralDb, stopping, current, acting, op,
                   inflight, workers, consumed, first, ran, twice, effects>>

(* The occurrence's background turn is still running. *)
SkipInflight(l) ==
    /\ pc = "turns" /\ NextLease(l)
    /\ l.item \in RunAs
    /\ KeyOf(l) \in inflight
    /\ Drop(l)
    /\ UNCHANGED <<clock, source, centralDb, stopping, current, acting, op,
                   inflight, workers, consumed, first, ran, twice, effects,
                   faults>>

(* Mutant: the in-flight guard is missing. *)
MutantSpawnAlways(l) ==
    /\ pc = "turns" /\ NextLease(l)
    /\ l.item \in RunAs
    /\ inflight' = inflight \cup {KeyOf(l)}
    /\ workers' = workers \cup {[lease |-> l, state |-> "running"]}
    /\ Drop(l)
    /\ UNCHANGED <<clock, source, centralDb, stopping, current, acting, op,
                   consumed, first, ran, twice, effects, faults>>

(* spawn_run_as_turn: a background turn in a session of its own. *)
SpawnRunAs(l) ==
    /\ pc = "turns" /\ NextLease(l)
    /\ l.item \in RunAs
    /\ KeyOf(l) \notin inflight
    /\ inflight' = inflight \cup {KeyOf(l)}
    /\ workers' = workers \cup {[lease |-> l, state |-> "running"]}
    /\ Drop(l)
    /\ UNCHANGED <<clock, source, centralDb, stopping, current, acting, op,
                   consumed, first, ran, twice, effects, faults>>

(* The replies of l's finished turn are about to be applied. *)
ApplyReplies(l) ==
    /\ pc' = "effects"
    /\ current' = l
    /\ acting' = SessionOf[l.item]
    /\ ran' = ran \cup {<<l.item, l.at>>}
    /\ twice' = IF <<l.item, l.at>> \in ran
                  THEN twice \cup {<<l.item, l.at>>} ELSE twice

(* run_turn_keyed returns replies.  The key's row is answered once and each *)
(* reply is handed over once (SessionProtocol), so this happens at most     *)
(* once per key.                                                            *)
InlineTurn(l) ==
    /\ pc = "turns" /\ NextLease(l)
    /\ l.item \notin RunAs
    /\ KeyOf(l) \notin consumed
    /\ consumed' = consumed \cup {KeyOf(l)}
    /\ leases' = leases \ {l}
    /\ ApplyReplies(l)
    /\ UNCHANGED <<clock, source, centralDb, stopping, op, inflight, workers,
                   first, effects, faults>>

(* run_turn_keyed fails: always when the key's replies were handed over     *)
(* before.  The occurrence is left pending.                                 *)
InlineTurnFails(l) ==
    /\ pc = "turns" /\ NextLease(l)
    /\ l.item \notin RunAs
    /\ \/ KeyOf(l) \in consumed /\ UNCHANGED faults
       \/ KeyOf(l) \notin consumed /\ Fault("turn_error")
    /\ Drop(l)
    /\ UNCHANGED <<clock, source, centralDb, stopping, current, acting, op,
                   inflight, workers, consumed, first, ran, twice, effects>>

(* The background turn ends. *)
WorkerEnds(w) ==
    /\ w \in workers
    /\ w.state = "running"
    /\ \/ /\ workers' = (workers \ {w}) \cup {[w EXCEPT !.state = "ok"]}
          /\ UNCHANGED faults
       \/ /\ workers' = (workers \ {w}) \cup {[w EXCEPT !.state = "err"]}
          /\ Fault("worker_error")
    /\ UNCHANGED <<clock, source, centralDb, pc, stopping, leases, current,
                   acting, op, inflight, consumed, first, ran, twice, effects>>

(* drain_completed_runas, the turn succeeded. *)
DrainOk(w) ==
    /\ pc = "idle"
    /\ w \in workers
    /\ w.state = "ok"
    /\ workers' = workers \ {w}
    /\ inflight' = inflight \ {KeyOf(w.lease)}
    /\ ApplyReplies(w.lease)
    /\ UNCHANGED <<clock, source, centralDb, stopping, leases, op, consumed,
                   first, effects, faults>>

(* drain_completed_runas, the turn failed: finalized without a retry, and   *)
(* the source row is not told.                                              *)
DrainErr(w) ==
    /\ pc = "idle"
    /\ w \in workers
    /\ w.state = "err"
    /\ workers' = workers \ {w}
    /\ inflight' = inflight \ {KeyOf(w.lease)}
    /\ FinalizeOrFail(w.lease)
    /\ UNCHANGED <<clock, source, pc, stopping, leases, current, acting, op,
                   consumed, first, ran, twice, effects>>

-----------------------------------------------------------------------------
(* The schedule actions among a turn's replies *)

(* A user's message in session s drives a turn. *)
UserTurn(s) ==
    /\ pc = "idle" /\ ~stopping
    /\ effects < MaxEffects
    /\ pc' = "effects"
    /\ acting' = s
    /\ UNCHANGED <<clock, source, centralDb, stopping, leases, current, op,
                   inflight, workers, consumed, first, ran, twice, effects,
                   faults>>

(* ScheduleStatus::apply. *)
Legal(status, kind) ==
    \/ kind = "pause" /\ status = "active"
    \/ kind = "resume" /\ status = "paused"
    \/ kind = "cancel" /\ status \in {"active", "paused"}

Target(kind) == CASE kind = "pause"  -> "paused"
                  [] kind = "resume" -> "active"
                  [] kind = "cancel" -> "cancelled"

(* The item an occurrence's turn schedules fires as the same agent. *)
SameAgent(i) == i \in RunAs <=> (current # NoOcc /\ current.item \in RunAs)

(* create_schedule up to write_meta. *)
WriteNewSource(i, after) ==
    /\ pc = "effects" /\ op = NoOp
    /\ effects < MaxEffects
    /\ source[i].status = "none"
    /\ SessionOf[i] = acting
    /\ SameAgent(i)
    /\ source' = [source EXCEPT ![i] = [status |-> "active", after |-> after, seq |-> 0]]
    /\ first' = [first EXCEPT ![i] = after]
    /\ op' = [kind |-> "create", item |-> i]
    /\ effects' = effects + 1
    /\ UNCHANGED <<clock, centralDb, pc, stopping, leases, current, acting,
                   inflight, workers, consumed, ran, twice, faults>>

(* Mutant: the projection moves, the source row does not. *)
MutantCentralOnly(kind, i) ==
    /\ pc = "effects" /\ op = NoOp
    /\ effects < MaxEffects
    /\ item[i].status # "none"
    /\ op' = [kind |-> kind, item |-> i]
    /\ effects' = effects + 1
    /\ UNCHANGED <<clock, source, centralDb, pc, stopping, leases, current,
                   acting, inflight, workers, consumed, first, ran, twice, faults>>

(* transition_source: only a row of the acting session, only a legal move.  *)
(* The ids an agent knows are those of its whole group.                     *)
TransitionSource(kind, i) ==
    /\ pc = "effects" /\ op = NoOp
    /\ effects < MaxEffects
    /\ item[i].status # "none"
    /\ source' = IF SessionOf[i] = acting /\ Legal(source[i].status, kind)
                   THEN [source EXCEPT ![i].status = Target(kind)] ELSE source
    /\ op' = [kind |-> kind, item |-> i]
    /\ effects' = effects + 1
    /\ UNCHANGED <<clock, centralDb, pc, stopping, leases, current, acting,
                   inflight, workers, consumed, first, ran, twice, faults>>

(* upsert_item, or cancel_item, pause_item, resume_item with their guards;  *)
(* an error is logged.                                                      *)
ProjectAction ==
    /\ op # NoOp
    /\ \/ /\ op.kind = "create"
          /\ item' = [item EXCEPT ![op.item] = ReconciledItem(op.item)]
          /\ UNCHANGED faults
       \/ /\ op.kind # "create"
          /\ item' = IF Legal(item[op.item].status, op.kind)
                       THEN [item EXCEPT ![op.item].status = Target(op.kind)]
                       ELSE item
          /\ UNCHANGED faults
       \/ Fault("central_error") /\ UNCHANGED item
    /\ op' = NoOp
    /\ UNCHANGED <<clock, source, occ, pc, stopping, leases, current, acting,
                   inflight, workers, consumed, first, ran, twice, effects>>

EndUserTurn ==
    /\ pc = "effects" /\ op = NoOp
    /\ current = NoOcc
    /\ pc' = "idle"
    /\ acting' = "none"
    /\ UNCHANGED <<clock, source, centralDb, stopping, leases, current, op,
                   inflight, workers, consumed, first, ran, twice, effects,
                   faults>>

-----------------------------------------------------------------------------
(* The end of a scheduled turn *)

(* record_fired. *)
Fired(meta, l) ==
    IF l.item \in Recurring
      THEN [meta EXCEPT !.seq = l.seq, !.after = next_after(l.at)]
      ELSE [meta EXCEPT !.seq = l.seq, !.status = "completed"]

(* Mutant: the fire is not recorded in the source. *)
MutantNoRecord ==
    /\ pc = "effects" /\ op = NoOp
    /\ current # NoOcc
    /\ pc' = "finalize"
    /\ UNCHANGED <<clock, source, centralDb, stopping, leases, current, acting,
                   op, inflight, workers, consumed, first, ran, twice, effects,
                   faults>>

(* finalize_scheduled_turn, the source of truth; an error is logged. *)
RecordFired ==
    /\ pc = "effects" /\ op = NoOp
    /\ current # NoOcc
    /\ \/ /\ source' = IF source[current.item].status = "none" THEN source
                       ELSE [source EXCEPT ![current.item] = Fired(@, current)]
          /\ UNCHANGED faults
       \/ Fault("source_error") /\ UNCHANGED source
    /\ pc' = "finalize"
    /\ UNCHANGED <<clock, centralDb, stopping, leases, current, acting, op,
                   inflight, workers, consumed, first, ran, twice, effects>>

(* finalize_scheduled_turn, the projection; then the loop goes on. *)
FinishTurn ==
    /\ pc = "finalize"
    /\ FinalizeOrFail(current)
    /\ current' = NoOcc /\ acting' = "none"
    /\ pc' = IF leases = {} THEN "idle" ELSE "turns"
    /\ UNCHANGED <<clock, source, stopping, leases, op, inflight, workers,
                   consumed, first, ran, twice, effects>>

-----------------------------------------------------------------------------
RunLease(l) ==
    \/ GateSkips(l) \/ LeaveLease(l) \/ SkipInflight(l) \/ SpawnRunAs(l)
    \/ InlineTurn(l) \/ InlineTurnFails(l)

Drain == \E w \in workers : DrainOk(w) \/ DrainErr(w)

TurnEffect ==
    \/ \E i \in Items \ Standing, t \in {clock, clock + 1} : WriteNewSource(i, t)
    \/ \E kind \in {"cancel", "pause", "resume"}, i \in Items :
          TransitionSource(kind, i)

Serve ==
    \/ Tick
    \/ \E l \in leases : RunLease(l)
    \/ Drain
    \/ ProjectAction \/ EndUserTurn \/ RecordFired \/ FinishTurn
    \/ ServeReturns

Next ==
    \/ ClockTicks
    \/ \E i \in Items, s \in Seqs : LeaseExpires(i, s)
    \/ \E failing \in SUBSET Sessions : ServeStart(failing)
    \/ Serve
    \/ \E w \in workers : WorkerEnds(w)
    \/ TurnEffect
    \/ \E s \in Sessions \ {StandingSession} : UserTurn(s)
    \/ TickFails \/ Crash \/ StopRequested

Spec == Init /\ [][Next]_vars

-----------------------------------------------------------------------------
(* Properties *)

(* Every variable keeps its type, and only a scheduled turn is finalized. *)
TypeOK ==
    /\ clock \in 0..MaxTime
    /\ source \in [Items -> Meta]
    /\ item \in [Items -> ItemRow]
    /\ occ \in [Items -> [Seqs -> OccRow]]
    /\ pc \in {"down", "idle", "turns", "effects", "finalize"}
    /\ stopping \in BOOLEAN
    /\ leases \subseteq Lease
    /\ current \in Lease \cup {NoOcc}
    /\ pc = "finalize" => current # NoOcc
    /\ acting \in Sessions \cup {"none"}
    /\ op \in Action \cup {NoOp}
    /\ inflight \subseteq Key
    /\ workers \subseteq [lease : Lease, state : {"running", "ok", "err"}]
    /\ consumed \subseteq Key
    /\ first \in [Items -> Times]
    /\ ran \subseteq Items \X Times
    /\ twice \subseteq ran
    /\ effects \in 0..MaxEffects
    /\ faults \in 0..MaxFaults

(* An occurrence has at most one background turn at a time, and the in-     *)
(* flight set is exactly the set of occurrences that have one: a lease that *)
(* expires while the agent works does not start the work again.             *)
OneWorkerPerOccurrence ==
    /\ inflight = {KeyOf(w.lease) : w \in workers}
    /\ \A v, w \in workers : KeyOf(v.lease) = KeyOf(w.lease) => v = w

(* "Fire any due scheduled items, exactly once each": no two turns hand     *)
(* over replies for the same slot of the same item.                         *)
SlotRunsOnce == twice = {}

(* At most one occurrence of an item is pending: a crash, a failed turn or  *)
(* a repair never leaves an older one behind a newer one.                   *)
OnePending == \A i \in Items : Cardinality(PendingSeqs(i)) =< 1

(* The s-th occurrence of a recurring item is for the s-th slot from its    *)
(* creation, and the item waits for the slot after the last fired one: no   *)
(* slot is skipped, repeated or shifted by a late run, a retry or a repair. *)
SlotsInOrder ==
    \A i \in Recurring : \A s \in Seqs :
        /\ occ[i][s].status # "none" => occ[i][s].at \in {NoTime, first[i] + s - 1}
        /\ item[i].status # "none" =>
              (occ[i][s].status = "fired" <=> first[i] + s - 1 < item[i].after)

(* A recurring item is never left with its current slot already fired and   *)
(* nothing pending, which "would silently halt the recurrence".             *)
RecurrenceNeverHalts ==
    \A i \in Recurring :
        item[i].status = "active" /\ PendingSeqs(i) = {} => ~AlreadyFired(i)

(* The projection of an item agrees with its source row on status, next     *)
(* slot and last fired occurrence.                                          *)
ProjectionAgrees(i) ==
    /\ item[i].status = source[i].status
    /\ item[i].after = source[i].after
    /\ Highest({0} \cup {s \in Seqs : occ[i][s].status = "fired"}) = {source[i].seq}

(* Between turns the projection of a recurring item that has a source row   *)
(* agrees with it, whatever its turns did to it and over every repair.      *)
RecurringConsistent ==
    pc = "idle" => \A i \in Recurring :
        source[i].status # "none" => ProjectionAgrees(i)

(* "So it never fires again" (cancel_item): a cancelled or completed item   *)
(* never comes back, over crashes, repairs and failed writes of the         *)
(* projection.  It is so where the session of the item ends it, each fire   *)
(* is told to the source row and no one-off runs in the background.  A      *)
(* cancel from another session reaches the projection only                  *)
(* (transition_source finds no source row), and so does the end of a        *)
(* background one-off that failed: the next repair undoes both.             *)
TerminalForGood ==
    [][\A i \in Items : item[i].status \in Terminal =>
           item'[i].status \in Terminal]_vars

(* Scheduling: the serve process makes progress and is started again when   *)
(* it is down, background turns end (they have a timeout), leases run out;  *)
(* and the channel falls silent again and again, for the listener drains    *)
(* and sweeps only then.                                                    *)
Fairness ==
    /\ WF_vars(Serve)
    /\ WF_vars(\E w \in workers : WorkerEnds(w))
    /\ SF_vars(Drain)
    /\ SF_vars(Tick)
    /\ WF_vars(\E failing \in SUBSET Sessions : ServeStart(failing))
    /\ \A i \in Items, s \in Seqs : WF_vars(LeaseExpires(i, s))

FairSpec == Spec /\ Fairness

(* "No due work is stuck past lease expiry": a due slot of an active item   *)
(* is eventually fired or skipped, or the item is paused or ended.          *)
DueWorkDone ==
    \A i \in Items, t \in 0..MaxTime :
        (item[i].status = "active" /\ item[i].after = t /\ t =< clock)
          ~> ~(item[i].status = "active" /\ item[i].after = t)

============================================================================
