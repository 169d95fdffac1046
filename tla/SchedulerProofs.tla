-------------------------- MODULE SchedulerProofs --------------------------
(***************************************************************************)
(* What is proved of Scheduler for every set of items, every assignment of *)
(* sessions and kinds and every bound; types and background work for every *)
(* choice of faults, the rest for the choices of faults that each theorem  *)
(* names.  Without those the property is false of the code, as the README  *)
(* says.                                                                   *)
(***************************************************************************)
EXTENDS Scheduler, TLAPS

(* The rows that a lease is taken on, and what the lease says, are typed:   *)
(* claim_due returns leases on rows within the bound, for slots that have   *)
(* come.                                                                    *)
LEMMA ClaimsTyped ==
    ASSUME TypeOK PROVE Claims \subseteq Lease
PROOF
  <1> USE ConstantsAssumption DEF TypeOK
  <1>1. SUFFICES ASSUME NEW i \in Items, Due(i), NEW l \in NextClaimable(i)
                 PROVE  l \in Lease
    BY DEF Claims
  <1>2. item[i].after \in Slots
    <2>1. item[i] \in ItemRow
      OBVIOUS
    <2> QED BY <2>1, <1>1 DEF Due, ItemRow, Times, Slots
  <1>3. ASSUME NEW s \in Seqs, NEW t \in Slots PROVE LeaseOn(i, s, t) \in Lease
    BY <1>2, <1>3 DEF LeaseOn, Lease
  <1>4. CASE PendingSeqs(i) # {}
    <2>1. PICK s \in Highest(PendingSeqs(i)) :
             l = LeaseOn(i, s, IF occ[i][s].at = NoTime THEN item[i].after
                               ELSE occ[i][s].at)
      BY <1>1, <1>4 DEF NextClaimable
    <2>2. s \in Seqs
      BY DEF Highest, PendingSeqs
    <2>3. occ[i][s] \in OccRow
      BY <2>2
    <2> QED BY <1>2, <1>3, <2>1, <2>2, <2>3 DEF OccRow
  <1>5. CASE PendingSeqs(i) = {}
    <2>1. PICK s \in NextSeq(i) : l = LeaseOn(i, s, item[i].after)
      BY <1>1, <1>5 DEF NextClaimable
    <2>2. s \in Seqs
      BY DEF NextSeq
    <2> QED BY <1>2, <1>3, <2>1, <2>2
  <1> QED BY <1>4, <1>5

(* Taking leases keeps the occurrence table typed. *)
LEMMA AcquireTyped ==
    ASSUME TypeOK, NEW C, C \subseteq Lease, Acquire(C)
    PROVE  occ' \in [Items -> [Seqs -> OccRow]]
PROOF
  <1>1. SUFFICES ASSUME NEW i \in Items, NEW s \in Seqs
                 PROVE  occ'[i][s] \in OccRow
    BY DEF Acquire
  <1>2. occ[i][s] \in OccRow
    BY DEF TypeOK
  <1>3. CASE \E l \in C : KeyOf(l) = [item |-> i, seq |-> s]
    <2> DEFINE l == CHOOSE x \in C : KeyOf(x) = [item |-> i, seq |-> s]
    <2>1. l \in C
      BY <1>3
    <2>2. l.at \in Slots
      BY <2>1 DEF Lease
    <2>3. occ'[i][s] = [status |-> "pending",
                        at     |-> IF occ[i][s].status = "none" THEN l.at
                                   ELSE occ[i][s].at,
                        leased |-> TRUE]
      BY <1>3 DEF Acquire
    <2> HIDE DEF l
    <2> QED BY <1>2, <2>2, <2>3 DEF OccRow
  <1>4. CASE ~ \E l \in C : KeyOf(l) = [item |-> i, seq |-> s]
    BY <1>2, <1>4 DEF Acquire
  <1> QED BY <1>3, <1>4

(* Finalizing an occurrence, or failing to, keeps the projection typed. *)
LEMMA FinalizeTyped ==
    ASSUME TypeOK, NEW l \in Lease, FinalizeOrFail(l)
    PROVE  /\ item' \in [Items -> ItemRow]
           /\ occ' \in [Items -> [Seqs -> OccRow]]
           /\ faults' \in 0..MaxFaults
PROOF
  <1> USE ConstantsAssumption
  <1>1. l.item \in Items /\ l.seq \in Seqs /\ l.at \in Slots
    BY DEF Lease
  <1>2. CASE Fault("finalize_error") /\ UNCHANGED centralDb
    BY <1>2 DEF TypeOK, Fault, centralDb
  <1>3. CASE FinalizeFiring(l) /\ UNCHANGED faults
    <2>1. next_after(l.at) \in Times
      BY <1>1 DEF next_after, Times, Slots
    <2>2. item' \in [Items -> ItemRow]
      BY <1>1, <1>3, <2>1 DEF TypeOK, FinalizeFiring, ItemRow, Status
    <2>3. occ' \in [Items -> [Seqs -> OccRow]]
      <3>1. SUFFICES ASSUME NEW i \in Items, NEW s \in Seqs
                     PROVE  occ'[i][s] \in OccRow
        BY <1>3 DEF TypeOK, FinalizeFiring
      <3>2. occ[i][s] \in OccRow
        BY DEF TypeOK
      <3>3. \/ occ'[i][s] = occ[i][s]
            \/ occ'[i][s] = [occ[i][s] EXCEPT !.status = "fired", !.leased = FALSE]
        BY <1>1, <1>3 DEF TypeOK, FinalizeFiring
      <3> QED BY <3>2, <3>3 DEF OccRow
    <2> QED BY <1>3, <2>2, <2>3 DEF TypeOK
  <1> QED BY <1>2, <1>3 DEF FinalizeOrFail

-----------------------------------------------------------------------------
(* Every step of the serve loop keeps every variable typed. *)
LEMMA TypeStep ==
    ASSUME TypeOK, [Next]_vars PROVE TypeOK'
PROOF
  <1> USE ConstantsAssumption
  <1>0. NoOcc \in Lease \cup {NoOcc} /\ NoOp \in Action \cup {NoOp}
    OBVIOUS
  <1>1. CASE UNCHANGED vars
    BY <1>1 DEF TypeOK, vars, centralDb, process
  <1>2. CASE ClockTicks
    BY <1>2 DEF TypeOK, ClockTicks, centralDb, process
  <1>3. ASSUME NEW i \in Items, NEW s \in Seqs, LeaseExpires(i, s) PROVE TypeOK'
    <2>1. occ' \in [Items -> [Seqs -> OccRow]]
      <3>1. SUFFICES ASSUME NEW j \in Items, NEW t \in Seqs
                     PROVE  occ'[j][t] \in OccRow
        BY <1>3 DEF TypeOK, LeaseExpires
      <3>2. occ[j][t] \in OccRow
        BY DEF TypeOK
      <3>3. \/ occ'[j][t] = occ[j][t]
            \/ occ'[j][t] = [occ[j][t] EXCEPT !.leased = FALSE]
        BY <1>3 DEF TypeOK, LeaseExpires
      <3> QED BY <3>2, <3>3 DEF OccRow
    <2> QED BY <1>3, <2>1 DEF TypeOK, LeaseExpires, process
  <1>4. ASSUME NEW failing \in SUBSET Sessions, ServeStart(failing) PROVE TypeOK'
    <2>1. \A i \in Items : ReconciledItem(i) \in ItemRow
      BY DEF TypeOK, ReconciledItem, ItemRow, Meta
    <2>2. ASSUME NEW i \in Items PROVE ReconciledOccs(i) \in [Seqs -> OccRow]
      <3>1. SUFFICES ASSUME NEW s \in Seqs PROVE ReconciledOccs(i)[s] \in OccRow
        BY DEF ReconciledOccs
      <3>2. occ[i][s] \in OccRow
        BY DEF TypeOK
      <3>3. \E x \in {"none", "pending", "fired"} :
               ReconciledOccs(i)[s] = [occ[i][s] EXCEPT !.status = x]
        BY <3>2 DEF ReconciledOccs, OccRow
      <3> QED BY <3>2, <3>3 DEF OccRow
    <2>3. clock \in Times
      BY DEF TypeOK, Times
    <2>4. item' \in [Items -> ItemRow]
      BY <1>4, <2>1, <2>3 DEF TypeOK, ServeStart, ItemRow, Status
    <2>5. occ' \in [Items -> [Seqs -> OccRow]]
      BY <1>4, <2>2 DEF TypeOK, ServeStart
    <2>6. first' \in [Items -> Times]
      BY <1>4, <2>3 DEF TypeOK, ServeStart
    <2>7. faults' \in 0..MaxFaults
      BY <1>4 DEF TypeOK, ServeStart, Fault
    <2> QED BY <1>4, <2>4, <2>5, <2>6, <2>7 DEF TypeOK, ServeStart
  <1>5. CASE Crash
    <2>1. faults' \in 0..MaxFaults
      BY <1>5 DEF TypeOK, Crash, Fault
    <2>2. stopping' \in BOOLEAN
      BY <1>5, Zenon DEF Crash, ProcessGone
    <2> QED BY <1>0, <1>5, <2>1, <2>2 DEF TypeOK, Crash, ProcessGone, centralDb
  <1>6. CASE StopRequested
    BY <1>6 DEF TypeOK, StopRequested, Fault, centralDb
  <1>7. CASE ServeReturns
    BY <1>0, <1>7 DEF TypeOK, ServeReturns, ProcessGone, centralDb
  <1>8. CASE Tick
    <2>1. Claims \subseteq Lease
      BY ClaimsTyped
    <2>2. occ' \in [Items -> [Seqs -> OccRow]]
      BY <1>8, <2>1, AcquireTyped DEF Tick
    <2> QED BY <1>8, <2>1, <2>2 DEF TypeOK, Tick
  <1>9. CASE TickFails
    <2>1. Claims \subseteq Lease
      BY ClaimsTyped
    <2>2. PICK C \in SUBSET Claims : Acquire(C)
      BY <1>9 DEF TickFails
    <2>3. occ' \in [Items -> [Seqs -> OccRow]]
      BY <2>1, <2>2, AcquireTyped
    <2> QED BY <1>9, <2>3 DEF TypeOK, TickFails, Fault, process
  <1>10. ASSUME NEW l \in leases, RunLease(l) PROVE TypeOK'
    <2>0. l \in Lease
      BY DEF TypeOK
    <2>1. CASE GateSkips(l)
      <3>1. /\ item' \in [Items -> ItemRow]
            /\ occ' \in [Items -> [Seqs -> OccRow]]
            /\ faults' \in 0..MaxFaults
        BY <2>0, <2>1, FinalizeTyped DEF GateSkips
      <3> QED BY <2>1, <3>1 DEF TypeOK, GateSkips, Drop
    <2>2. CASE LeaveLease(l)
      BY <2>2 DEF TypeOK, LeaveLease, Drop, Fault, centralDb
    <2>3. CASE SkipInflight(l)
      BY <2>3 DEF TypeOK, SkipInflight, Drop, centralDb
    <2>4. CASE SpawnRunAs(l)
      <3>1. KeyOf(l) \in Key
        BY <2>0 DEF KeyOf, Key, Lease
      <3>2. [lease |-> l, state |-> "running"]
               \in [lease : Lease, state : {"running", "ok", "err"}]
        BY <2>0
      <3> QED BY <2>4, <3>1, <3>2 DEF TypeOK, SpawnRunAs, Drop, centralDb
    <2>5. CASE InlineTurn(l)
      <3>1. KeyOf(l) \in Key
        BY <2>0 DEF KeyOf, Key, Lease
      <3>2. <<l.item, l.at>> \in Items \X Times /\ SessionOf[l.item] \in Sessions
        BY <2>0 DEF Lease, Slots, Times
      <3> QED BY <2>0, <2>5, <3>1, <3>2
              DEF TypeOK, InlineTurn, ApplyReplies, centralDb
    <2>6. CASE InlineTurnFails(l)
      BY <2>6 DEF TypeOK, InlineTurnFails, Drop, Fault, centralDb
    <2> QED BY <1>10, <2>1, <2>2, <2>3, <2>4, <2>5, <2>6 DEF RunLease
  <1>11. ASSUME NEW w \in workers, WorkerEnds(w) PROVE TypeOK'
    <2>1. w \in [lease : Lease, state : {"running", "ok", "err"}]
      BY DEF TypeOK
    <2>2. \A x \in {"ok", "err"} : [w EXCEPT !.state = x]
             \in [lease : Lease, state : {"running", "ok", "err"}]
      BY <2>1
    <2>3. workers' \subseteq [lease : Lease, state : {"running", "ok", "err"}]
      BY <1>11, <2>2 DEF TypeOK, WorkerEnds
    <2>4. faults' \in 0..MaxFaults
      BY <1>11 DEF TypeOK, WorkerEnds, Fault
    <2> QED BY <1>11, <2>3, <2>4 DEF TypeOK, WorkerEnds, centralDb
  <1>12. ASSUME NEW w \in workers, DrainOk(w) PROVE TypeOK'
    <2>1. w.lease \in Lease
      BY DEF TypeOK
    <2>2. /\ <<w.lease.item, w.lease.at>> \in Items \X Times
          /\ SessionOf[w.lease.item] \in Sessions
      BY <2>1 DEF Lease, Slots, Times
    <2> QED BY <1>12, <2>1, <2>2 DEF TypeOK, DrainOk, ApplyReplies, centralDb
  <1>13. ASSUME NEW w \in workers, DrainErr(w) PROVE TypeOK'
    <2>1. w.lease \in Lease
      BY DEF TypeOK
    <2>2. /\ item' \in [Items -> ItemRow]
          /\ occ' \in [Items -> [Seqs -> OccRow]]
          /\ faults' \in 0..MaxFaults
      BY <1>13, <2>1, FinalizeTyped DEF DrainErr
    <2> QED BY <1>13, <2>2 DEF TypeOK, DrainErr
  <1>14. ASSUME NEW s \in Sessions, UserTurn(s) PROVE TypeOK'
    BY <1>14 DEF TypeOK, UserTurn, centralDb
  <1>15. ASSUME NEW i \in Items, NEW t \in {clock, clock + 1}, WriteNewSource(i, t)
         PROVE  TypeOK'
    <2>1. t \in Times
      BY DEF TypeOK, Times
    <2>2. source' \in [Items -> Meta]
      BY <1>15, <2>1 DEF TypeOK, WriteNewSource, Meta, Status
    <2>3. first' \in [Items -> Times] /\ effects' \in 0..MaxEffects
      BY <1>15, <2>1 DEF TypeOK, WriteNewSource
    <2>4. op' \in Action \cup {NoOp}
      BY <1>15 DEF WriteNewSource, Action
    <2> QED BY <1>15, <2>2, <2>3, <2>4 DEF TypeOK, WriteNewSource, centralDb
  <1>16. ASSUME NEW kind \in {"cancel", "pause", "resume"}, NEW i \in Items,
                TransitionSource(kind, i)
         PROVE  TypeOK'
    <2>1. Target(kind) \in Status
      BY DEF Target, Status
    <2>2. source' \in [Items -> Meta]
      BY <1>16, <2>1 DEF TypeOK, TransitionSource, Meta
    <2>3. op' \in Action \cup {NoOp} /\ effects' \in 0..MaxEffects
      BY <1>16 DEF TypeOK, TransitionSource, Action
    <2> QED BY <1>16, <2>2, <2>3 DEF TypeOK, TransitionSource, centralDb
  <1>17. CASE ProjectAction
    <2>1. op \in Action
      BY <1>17 DEF TypeOK, ProjectAction
    <2>2. op.kind # "create" => Target(op.kind) \in Status
      BY <2>1 DEF Action, Target, Status
    <2>3. ReconciledItem(op.item) \in ItemRow
      BY <2>1 DEF TypeOK, ReconciledItem, ItemRow, Meta, Action
    <2>4. item' \in [Items -> ItemRow]
      <3>1. op.item \in Items
        BY <2>1 DEF Action
      <3>2. \/ item' = item
            \/ item' = [item EXCEPT ![op.item] = ReconciledItem(op.item)]
            \/ /\ op.kind # "create"
               /\ item' = [item EXCEPT ![op.item].status = Target(op.kind)]
        BY <1>17 DEF ProjectAction
      <3>3. \A x \in Status : [item[op.item] EXCEPT !.status = x] \in ItemRow
        BY <3>1 DEF TypeOK, ItemRow
      <3> QED BY <2>2, <2>3, <3>1, <3>2, <3>3 DEF TypeOK
    <2>5. faults' \in 0..MaxFaults
      BY <1>17 DEF TypeOK, ProjectAction, Fault
    <2> QED BY <1>0, <1>17, <2>4, <2>5 DEF TypeOK, ProjectAction
  <1>18. CASE EndUserTurn
    BY <1>18 DEF TypeOK, EndUserTurn, centralDb
  <1>19. CASE RecordFired
    <2>1. current \in Lease
      BY <1>19 DEF TypeOK, RecordFired
    <2>2. Fired(source[current.item], current) \in Meta
      <3>1. /\ current.item \in Items
            /\ current.seq \in 0..MaxSeq
            /\ next_after(current.at) \in Times
        BY <2>1 DEF Lease, next_after, Times, Slots, Seqs
      <3>2. source[current.item] \in Meta
        BY <3>1 DEF TypeOK
      <3>3. "completed" \in Status
        BY DEF Status
      <3> QED BY <3>1, <3>2, <3>3 DEF Fired, Meta
    <2>3. source' \in [Items -> Meta]
      BY <1>19, <2>1, <2>2 DEF TypeOK, RecordFired, Lease
    <2>4. faults' \in 0..MaxFaults
      BY <1>19 DEF TypeOK, RecordFired, Fault
    <2> QED BY <1>19, <2>3, <2>4 DEF TypeOK, RecordFired, centralDb
  <1>20. CASE FinishTurn
    <2>1. current \in Lease
      BY <1>20 DEF TypeOK, FinishTurn
    <2>2. /\ item' \in [Items -> ItemRow]
          /\ occ' \in [Items -> [Seqs -> OccRow]]
          /\ faults' \in 0..MaxFaults
      BY <1>20, <2>1, FinalizeTyped DEF FinishTurn
    <2> QED BY <1>0, <1>20, <2>2 DEF TypeOK, FinishTurn
  <1> QED BY <1>1, <1>2, <1>3, <1>4, <1>5, <1>6, <1>7, <1>8, <1>9, <1>10, <1>11,
             <1>12, <1>13, <1>14, <1>15, <1>16, <1>17, <1>18, <1>19, <1>20
          DEF Next, Serve, Drain, TurnEffect

(* The scheduler's tables, its process state and its bounds keep their      *)
(* types, whatever crashes, fails or is repaired, for every set of items.   *)
THEOREM SchedulerTypeCorrect == Spec => []TypeOK
PROOF
  <1>1. Init => TypeOK
    <2> SUFFICES ASSUME Init PROVE TypeOK
      OBVIOUS
    <2> USE ConstantsAssumption
    <2>1. 0 \in Times /\ 0 \in 0..MaxSeq /\ "none" \in Status
      BY DEF Times, Status
    <2>2. stopping \in BOOLEAN /\ FALSE \in BOOLEAN
      BY Zenon DEF Init
    <2>3. source \in [Items -> Meta] /\ item \in [Items -> ItemRow]
      BY <2>1 DEF Init, Meta, ItemRow
    <2>4. [status |-> "none", at |-> NoTime, leased |-> FALSE] \in OccRow
      BY <2>2 DEF OccRow
    <2>5. occ \in [Items -> [Seqs -> OccRow]]
      BY <2>4 DEF Init
    <2>6. first \in [Items -> Times]
      BY <2>1 DEF Init
    <2>7. /\ clock \in 0..MaxTime /\ effects \in 0..MaxEffects
          /\ faults \in 0..MaxFaults
          /\ pc = "down" /\ current = NoOcc /\ acting = "none" /\ op = NoOp
          /\ leases = {} /\ inflight = {} /\ workers = {}
          /\ consumed = {} /\ ran = {} /\ twice = {}
      BY DEF Init
    <2> QED BY <2>2, <2>3, <2>5, <2>6, <2>7 DEF TypeOK
  <1> QED BY <1>1, TypeStep, PTL DEF Spec

-----------------------------------------------------------------------------
(* The in-flight set of the process names exactly the occurrences that have *)
(* a background turn, and each has one: a lease that expires under a long   *)
(* turn, a crash or a stop never starts the same work beside itself.        *)
THEOREM NoOverlappingWork == Spec => []OneWorkerPerOccurrence
PROOF
  <1>1. Init => OneWorkerPerOccurrence
    BY DEF Init, OneWorkerPerOccurrence
  <1>2. ASSUME TypeOK, OneWorkerPerOccurrence, [Next]_vars
        PROVE  OneWorkerPerOccurrence'
    <2>0. /\ \A w \in workers : w \in [lease : Lease, state : {"running", "ok", "err"}]
          /\ inflight = {KeyOf(w.lease) : w \in workers}
          /\ \A v, w \in workers : KeyOf(v.lease) = KeyOf(w.lease) => v = w
      BY <1>2 DEF TypeOK, OneWorkerPerOccurrence
    <2>1. CASE UNCHANGED <<inflight, workers>>
      BY <1>2, <2>1 DEF OneWorkerPerOccurrence, KeyOf
    <2>2. CASE ProcessGone
      BY <2>2 DEF OneWorkerPerOccurrence, ProcessGone
    <2>3. ASSUME NEW l \in leases, SpawnRunAs(l) PROVE OneWorkerPerOccurrence'
      <3> DEFINE w == [lease |-> l, state |-> "running"]
      <3>1. w.lease = l
        OBVIOUS
      <3>2. /\ workers' = workers \cup {w}
            /\ inflight' = inflight \cup {KeyOf(l)}
            /\ KeyOf(l) \notin inflight
        BY <2>3 DEF SpawnRunAs
      <3> HIDE DEF w
      <3> QED BY <2>0, <3>1, <3>2 DEF OneWorkerPerOccurrence
    <2>4. ASSUME NEW w \in workers, WorkerEnds(w) PROVE OneWorkerPerOccurrence'
      <3>1. PICK x : workers' = (workers \ {w}) \cup {[w EXCEPT !.state = x]}
        BY <2>4 DEF WorkerEnds
      <3> DEFINE v == [w EXCEPT !.state = x]
      <3>2. v.lease = w.lease
        BY <2>0
      <3>3. workers' = (workers \ {w}) \cup {v} /\ inflight' = inflight
        BY <2>4, <3>1 DEF WorkerEnds
      <3> HIDE DEF v
      <3> QED BY <2>0, <3>2, <3>3 DEF OneWorkerPerOccurrence
    <2>5. ASSUME NEW w \in workers, DrainOk(w) \/ DrainErr(w)
          PROVE  OneWorkerPerOccurrence'
      <3>1. workers' = workers \ {w} /\ inflight' = inflight \ {KeyOf(w.lease)}
        BY <2>5 DEF DrainOk, DrainErr
      <3> QED BY <2>0, <3>1 DEF OneWorkerPerOccurrence
    <2>6. \/ UNCHANGED <<inflight, workers>>
          \/ ProcessGone
          \/ \E l \in leases : SpawnRunAs(l)
          \/ \E w \in workers : WorkerEnds(w) \/ DrainOk(w) \/ DrainErr(w)
      BY <1>2
      DEF Next, vars, process, ClockTicks, LeaseExpires, ServeStart, Serve, Tick,
          RunLease, GateSkips, LeaveLease, SkipInflight, InlineTurn,
          InlineTurnFails, Drain, ProjectAction, EndUserTurn, RecordFired,
          FinishTurn, ServeReturns, TurnEffect, WriteNewSource,
          TransitionSource, UserTurn, TickFails, Crash, StopRequested
    <2> QED BY <2>1, <2>2, <2>3, <2>4, <2>5, <2>6
  <1> QED BY <1>1, <1>2, SchedulerTypeCorrect, PTL DEF Spec

-----------------------------------------------------------------------------
(* Recurrences *)

\* Where the s-th occurrence of an item belongs.
SlotOf(i, s) == first[i] + s - 1

\* What an occurrence that is being worked on says of its item: it is the one
\* the item waits for, and it is pending.
Waiting(l) ==
    l.item \in Recurring =>
      /\ item[l.item].status # "none" /\ item[l.item].after = l.at
      /\ l.at = SlotOf(l.item, l.seq)
      /\ occ[l.item][l.seq].status = "pending"

\* The occurrences before the slot an item waits for have fired, and no others;
\* none is beyond it.
OccurrencesOK(i) ==
    /\ item[i].status = "none" => \A s \in Seqs : occ[i][s].status = "none"
    /\ item[i].status # "none" =>
         /\ first[i] =< item[i].after
         /\ \A s \in Seqs : /\ occ[i][s].status = "fired" <=> SlotOf(i, s) < item[i].after
                            /\ occ[i][s].status # "none" => SlotOf(i, s) =< item[i].after
    /\ \A s \in Seqs : /\ occ[i][s].at \in {NoTime, SlotOf(i, s)}
                       /\ occ[i][s].status = "none" => occ[i][s].at = NoTime

\* The source row of an item is level with its projection or one fire ahead.
SourceOK(i) ==
    /\ i \in Standing => source[i].status = "none"
    /\ i \notin Standing /\ source[i].status = "none" => item[i].status = "none"
    /\ source[i].status # "none" =>
         /\ source[i].after = first[i] + source[i].seq
         /\ item[i].status = "none" => source[i].seq = 0
         /\ item[i].status # "none" => source[i].after \in {item[i].after, item[i].after + 1}

ItemsOK == \A i \in Recurring : OccurrencesOK(i) /\ SourceOK(i)

\* What the place of the serve loop says of what it has in hand.
LoopOK ==
    /\ pc \in {"down", "idle", "turns"} => current = NoOcc /\ op = NoOp
    /\ pc \in {"down", "idle"} => leases = {}
    /\ pc = "down" => workers = {}
    /\ pc = "effects" /\ current = NoOcc => leases = {}
    /\ pc = "finalize" => op = NoOp

\* Leases, background turns and the turn being applied are each of an
\* occurrence its item waits for, and of no occurrence two.
LeasesOK ==
    /\ \A l \in leases : Waiting(l)
    /\ \A l, m \in leases : l.item = m.item /\ l.item \in Recurring => l = m

WorkersOK ==
    \A w \in workers : /\ Waiting(w.lease) /\ w.lease.item \in RunAs
                       /\ "worker_error" \notin Faults => w.state # "err"

CurrentOK ==
    current # NoOcc =>
      /\ Waiting(current)
      /\ \A l \in leases : l.item = current.item => l.item \notin Recurring
      /\ \A w \in workers : KeyOf(w.lease) # KeyOf(current)
      /\ pc = "finalize" /\ current.item \in Recurring /\ source[current.item].status # "none" =>
           source[current.item].after = next_after(current.at)

OpOK ==
    op # NoOp /\ op.kind = "create" /\ op.item \in Recurring =>
      /\ op.item \notin Standing /\ item[op.item].status = "none"
      /\ source[op.item].status # "none"

RecurrenceInv == ItemsOK /\ LoopOK /\ LeasesOK /\ WorkersOK /\ CurrentOK /\ OpOK

(* The serve loop has nothing in hand that its place does not call for. *)
LEMMA LoopStep ==
    ASSUME TypeOK, LoopOK, [Next]_vars PROVE LoopOK'
PROOF
  <1>0. \A l \in Lease : l # NoOcc
    BY DEF Lease, NoOcc
  <1>1. CASE UNCHANGED <<pc, leases, current, op, workers>>
    BY <1>1 DEF LoopOK
  <1>2. ASSUME NEW failing, ServeStart(failing) PROVE LoopOK'
    BY <1>2 DEF LoopOK, ServeStart
  <1>3. CASE ProcessGone
    BY <1>3 DEF LoopOK, ProcessGone
  <1>4. CASE Tick
    BY <1>4 DEF LoopOK, Tick
  <1>5. ASSUME NEW l \in leases, RunLease(l) PROVE LoopOK'
    <2>1. CASE GateSkips(l)
      BY <2>1 DEF LoopOK, GateSkips, Drop
    <2>2. CASE LeaveLease(l)
      BY <2>2 DEF LoopOK, LeaveLease, Drop
    <2>3. CASE SkipInflight(l)
      BY <2>3 DEF LoopOK, SkipInflight, Drop
    <2>4. CASE SpawnRunAs(l)
      BY <2>4 DEF LoopOK, SpawnRunAs, Drop
    <2>5. CASE InlineTurn(l)
      BY <1>0, <2>5 DEF LoopOK, TypeOK, InlineTurn, ApplyReplies
    <2>6. CASE InlineTurnFails(l)
      BY <2>6 DEF LoopOK, InlineTurnFails, Drop
    <2> QED BY <1>5, <2>1, <2>2, <2>3, <2>4, <2>5, <2>6 DEF RunLease
  <1>6. ASSUME NEW w \in workers, WorkerEnds(w) PROVE LoopOK'
    BY <1>6 DEF LoopOK, TypeOK, WorkerEnds
  <1>7. ASSUME NEW w \in workers, DrainOk(w) PROVE LoopOK'
    <2>1. w.lease \in Lease
      BY DEF TypeOK
    <2> QED BY <1>0, <1>7, <2>1 DEF LoopOK, DrainOk, ApplyReplies
  <1>8. ASSUME NEW w \in workers, DrainErr(w) PROVE LoopOK'
    BY <1>8 DEF LoopOK, DrainErr
  <1>9. ASSUME NEW s, UserTurn(s) PROVE LoopOK'
    BY <1>9 DEF LoopOK, UserTurn
  <1>10. ASSUME NEW i, NEW t, WriteNewSource(i, t) PROVE LoopOK'
    BY <1>10 DEF LoopOK, WriteNewSource
  <1>11. ASSUME NEW kind, NEW i, TransitionSource(kind, i) PROVE LoopOK'
    BY <1>11 DEF LoopOK, TransitionSource
  <1>12. CASE ProjectAction
    BY <1>12 DEF LoopOK, ProjectAction
  <1>13. CASE EndUserTurn
    BY <1>13 DEF LoopOK, EndUserTurn
  <1>14. CASE RecordFired
    BY <1>14 DEF LoopOK, RecordFired
  <1>15. CASE FinishTurn
    BY <1>15 DEF LoopOK, FinishTurn
  <1>16. \/ UNCHANGED <<pc, leases, current, op, workers>>
         \/ \E failing : ServeStart(failing)
         \/ ProcessGone \/ Tick
         \/ \E l \in leases : RunLease(l)
         \/ \E w \in workers : WorkerEnds(w) \/ DrainOk(w) \/ DrainErr(w)
         \/ \E s : UserTurn(s)
         \/ \E i, t : WriteNewSource(i, t)
         \/ \E kind, i : TransitionSource(kind, i)
         \/ ProjectAction \/ EndUserTurn \/ RecordFired \/ FinishTurn
    BY DEF Next, vars, process, ClockTicks, LeaseExpires, Serve, Drain, ServeReturns,
           TurnEffect, TickFails, Crash, StopRequested
  <1> QED BY <1>1, <1>2, <1>3, <1>4, <1>5, <1>6, <1>7, <1>8, <1>9, <1>10, <1>11,
             <1>12, <1>13, <1>14, <1>15, <1>16

\* The step leaves alone what the recurrence invariant says of an item's rows.
RowsKept(i) ==
    /\ item[i].status = "none" <=> item'[i].status = "none"
    /\ item'[i].after = item[i].after
    /\ source[i].status = "none" <=> source'[i].status = "none"
    /\ source'[i].after = source[i].after
    /\ source'[i].seq = source[i].seq
    /\ first'[i] = first[i]
    /\ \A s \in Seqs : /\ occ'[i][s].status = occ[i][s].status
                       /\ occ'[i][s].at = occ[i][s].at

(* A step that keeps an item's rows keeps them in order. *)
LEMMA KeptRows ==
    ASSUME NEW i, RowsKept(i), OccurrencesOK(i), SourceOK(i)
    PROVE  OccurrencesOK(i)' /\ SourceOK(i)'
PROOF
  <1>1. OccurrencesOK(i)'
    BY DEF RowsKept, OccurrencesOK, SlotOf
  <1>2. SourceOK(i)'
    BY DEF RowsKept, SourceOK
  <1> QED BY <1>1, <1>2

(* An occurrence that is worked on stays the one its item waits for. *)
LEMMA KeptWaiting ==
    ASSUME NEW l \in Lease, Waiting(l), l.item \in Recurring => RowsKept(l.item)
    PROVE  Waiting(l)'
BY DEF RowsKept, Waiting, SlotOf, Lease

(* next_claimable_occurrence: what is claimed of a recurring item is the    *)
(* occurrence of the slot it waits for, and the sweep claims one of it.     *)
LEMMA ClaimsWaited ==
    ASSUME TypeOK, ItemsOK, NEW l \in Claims, l.item \in Recurring
    PROVE  /\ item[l.item].status # "none" /\ item[l.item].after = l.at
           /\ l.at = SlotOf(l.item, l.seq) /\ l.due = l.at
           /\ l.seq \in Seqs
           /\ occ[l.item][l.seq].status \in {"none", "pending"}
PROOF
  <1> USE ConstantsAssumption
  <1>1. PICK i \in Items : Due(i) /\ l \in NextClaimable(i)
    BY DEF Claims
  <1>2. l.item = i
    BY <1>1 DEF NextClaimable, LeaseOn
  <1>3. i \in Recurring
    BY <1>2
  <1>4. OccurrencesOK(i) /\ item[i].status = "active"
    BY <1>1, <1>3 DEF ItemsOK, Due
  <1>5. item[i].after \in Int /\ first[i] \in Int /\ Seqs \subseteq Int
    BY DEF TypeOK, ItemRow, Times, Seqs
  <1>6. \A s \in Seqs : occ[i][s] \in OccRow
    BY DEF TypeOK
  <1>7. ASSUME NEW s \in Seqs, SlotOf(i, s) = item[i].after,
               l = LeaseOn(i, s, item[i].after), occ[i][s].status # "fired"
        PROVE  /\ item[l.item].status # "none" /\ item[l.item].after = l.at
               /\ l.at = SlotOf(l.item, l.seq) /\ l.due = l.at
               /\ l.seq \in Seqs
               /\ occ[l.item][l.seq].status \in {"none", "pending"}
    BY <1>4, <1>6, <1>7 DEF LeaseOn, OccRow
  <1>8. CASE PendingSeqs(i) # {}
    <2>1. PICK s \in Highest(PendingSeqs(i)) :
             l = LeaseOn(i, s, IF occ[i][s].at = NoTime THEN item[i].after
                               ELSE occ[i][s].at)
      BY <1>1, <1>8 DEF NextClaimable
    <2>2. s \in Seqs /\ occ[i][s].status = "pending"
      BY DEF Highest, PendingSeqs
    <2>3. SlotOf(i, s) = item[i].after
      BY <1>4, <1>5, <2>2 DEF OccurrencesOK, SlotOf
    <2>4. occ[i][s].at \in {NoTime, SlotOf(i, s)}
      BY <1>4, <2>2 DEF OccurrencesOK
    <2>5. l = LeaseOn(i, s, item[i].after)
      BY <2>1, <2>3, <2>4
    <2> QED BY <1>7, <2>2, <2>3, <2>5
  <1>9. CASE PendingSeqs(i) = {}
    <2>1. PICK s \in NextSeq(i) : l = LeaseOn(i, s, item[i].after)
      BY <1>1, <1>9 DEF NextClaimable
    <2>2. s \in Seqs /\ s \in Int /\ s \notin ExistingSeqs(i)
      BY <1>5 DEF NextSeq, Seqs
    <2>3. occ[i][s].status = "none"
      BY <2>2 DEF ExistingSeqs
    <2>4. item[i].after =< SlotOf(i, s)
      BY <1>4, <1>5, <2>2, <2>3 DEF OccurrencesOK, SlotOf
    <2>5. SlotOf(i, s) =< item[i].after
      <3>1. CASE s = 1
        BY <1>4, <1>5, <3>1 DEF OccurrencesOK, SlotOf
      <3>2. CASE s - 1 \in ExistingSeqs(i)
        <4>1. s - 1 \in Seqs /\ occ[i][s - 1].status = "fired"
          BY <1>6, <1>9, <3>2 DEF ExistingSeqs, PendingSeqs, OccRow
        <4>2. SlotOf(i, s - 1) < item[i].after
          BY <1>4, <4>1 DEF OccurrencesOK
        <4> QED BY <1>5, <2>2, <4>2 DEF SlotOf
      <3> QED BY <2>1, <3>1, <3>2 DEF NextSeq
    <2>6. SlotOf(i, s) = item[i].after
      BY <1>5, <2>2, <2>4, <2>5 DEF SlotOf
    <2> QED BY <1>7, <2>1, <2>2, <2>3, <2>6
  <1> QED BY <1>8, <1>9

(* A sweep claims at most one occurrence of a recurring item. *)
LEMMA ClaimsSingle ==
    ASSUME TypeOK, ItemsOK, NEW l \in Claims, NEW m \in Claims,
           l.item = m.item, l.item \in Recurring
    PROVE  l = m
PROOF
  <1> USE ConstantsAssumption
  <1>1. /\ item[l.item].after = l.at /\ l.at = SlotOf(l.item, l.seq) /\ l.due = l.at
        /\ l.seq \in Seqs
    BY ClaimsWaited
  <1>2. /\ item[m.item].after = m.at /\ m.at = SlotOf(m.item, m.seq) /\ m.due = m.at
        /\ m.seq \in Seqs
    BY ClaimsWaited
  <1>3. first[l.item] \in Int /\ l.seq \in Int /\ m.seq \in Int
    BY <1>1, <1>2 DEF TypeOK, Times, Seqs
  <1>4. l.at = m.at /\ l.due = m.due /\ l.seq = m.seq
    BY <1>1, <1>2, <1>3 DEF SlotOf
  <1>5. l \in Lease /\ m \in Lease
    BY ClaimsTyped
  <1> QED BY <1>4, <1>5 DEF Lease

(* acquire_lease of some of what the sweep would claim: the rows stay in    *)
(* order, what was waited for still is, and so is what was claimed.         *)
LEMMA AcquireKeeps ==
    ASSUME TypeOK, ItemsOK, NEW C, C \subseteq Claims, Acquire(C),
           UNCHANGED <<source, item, first>>
    PROVE  /\ ItemsOK'
           /\ \A l \in Lease : Waiting(l) => Waiting(l)'
           /\ \A l \in C : Waiting(l)'
PROOF
  <1> USE ConstantsAssumption
  <1>0. C \subseteq Lease
    BY ClaimsTyped
  <1>1. ASSUME NEW i \in Recurring, NEW s \in Seqs
        PROVE  \/ /\ occ'[i][s] = occ[i][s]
                  /\ ~ \E l \in C : l.item = i /\ l.seq = s
               \/ /\ item[i].status # "none" /\ SlotOf(i, s) = item[i].after
                  /\ occ[i][s].status \in {"none", "pending"}
                  /\ occ'[i][s].status = "pending"
                  /\ occ'[i][s].at = IF occ[i][s].status = "none" THEN SlotOf(i, s)
                                     ELSE occ[i][s].at
    <2>0. i \in Items
      OBVIOUS
    <2>1. CASE \E l \in C : KeyOf(l) = [item |-> i, seq |-> s]
      <3> DEFINE l == CHOOSE x \in C : KeyOf(x) = [item |-> i, seq |-> s]
      <3>1. l \in C /\ KeyOf(l) = [item |-> i, seq |-> s]
        BY <2>1
      <3>2. occ'[i][s] = [status |-> "pending",
                          at     |-> IF occ[i][s].status = "none" THEN l.at
                                     ELSE occ[i][s].at,
                          leased |-> TRUE]
        BY <2>0, <2>1 DEF Acquire
      <3> HIDE DEF l
      <3>3. l.item = i /\ l.seq = s
        BY <3>1 DEF KeyOf
      <3>4. /\ item[l.item].status # "none" /\ item[l.item].after = l.at
            /\ l.at = SlotOf(l.item, l.seq)
            /\ occ[l.item][l.seq].status \in {"none", "pending"}
        BY <3>1, <3>3, ClaimsWaited
      <3>5. occ'[i][s].status = "pending"
        BY <3>2
      <3>6. occ'[i][s].at = IF occ[i][s].status = "none" THEN l.at ELSE occ[i][s].at
        BY <3>2
      <3> QED BY <3>3, <3>4, <3>5, <3>6
    <2>2. CASE ~ \E l \in C : KeyOf(l) = [item |-> i, seq |-> s]
      <3>1. occ'[i][s] = occ[i][s]
        BY <2>0, <2>2 DEF Acquire
      <3>2. ~ \E l \in C : l.item = i /\ l.seq = s
        BY <2>2 DEF KeyOf
      <3> QED BY <3>1, <3>2
    <2> QED BY <2>1, <2>2
  <1>2. ASSUME NEW i \in Recurring PROVE OccurrencesOK(i)' /\ SourceOK(i)'
    <2>1. OccurrencesOK(i) /\ SourceOK(i)
      BY DEF ItemsOK
    <2>2. item[i].after \in Int /\ first[i] \in Int /\ Seqs \subseteq Int
      BY DEF TypeOK, ItemRow, Times, Seqs
    <2>3. OccurrencesOK(i)'
      BY <1>1, <2>1, <2>2 DEF OccurrencesOK, SlotOf
    <2>4. SourceOK(i)'
      BY <2>1 DEF SourceOK
    <2> QED BY <2>3, <2>4
  <1>3. ASSUME NEW l \in Lease, Waiting(l) PROVE Waiting(l)'
    <2>1. CASE l.item \notin Recurring
      BY <2>1 DEF Waiting
    <2>2. CASE l.item \in Recurring
      <3>1. occ'[l.item][l.seq].status = "pending"
        BY <1>1, <1>3, <2>2 DEF Waiting, Lease
      <3> QED BY <1>3, <2>2, <3>1 DEF Waiting, SlotOf
    <2> QED BY <2>1, <2>2
  <1>4. ASSUME NEW l \in C PROVE Waiting(l)'
    <2>1. SUFFICES ASSUME l.item \in Recurring PROVE Waiting(l)'
      BY DEF Waiting
    <2>2. /\ item[l.item].status # "none" /\ item[l.item].after = l.at
          /\ l.at = SlotOf(l.item, l.seq) /\ l.seq \in Seqs
      BY <2>1, ClaimsWaited
    <2>3. occ'[l.item][l.seq].status = "pending"
      BY <1>1, <2>1, <2>2
    <2> QED BY <2>2, <2>3 DEF Waiting, SlotOf
  <1> QED BY <1>2, <1>3, <1>4 DEF ItemsOK

(* An item waits for one occurrence. *)
LEMMA WaitingSame ==
    ASSUME TypeOK, NEW l \in Lease, NEW m \in Lease, Waiting(l), Waiting(m),
           l.item = m.item, l.item \in Recurring
    PROVE  KeyOf(l) = KeyOf(m)
PROOF
  <1> USE ConstantsAssumption
  <1>1. l.at = SlotOf(l.item, l.seq) /\ m.at = SlotOf(m.item, m.seq) /\ l.at = m.at
    BY DEF Waiting
  <1>2. first[l.item] \in Int /\ l.seq \in Int /\ m.seq \in Int
    BY DEF TypeOK, Times, Lease, Seqs
  <1>3. l.seq = m.seq
    BY <1>1, <1>2 DEF SlotOf
  <1> QED BY <1>3 DEF KeyOf

(* finalize_firing of the occurrence its item waits for, the source being   *)
(* told: the item waits for the next one, the other items as before.        *)
LEMMA FinalizeKeeps ==
    ASSUME TypeOK, ItemsOK, NEW l \in Lease, Waiting(l), FinalizeFiring(l),
           UNCHANGED <<source, first>>,
           l.item \in Recurring /\ source[l.item].status # "none" =>
             source[l.item].after = next_after(l.at)
    PROVE  /\ ItemsOK'
           /\ \A m \in Lease : Waiting(m) /\ (m.item \in Recurring => m.item # l.item)
                                 => Waiting(m)'
PROOF
  <1> USE ConstantsAssumption
  <1>0. l.item \in Items /\ l.seq \in Seqs
    BY DEF Lease
  <1>1. ASSUME NEW i \in Recurring, i # l.item PROVE RowsKept(i)
    <2>1. item'[i] = item[i] /\ occ'[i] = occ[i]
      BY <1>0, <1>1 DEF FinalizeFiring, TypeOK
    <2> QED BY <2>1 DEF RowsKept
  <1>2. ASSUME l.item \in Recurring
        PROVE  OccurrencesOK(l.item)' /\ SourceOK(l.item)'
    <2> DEFINE i == l.item
    <2>1. /\ item[i].status # "none" /\ item[i].after = l.at
          /\ l.at = SlotOf(i, l.seq)
          /\ occ[i][l.seq].status = "pending"
          /\ OccurrencesOK(i) /\ SourceOK(i)
      BY <1>2 DEF Waiting, ItemsOK
    <2>2. item'[i].after = item[i].after + 1 /\ item'[i].status = item[i].status
      <3>1. item[i] \in ItemRow
        BY <1>0 DEF TypeOK
      <3> QED BY <1>0, <1>2, <2>1, <3>1 DEF FinalizeFiring, TypeOK, next_after, ItemRow
    <2>3. ASSUME NEW s \in Seqs
          PROVE  /\ occ'[i][s].at = occ[i][s].at
                 /\ occ'[i][s].status = IF s = l.seq THEN "fired" ELSE occ[i][s].status
      <3>1. occ[i][s] \in OccRow
        BY <1>0 DEF TypeOK
      <3>2. occ'[i][s] = IF s = l.seq THEN [occ[i][s] EXCEPT !.status = "fired", !.leased = FALSE]
                         ELSE occ[i][s]
        BY <1>0 DEF TypeOK, FinalizeFiring
      <3> QED BY <3>1, <3>2 DEF OccRow
    <2>4. item[i].after \in Int /\ first[i] \in Int /\ l.seq \in Int
          /\ \A s \in Seqs : s \in Int
      BY <1>0 DEF TypeOK, ItemRow, Times, Seqs
    <2>5. OccurrencesOK(i)'
      <3>1. item'[i].status # "none" /\ first'[i] =< item'[i].after
        BY <2>1, <2>2, <2>4 DEF OccurrencesOK
      <3>2. ASSUME NEW s \in Seqs
            PROVE  /\ occ'[i][s].status = "fired" <=> first[i] + s - 1 < item'[i].after
                   /\ occ'[i][s].status # "none" => first[i] + s - 1 =< item'[i].after
        BY <2>1, <2>2, <2>3, <2>4 DEF OccurrencesOK, SlotOf
      <3>3. ASSUME NEW s \in Seqs
            PROVE  /\ occ'[i][s].at \in {NoTime, first[i] + s - 1}
                   /\ occ'[i][s].status = "none" => occ'[i][s].at = NoTime
        BY <2>1, <2>3 DEF OccurrencesOK, SlotOf
      <3> QED BY <3>1, <3>2, <3>3 DEF OccurrencesOK, SlotOf
    <2>6. SourceOK(i)'
      BY <1>2, <2>1, <2>2, <2>4 DEF SourceOK, next_after
    <2> QED BY <2>5, <2>6
  <1>3. ItemsOK'
    BY <1>1, <1>2, KeptRows DEF ItemsOK
  <1>4. ASSUME NEW m \in Lease, Waiting(m), m.item \in Recurring => m.item # l.item
        PROVE  Waiting(m)'
    BY <1>1, <1>4, KeptWaiting
  <1> QED BY <1>3, <1>4

(* ensure_standing_tasks and the repair bring every projection level with   *)
(* its source row and leave the rows in order.                              *)
LEMMA StartKeeps ==
    ASSUME TypeOK, ItemsOK, NEW failing, ServeStart(failing) PROVE ItemsOK'
PROOF
  <1> USE ConstantsAssumption
  <1>1. SUFFICES ASSUME NEW i \in Recurring PROVE OccurrencesOK(i)' /\ SourceOK(i)'
    BY DEF ItemsOK
  <1>2. i \in Items /\ OccurrencesOK(i) /\ SourceOK(i)
    BY DEF ItemsOK
  <1>3. /\ item[i].after \in Int /\ first[i] \in Int /\ clock \in Int
        /\ source[i].seq \in Int /\ source[i].after \in Int
        /\ \A s \in Seqs : s \in Int /\ 1 =< s
    BY <1>2 DEF TypeOK, ItemRow, Meta, Times, Seqs
  <1>4. source' = source
    BY DEF ServeStart
  <1>5. CASE i \in Standing /\ item[i].status = "none"
    <2>1. source[i].status = "none"
      BY <1>2, <1>5 DEF SourceOK
    <2>2. /\ item'[i] = [status |-> "active", after |-> clock]
          /\ occ'[i] = occ[i] /\ first'[i] = clock
      BY <1>2, <1>5, <2>1 DEF ServeStart
    <2>3. \A s \in Seqs : occ[i][s].status = "none" /\ occ[i][s].at = NoTime
      BY <1>2, <1>5 DEF OccurrencesOK
    <2>4. OccurrencesOK(i)'
      BY <1>3, <2>2, <2>3 DEF OccurrencesOK, SlotOf
    <2>5. SourceOK(i)'
      BY <1>4, <1>5, <2>1 DEF SourceOK
    <2> QED BY <2>4, <2>5
  <1>6. CASE /\ ~(i \in Standing /\ item[i].status = "none")
             /\ source[i].status # "none" /\ SessionOf[i] \notin failing
    <2>1. /\ item'[i] = ReconciledItem(i) /\ occ'[i] = ReconciledOccs(i)
          /\ first'[i] = first[i]
      BY <1>2, <1>6 DEF ServeStart
    <2>2. item'[i].status # "none" /\ item'[i].after = first[i] + source[i].seq
      BY <1>2, <1>6, <2>1 DEF ReconciledItem, SourceOK
    <2>3. item[i].status = "none" => source[i].seq = 0
      BY <1>2, <1>6 DEF SourceOK
    <2>4. item[i].status # "none" =>
             item'[i].after = item[i].after \/ item'[i].after = item[i].after + 1
      BY <1>2, <1>6, <2>2 DEF SourceOK
    <2>5. ASSUME NEW s \in Seqs
          PROVE  /\ occ'[i][s].at = occ[i][s].at
                 /\ occ'[i][s].status = IF s = source[i].seq THEN "fired"
                        ELSE IF s > source[i].seq /\ occ[i][s].status = "fired"
                        THEN "pending" ELSE occ[i][s].status
      <3>1. occ[i][s] \in OccRow
        BY <1>2 DEF TypeOK
      <3>2. \E x \in {"none", "pending", "fired"} :
               /\ occ'[i][s] = [occ[i][s] EXCEPT !.status = x]
               /\ x = IF s = source[i].seq THEN "fired"
                      ELSE IF s > source[i].seq /\ occ[i][s].status = "fired"
                      THEN "pending" ELSE occ[i][s].status
        BY <2>1, <3>1 DEF ReconciledOccs, OccRow
      <3> QED BY <3>1, <3>2 DEF OccRow
    <2>6. ASSUME NEW s \in Seqs
          PROVE  /\ occ'[i][s].status = "fired" <=> first[i] + s - 1 < item'[i].after
                 /\ occ'[i][s].status # "none" => first[i] + s - 1 =< item'[i].after
      <3>1. CASE item[i].status = "none"
        <4>1. occ[i][s].status = "none" /\ source[i].seq = 0
          BY <1>2, <2>3, <3>1 DEF OccurrencesOK
        <4> QED BY <1>3, <2>2, <2>5, <4>1
      <3>2. CASE item[i].status # "none"
        <4>1. /\ occ[i][s].status = "fired" <=> first[i] + s - 1 < item[i].after
              /\ occ[i][s].status # "none" => first[i] + s - 1 =< item[i].after
          BY <1>2, <3>2 DEF OccurrencesOK, SlotOf
        <4> QED BY <1>3, <2>2, <2>4, <2>5, <3>2, <4>1
      <3> QED BY <3>1, <3>2
    <2>7. ASSUME NEW s \in Seqs
          PROVE  /\ occ'[i][s].at \in {NoTime, first[i] + s - 1}
                 /\ occ'[i][s].status = "none" => occ'[i][s].at = NoTime
      BY <1>2, <2>5 DEF OccurrencesOK, SlotOf
    <2>8. first[i] =< item'[i].after
      <3>1. 0 =< source[i].seq
        BY <1>2 DEF TypeOK, Meta
      <3> QED BY <1>3, <2>2, <3>1
    <2>9. OccurrencesOK(i)'
      BY <2>1, <2>2, <2>6, <2>7, <2>8 DEF OccurrencesOK, SlotOf
    <2>10. SourceOK(i)'
      BY <1>2, <1>4, <1>6, <2>1, <2>2 DEF SourceOK
    <2> QED BY <2>9, <2>10
  <1>7. CASE /\ ~(i \in Standing /\ item[i].status = "none")
             /\ ~(source[i].status # "none" /\ SessionOf[i] \notin failing)
    <2>1. item'[i] = item[i] /\ occ'[i] = occ[i] /\ first'[i] = first[i]
      BY <1>2, <1>7 DEF ServeStart
    <2>2. RowsKept(i)
      BY <1>4, <2>1 DEF RowsKept
    <2> QED BY <1>2, <2>2, KeptRows
  <1> QED BY <1>5, <1>6, <1>7

\* The part of the invariant that is about more than the serve loop's place.
WorkOK == ItemsOK /\ LeasesOK /\ WorkersOK /\ CurrentOK /\ OpOK

(* A step that keeps the rows of the recurring items and takes nothing new  *)
(* in hand keeps the invariant.                                             *)
LEMMA QuietStep ==
    ASSUME TypeOK, WorkOK, \A i \in Recurring : RowsKept(i),
           leases' \subseteq leases, workers' \subseteq workers,
           \/ current' = NoOcc
           \/ current' = current /\ (pc' = "finalize" => pc = "finalize"),
           op' = op \/ op' = NoOp \/ op'.kind # "create"
    PROVE  WorkOK'
PROOF
  <1>0. /\ \A l \in leases : l \in Lease
        /\ \A w \in workers : w.lease \in Lease
        /\ current # NoOcc => current \in Lease
    BY DEF TypeOK
  <1>1. ItemsOK'
    BY KeptRows DEF WorkOK, ItemsOK
  <1>2. LeasesOK'
    <2>1. \A l \in leases : Waiting(l)'
      BY <1>0, KeptWaiting DEF WorkOK, LeasesOK
    <2> QED BY <2>1 DEF WorkOK, LeasesOK
  <1>3. WorkersOK'
    <2>1. ASSUME NEW w \in workers PROVE Waiting(w.lease)'
      <3>1. PICK l \in Lease : l = w.lease
        BY <1>0
      <3>2. Waiting(l)'
        BY <3>1, KeptWaiting DEF WorkOK, WorkersOK
      <3> QED BY <3>1, <3>2 DEF Waiting
    <2> QED BY <2>1 DEF WorkOK, WorkersOK
  <1>4. CurrentOK'
    <2>1. SUFFICES ASSUME current' # NoOcc PROVE CurrentOK'
      BY DEF CurrentOK
    <2>2. PICK c \in Lease : c = current /\ c = current'
      BY <1>0, <2>1
    <2>3. Waiting(c)'
      BY <2>1, <2>2, KeptWaiting DEF WorkOK, CurrentOK
    <2>4. Waiting(current)'
      BY <2>2, <2>3 DEF Waiting
    <2>5. /\ \A l \in leases : l.item = c.item => l.item \notin Recurring
          /\ \A w \in workers : KeyOf(w.lease) # KeyOf(c)
      BY <2>1, <2>2 DEF WorkOK, CurrentOK
    <2>6. /\ \A l \in leases' : l.item = (current').item => l.item \notin Recurring
          /\ \A w \in workers' : KeyOf(w.lease) # KeyOf(current')
      BY <2>2, <2>5
    <2>7. pc' = "finalize" /\ c.item \in Recurring /\ source'[c.item].status # "none" =>
             source'[c.item].after = next_after(c.at)
      BY <2>1, <2>2 DEF WorkOK, CurrentOK, RowsKept
    <2> QED BY <2>2, <2>4, <2>6, <2>7 DEF CurrentOK, KeyOf
  <1>5. OpOK'
    BY DEF WorkOK, OpOK, RowsKept
  <1> QED BY <1>1, <1>2, <1>3, <1>4, <1>5 DEF WorkOK

(* A step of a recurring item's occurrence to its end: whatever else is in  *)
(* hand is of other items, and the invariant is kept.                       *)
LEMMA FinalizeStep ==
    ASSUME TypeOK, WorkOK, NEW l \in Lease, Waiting(l), FinalizeFiring(l),
           UNCHANGED <<source, first>>,
           l.item \in Recurring /\ source[l.item].status # "none" =>
             source[l.item].after = next_after(l.at),
           leases' \subseteq leases, workers' \subseteq workers,
           \A m \in leases' : l.item \in Recurring => m.item # l.item,
           \A w \in workers' : l.item \in Recurring => w.lease.item # l.item,
           current' = NoOcc, op' = NoOp
    PROVE  WorkOK'
PROOF
  <1>0. /\ \A m \in leases : m \in Lease
        /\ \A w \in workers : w.lease \in Lease
    BY DEF TypeOK
  <1>1. /\ ItemsOK'
        /\ \A m \in Lease : Waiting(m) /\ (m.item \in Recurring => m.item # l.item)
                              => Waiting(m)'
    BY FinalizeKeeps DEF WorkOK
  <1>2. LeasesOK'
    <2>1. \A m \in leases' : Waiting(m)'
      BY <1>0, <1>1 DEF WorkOK, LeasesOK
    <2> QED BY <2>1 DEF WorkOK, LeasesOK
  <1>3. WorkersOK'
    <2>1. ASSUME NEW w \in workers' PROVE Waiting(w.lease)'
      <3>1. PICK m \in Lease : m = w.lease
        BY <1>0
      <3>2. Waiting(m) /\ (m.item \in Recurring => m.item # l.item)
        BY <3>1 DEF WorkOK, WorkersOK
      <3>3. Waiting(m)'
        BY <1>1, <3>2
      <3> QED BY <3>1, <3>3 DEF Waiting
    <2> QED BY <2>1 DEF WorkOK, WorkersOK
  <1>4. CurrentOK' /\ OpOK'
    BY DEF CurrentOK, OpOK
  <1> QED BY <1>1, <1>2, <1>3, <1>4 DEF WorkOK

\* When recurrences go on.  A write of a fire to the source row does not fail;
\* no gated task runs in the background; and no background turn of an item with
\* a source row fails.
NothingGoesUntold ==
    /\ "source_error" \notin Faults
    /\ Gated \cap RunAs = {}
    /\ Recurring \cap RunAs \subseteq Standing \/ "worker_error" \notin Faults

(* Every step keeps the rows of the recurring items in order and what the   *)
(* serve process has in hand in line with them.                             *)
LEMMA WorkStep ==
    ASSUME NothingGoesUntold, TypeOK, OneWorkerPerOccurrence, LoopOK, WorkOK,
           [Next]_vars
    PROVE  WorkOK'
PROOF
  <1> USE ConstantsAssumption
  <1>0. /\ \A l \in leases : l \in Lease
        /\ \A w \in workers : w \in [lease : Lease, state : {"running", "ok", "err"}]
        /\ current # NoOcc => current \in Lease
    BY DEF TypeOK
  <1>kept. ASSUME UNCHANGED <<source, item, occ, first>> PROVE \A i \in Recurring : RowsKept(i)
    BY <1>kept DEF RowsKept
  <1>1. CASE UNCHANGED vars
    BY <1>kept, <1>1, QuietStep DEF vars, centralDb, process
  <1>2. CASE ClockTicks
    BY <1>kept, <1>2, QuietStep DEF ClockTicks, centralDb, process
  <1>3. ASSUME NEW j \in Items, NEW t \in Seqs, LeaseExpires(j, t) PROVE WorkOK'
    <2>1. ASSUME NEW i \in Recurring, NEW s \in Seqs
          PROVE  occ'[i][s].status = occ[i][s].status /\ occ'[i][s].at = occ[i][s].at
      <3>1. occ[i][s] \in OccRow
        BY DEF TypeOK
      <3>2. \/ occ'[i][s] = occ[i][s]
            \/ occ'[i][s] = [occ[i][s] EXCEPT !.leased = FALSE]
        BY <1>3 DEF LeaseExpires, TypeOK
      <3> QED BY <3>1, <3>2 DEF OccRow
    <2>2. \A i \in Recurring : RowsKept(i)
      BY <1>3, <2>1 DEF RowsKept, LeaseExpires
    <2> QED BY <1>3, <2>2, QuietStep DEF LeaseExpires, process
  <1>4. ASSUME NEW failing, ServeStart(failing) PROVE WorkOK'
    <2>1. ItemsOK'
      BY <1>4, StartKeeps DEF WorkOK
    <2>2. leases' = {} /\ workers' = {} /\ current' = NoOcc /\ op' = NoOp
      BY <1>4 DEF ServeStart, LoopOK
    <2> QED BY <2>1, <2>2 DEF WorkOK, LeasesOK, WorkersOK, CurrentOK, OpOK
  <1>5. CASE Crash \/ ServeReturns
    <2>1. /\ leases' = {} /\ workers' = {} /\ current' = NoOcc /\ op' = NoOp
          /\ UNCHANGED <<source, item, occ, first>>
      BY <1>5 DEF Crash, ServeReturns, ProcessGone, centralDb
    <2> QED BY <1>kept, <2>1, QuietStep
  <1>6. CASE StopRequested
    BY <1>kept, <1>6, QuietStep DEF StopRequested, centralDb
  <1>7. CASE Tick
    <2>1. /\ ItemsOK'
          /\ \A l \in Lease : Waiting(l) => Waiting(l)'
          /\ \A l \in Claims : Waiting(l)'
      BY <1>7, AcquireKeeps DEF Tick, WorkOK
    <2>2. LeasesOK'
      <3>1. leases' = Claims
        BY <1>7 DEF Tick
      <3>2. \A l, m \in Claims : l.item = m.item /\ l.item \in Recurring => l = m
        BY ClaimsSingle DEF WorkOK
      <3> QED BY <2>1, <3>1, <3>2 DEF LeasesOK
    <2>3. WorkersOK'
      <3>1. ASSUME NEW w \in workers PROVE Waiting(w.lease)'
        <4>1. PICK l \in Lease : l = w.lease
          BY <1>0
        <4>2. Waiting(l)'
          BY <2>1, <4>1 DEF WorkOK, WorkersOK
        <4> QED BY <4>1, <4>2 DEF Waiting
      <3> QED BY <1>7, <3>1 DEF WorkOK, WorkersOK, Tick
    <2>4. CurrentOK' /\ OpOK'
      BY <1>7 DEF Tick, LoopOK, CurrentOK, OpOK
    <2> QED BY <2>1, <2>2, <2>3, <2>4 DEF WorkOK
  <1>8. CASE TickFails
    <2>1. PICK C \in SUBSET Claims : Acquire(C)
      BY <1>8 DEF TickFails
    <2>2. ItemsOK' /\ \A l \in Lease : Waiting(l) => Waiting(l)'
      BY <1>8, <2>1, AcquireKeeps DEF TickFails, WorkOK
    <2>3. /\ workers' = workers /\ leases' = {} /\ current' = NoOcc /\ op' = NoOp
      BY <1>8 DEF TickFails, process, LoopOK
    <2>4. WorkersOK'
      <3>1. ASSUME NEW w \in workers PROVE Waiting(w.lease)'
        <4>1. PICK l \in Lease : l = w.lease
          BY <1>0
        <4>2. Waiting(l)'
          BY <2>2, <4>1 DEF WorkOK, WorkersOK
        <4> QED BY <4>1, <4>2 DEF Waiting
      <3> QED BY <2>3, <3>1 DEF WorkOK, WorkersOK
    <2> QED BY <2>2, <2>3, <2>4 DEF WorkOK, LeasesOK, CurrentOK, OpOK
  <1>9. ASSUME NEW l \in leases, RunLease(l) PROVE WorkOK'
    <2>0. l \in Lease /\ Waiting(l) /\ current = NoOcc /\ op = NoOp
      BY <1>0, <1>9 DEF WorkOK, LeasesOK, LoopOK, RunLease, GateSkips, LeaveLease,
                        SkipInflight, SpawnRunAs, InlineTurn, InlineTurnFails
    <2>1. CASE GateSkips(l)
      <3>1. /\ leases' = leases \ {l} /\ workers' = workers
            /\ current' = NoOcc /\ op' = NoOp /\ UNCHANGED <<source, first>>
            /\ l.item \in Standing /\ l.item \notin RunAs
        BY <2>0, <2>1 DEF GateSkips, Drop, NothingGoesUntold
      <3>2. CASE FinalizeFiring(l)
        <4>1. source[l.item].status = "none"
          BY <3>1 DEF WorkOK, ItemsOK, SourceOK
        <4>2. /\ \A m \in leases' : l.item \in Recurring => m.item # l.item
              /\ \A w \in workers' : l.item \in Recurring => w.lease.item # l.item
          BY <3>1 DEF WorkOK, LeasesOK, WorkersOK
        <4> QED BY <2>0, <3>1, <3>2, <4>1, <4>2, FinalizeStep
      <3>3. CASE UNCHANGED centralDb
        BY <1>kept, <3>1, <3>3, QuietStep DEF centralDb
      <3> QED BY <2>1, <3>2, <3>3 DEF GateSkips, FinalizeOrFail
    <2>2. CASE LeaveLease(l) \/ SkipInflight(l) \/ InlineTurnFails(l)
      <3>1. /\ leases' = leases \ {l} /\ workers' = workers /\ current' = NoOcc /\ op' = NoOp
            /\ UNCHANGED <<source, item, occ, first>>
        BY <2>0, <2>2 DEF LeaveLease, SkipInflight, InlineTurnFails, Drop, centralDb
      <3> QED BY <1>kept, <3>1, QuietStep
    <2>3. CASE SpawnRunAs(l)
      <3>1. /\ leases' = leases \ {l} /\ current' = NoOcc /\ op' = NoOp
            /\ UNCHANGED <<source, item, occ, first>> /\ l.item \in RunAs
            /\ workers' = workers \cup {[lease |-> l, state |-> "running"]}
        BY <2>0, <2>3 DEF SpawnRunAs, Drop, centralDb
      <3>2. \A m \in Lease : Waiting(m) => Waiting(m)'
        BY <1>kept, <3>1, KeptWaiting
      <3>3. ItemsOK'
        BY <1>kept, <3>1, KeptRows DEF WorkOK, ItemsOK
      <3>4. LeasesOK'
        BY <1>0, <3>1, <3>2 DEF WorkOK, LeasesOK
      <3>5. WorkersOK'
        <4>1. ASSUME NEW w \in workers'
              PROVE  /\ Waiting(w.lease)' /\ w.lease.item \in RunAs
                     /\ "worker_error" \notin Faults => w.state # "err"
          <5>1. CASE w \in workers
            <6>1. PICK m \in Lease : m = w.lease
              BY <1>0, <5>1
            <6>2. Waiting(m)'
              BY <3>2, <5>1, <6>1 DEF WorkOK, WorkersOK
            <6>3. Waiting(w.lease)'
              BY <6>1, <6>2 DEF Waiting
            <6> QED BY <5>1, <6>3 DEF WorkOK, WorkersOK
          <5>2. CASE w = [lease |-> l, state |-> "running"]
            <6>1. w.lease = l /\ w.state = "running"
              BY <5>2
            <6>2. Waiting(l)'
              BY <2>0, <3>2
            <6>3. Waiting(w.lease)'
              BY <6>1, <6>2 DEF Waiting
            <6> QED BY <3>1, <6>1, <6>3
          <5> QED BY <3>1, <5>1, <5>2
        <4> QED BY <4>1 DEF WorkersOK
      <3> QED BY <3>1, <3>3, <3>4, <3>5 DEF WorkOK, CurrentOK, OpOK
    <2>4. CASE InlineTurn(l)
      <3>1. /\ leases' = leases \ {l} /\ current' = l /\ op' = NoOp
            /\ UNCHANGED <<source, item, occ, first>> /\ l.item \notin RunAs
            /\ workers' = workers /\ pc' = "effects"
        BY <2>0, <2>4 DEF InlineTurn, ApplyReplies, centralDb
      <3>2. \A m \in Lease : Waiting(m) => Waiting(m)'
        BY <1>kept, <3>1, KeptWaiting
      <3>3. ItemsOK'
        BY <1>kept, <3>1, KeptRows DEF WorkOK, ItemsOK
      <3>4. LeasesOK'
        BY <1>0, <3>1, <3>2 DEF WorkOK, LeasesOK
      <3>5. WorkersOK'
        <4>1. ASSUME NEW w \in workers PROVE Waiting(w.lease)'
          <5>1. PICK m \in Lease : m = w.lease
            BY <1>0
          <5>2. Waiting(m)'
            BY <3>2, <5>1 DEF WorkOK, WorkersOK
          <5> QED BY <5>1, <5>2 DEF Waiting
        <4> QED BY <3>1, <4>1 DEF WorkOK, WorkersOK
      <3>6. CurrentOK'
        <4>1. Waiting(l)'
          BY <2>0, <3>2
        <4>2. Waiting(current)'
          BY <3>1, <4>1 DEF Waiting
        <4>3. \A m \in leases' : m.item = l.item => m.item \notin Recurring
          BY <3>1 DEF WorkOK, LeasesOK
        <4>4. \A w \in workers' : KeyOf(w.lease) # KeyOf(l)
          BY <3>1 DEF WorkOK, WorkersOK, KeyOf
        <4> QED BY <3>1, <4>2, <4>3, <4>4 DEF CurrentOK, KeyOf
      <3> QED BY <3>1, <3>3, <3>4, <3>5, <3>6 DEF WorkOK, OpOK
    <2> QED BY <1>9, <2>1, <2>2, <2>3, <2>4 DEF RunLease
  <1>10. ASSUME NEW w \in workers, WorkerEnds(w) PROVE WorkOK'
    <2>1. PICK x \in {"ok", "err"} :
             /\ workers' = (workers \ {w}) \cup {[w EXCEPT !.state = x]}
             /\ "worker_error" \notin Faults => x # "err"
      BY <1>10 DEF WorkerEnds, Fault
    <2>2. /\ UNCHANGED <<source, item, occ, first>>
          /\ UNCHANGED <<pc, leases, current, op>>
      BY <1>10 DEF WorkerEnds, centralDb
    <2>3. \A m \in Lease : Waiting(m) => Waiting(m)'
      BY <1>kept, <2>2, KeptWaiting
    <2>4. \A v \in workers' :
             /\ \E u \in workers : v.lease = u.lease
             /\ "worker_error" \notin Faults => v.state # "err"
      BY <1>0, <2>1 DEF WorkOK, WorkersOK
    <2>5. ItemsOK'
      BY <1>kept, <2>2, KeptRows DEF WorkOK, ItemsOK
    <2>6. LeasesOK'
      BY <1>0, <2>2, <2>3 DEF WorkOK, LeasesOK
    <2>7. WorkersOK'
      <3>1. ASSUME NEW v \in workers' PROVE Waiting(v.lease)' /\ v.lease.item \in RunAs
        <4>1. PICK u \in workers : v.lease = u.lease
          BY <2>4
        <4>2. PICK m \in Lease : m = v.lease
          BY <1>0, <4>1
        <4>3. Waiting(m) /\ m.item \in RunAs
          BY <4>1, <4>2 DEF WorkOK, WorkersOK
        <4>4. Waiting(m)'
          BY <2>3, <4>3
        <4> QED BY <4>2, <4>3, <4>4 DEF Waiting
      <3> QED BY <2>4, <3>1 DEF WorkersOK
    <2>8. CurrentOK'
      <3>1. SUFFICES ASSUME current # NoOcc PROVE CurrentOK'
        BY <2>2 DEF CurrentOK
      <3>2. PICK c \in Lease : c = current /\ c = current'
        BY <1>0, <2>2, <3>1
      <3>3. Waiting(c)'
        BY <2>3, <3>1, <3>2 DEF WorkOK, CurrentOK
      <3>4. Waiting(current)'
        BY <3>2, <3>3 DEF Waiting
      <3>5. \A v \in workers' : KeyOf(v.lease) # KeyOf(c)
        BY <2>4, <3>1, <3>2 DEF WorkOK, CurrentOK
      <3>6. /\ \A l \in leases' : l.item = c.item => l.item \notin Recurring
            /\ pc' = "finalize" /\ c.item \in Recurring /\ source'[c.item].status # "none" =>
                 source'[c.item].after = next_after(c.at)
        BY <2>2, <3>1, <3>2 DEF WorkOK, CurrentOK
      <3> QED BY <3>2, <3>4, <3>5, <3>6 DEF CurrentOK, KeyOf
    <2>9. OpOK'
      BY <2>2 DEF WorkOK, OpOK
    <2> QED BY <2>5, <2>6, <2>7, <2>8, <2>9 DEF WorkOK
  <1>11. ASSUME NEW w \in workers, DrainOk(w) PROVE WorkOK'
    <2>1. PICK l \in Lease : l = w.lease
      BY <1>0
    <2>2. /\ leases' = {} /\ current' = l /\ op' = NoOp /\ pc' = "effects"
          /\ workers' = workers \ {w}
          /\ UNCHANGED <<source, item, occ, first>>
      BY <1>11, <2>1 DEF DrainOk, ApplyReplies, LoopOK, centralDb
    <2>3. \A m \in Lease : Waiting(m) => Waiting(m)'
      BY <1>kept, <2>2, KeptWaiting
    <2>4. ItemsOK'
      BY <1>kept, <2>2, KeptRows DEF WorkOK, ItemsOK
    <2>5. ASSUME NEW v \in workers PROVE Waiting(v.lease)'
      <3>1. PICK m \in Lease : m = v.lease
        BY <1>0
      <3>2. Waiting(m)'
        BY <2>3, <3>1 DEF WorkOK, WorkersOK
      <3> QED BY <3>1, <3>2 DEF Waiting
    <2>6. WorkersOK'
      BY <2>2, <2>5 DEF WorkOK, WorkersOK
    <2>7. CurrentOK'
      <3>1. Waiting(l)'
        BY <2>1, <2>3 DEF WorkOK, WorkersOK
      <3>2. Waiting(current)'
        BY <2>2, <3>1 DEF Waiting
      <3>3. \A v \in workers' : KeyOf(v.lease) # KeyOf(l)
        BY <2>1, <2>2 DEF OneWorkerPerOccurrence
      <3> QED BY <2>2, <3>2, <3>3 DEF CurrentOK, KeyOf
    <2> QED BY <2>2, <2>4, <2>6, <2>7 DEF WorkOK, LeasesOK, OpOK
  <1>12. ASSUME NEW w \in workers, DrainErr(w) PROVE WorkOK'
    <2>1. PICK l \in Lease : l = w.lease
      BY <1>0
    <2>2. /\ leases' = {} /\ current' = NoOcc /\ op' = NoOp
          /\ workers' = workers \ {w} /\ UNCHANGED <<source, first>>
          /\ leases' \subseteq leases
      BY <1>12 DEF DrainErr, LoopOK
    <2>3. Waiting(l) /\ l.item \in RunAs /\ "worker_error" \in Faults
      BY <1>12, <2>1 DEF WorkOK, WorkersOK, DrainErr
    <2>4. l.item \in Recurring => source[l.item].status = "none"
      BY <2>3 DEF NothingGoesUntold, WorkOK, ItemsOK, SourceOK
    <2>5. ASSUME NEW v \in workers', l.item \in Recurring PROVE v.lease.item # l.item
      <3>1. SUFFICES ASSUME v.lease.item = l.item PROVE FALSE
        OBVIOUS
      <3>2. PICK m \in Lease : m = v.lease
        BY <1>0, <2>2
      <3>3. Waiting(m) /\ v \in workers /\ v # w
        BY <2>2, <3>2 DEF WorkOK, WorkersOK
      <3>4. KeyOf(m) = KeyOf(l)
        BY <2>3, <2>5, <3>1, <3>2, <3>3, WaitingSame
      <3> QED BY <2>1, <3>2, <3>3, <3>4 DEF OneWorkerPerOccurrence
    <2>6. CASE FinalizeFiring(l)
      BY <2>2, <2>3, <2>4, <2>5, <2>6, FinalizeStep
    <2>7. CASE UNCHANGED centralDb
      BY <1>kept, <2>2, <2>7, QuietStep DEF centralDb
    <2> QED BY <1>12, <2>1, <2>6, <2>7 DEF DrainErr, FinalizeOrFail
  <1>13. ASSUME NEW s, UserTurn(s) PROVE WorkOK'
    BY <1>13, <1>kept, QuietStep DEF UserTurn, centralDb
  <1>14. ASSUME NEW i \in Items \ Standing, NEW t \in {clock, clock + 1},
                WriteNewSource(i, t)
         PROVE  WorkOK'
    <2>1. /\ source[i].status = "none" /\ i \in Items
          /\ source' = [source EXCEPT ![i] = [status |-> "active", after |-> t, seq |-> 0]]
          /\ first' = [first EXCEPT ![i] = t]
          /\ op' = [kind |-> "create", item |-> i] /\ pc' = "effects"
          /\ UNCHANGED <<item, occ, leases, current, workers>>
      BY <1>14 DEF WriteNewSource, centralDb
    <2>2. ASSUME NEW j \in Recurring, j # i PROVE RowsKept(j)
      BY <2>1, <2>2 DEF RowsKept, TypeOK
    <2>3. i \in Recurring => item[i].status = "none"
      BY <1>14, <2>1 DEF WorkOK, ItemsOK, SourceOK
    <2>4. ASSUME i \in Recurring PROVE OccurrencesOK(i)' /\ SourceOK(i)'
      <3>1. \A s \in Seqs : occ[i][s].status = "none" /\ occ[i][s].at = NoTime
        BY <2>3, <2>4 DEF WorkOK, ItemsOK, OccurrencesOK
      <3>2. item'[i].status = "none"
        BY <2>1, <2>3, <2>4
      <3>3. OccurrencesOK(i)'
        BY <2>1, <3>1, <3>2 DEF OccurrencesOK
      <3>4. source'[i] = [status |-> "active", after |-> t, seq |-> 0] /\ first'[i] = t
        BY <2>1 DEF TypeOK
      <3>5. t + 0 = t
        BY DEF TypeOK
      <3>6. SourceOK(i)'
        BY <1>14, <3>2, <3>4, <3>5 DEF SourceOK
      <3> QED BY <3>3, <3>6
    <2>5. ItemsOK'
      BY <2>2, <2>4, KeptRows DEF WorkOK, ItemsOK
    <2>6. ASSUME NEW m \in Lease, Waiting(m) PROVE Waiting(m)'
      <3>1. m.item \in Recurring => RowsKept(m.item)
        BY <2>2, <2>3, <2>6 DEF Waiting
      <3> QED BY <2>6, <3>1, KeptWaiting
    <2>7. LeasesOK'
      BY <1>0, <2>1, <2>6 DEF WorkOK, LeasesOK
    <2>8. WorkersOK'
      <3>1. ASSUME NEW w \in workers PROVE Waiting(w.lease)'
        <4>1. PICK m \in Lease : m = w.lease
          BY <1>0
        <4>2. Waiting(m)'
          BY <2>6, <4>1 DEF WorkOK, WorkersOK
        <4> QED BY <4>1, <4>2 DEF Waiting
      <3> QED BY <2>1, <3>1 DEF WorkOK, WorkersOK
    <2>9. CurrentOK'
      <3>1. SUFFICES ASSUME current # NoOcc PROVE CurrentOK'
        BY <2>1 DEF CurrentOK
      <3>2. PICK c \in Lease : c = current /\ c = current'
        BY <1>0, <2>1, <3>1
      <3>3. Waiting(c)'
        BY <2>6, <3>1, <3>2 DEF WorkOK, CurrentOK
      <3>4. Waiting(current)'
        BY <3>2, <3>3 DEF Waiting
      <3>5. /\ \A v \in workers' : KeyOf(v.lease) # KeyOf(c)
            /\ \A l \in leases' : l.item = c.item => l.item \notin Recurring
        BY <2>1, <3>1, <3>2 DEF WorkOK, CurrentOK
      <3> QED BY <2>1, <3>2, <3>4, <3>5 DEF CurrentOK, KeyOf
    <2>10. OpOK'
      <3>1. op'.item = i /\ i \notin Standing
        BY <2>1
      <3>2. source'[i].status # "none"
        BY <2>1 DEF TypeOK
      <3> QED BY <2>1, <2>3, <3>1, <3>2 DEF OpOK
    <2> QED BY <2>5, <2>7, <2>8, <2>9, <2>10 DEF WorkOK
  <1>15. ASSUME NEW kind \in {"cancel", "pause", "resume"}, NEW i \in Items,
                TransitionSource(kind, i)
         PROVE  WorkOK'
    <2>1. ASSUME NEW j \in Recurring PROVE RowsKept(j)
      <3>1. source[j] \in Meta
        BY DEF TypeOK
      <3>2. \/ source'[j] = source[j]
            \/ /\ source[j].status # "none" /\ source'[j] = [source[j] EXCEPT !.status = Target(kind)]
        BY <1>15 DEF TransitionSource, TypeOK, Legal
      <3>3. Target(kind) # "none"
        BY DEF Target
      <3>4. UNCHANGED <<item, occ, first>>
        BY <1>15 DEF TransitionSource, centralDb
      <3> QED BY <3>1, <3>2, <3>3, <3>4 DEF RowsKept, Meta
    <2>2. op'.kind # "create" /\ UNCHANGED <<pc, leases, current, workers>>
      BY <1>15 DEF TransitionSource
    <2> QED BY <2>1, <2>2, QuietStep
  <1>16. CASE ProjectAction
    <2>1. /\ op \in Action /\ op' = NoOp
          /\ UNCHANGED <<source, occ, pc, leases, current, workers, first>>
      BY <1>16 DEF ProjectAction, TypeOK
    <2>2. CASE item' = item
      BY <1>kept, <2>1, <2>2, QuietStep
    <2>3. CASE /\ op.kind # "create" /\ Legal(item[op.item].status, op.kind)
               /\ item' = [item EXCEPT ![op.item].status = Target(op.kind)]
      <3>1. Target(op.kind) # "none" /\ item[op.item].status # "none"
        BY <2>1, <2>3 DEF Action, Target, Legal
      <3>2. ASSUME NEW j \in Recurring PROVE RowsKept(j)
        <4>1. item[j] \in ItemRow
          BY DEF TypeOK
        <4>2. \/ item'[j] = item[j]
              \/ j = op.item /\ item'[j] = [item[j] EXCEPT !.status = Target(op.kind)]
          BY <2>3 DEF TypeOK
        <4> QED BY <2>1, <3>1, <4>1, <4>2 DEF RowsKept, ItemRow
      <3> QED BY <2>1, <3>2, QuietStep
    <2>4. CASE /\ op.kind = "create"
               /\ item' = [item EXCEPT ![op.item] = ReconciledItem(op.item)]
      <3>1. PICK i \in Items : i = op.item
        BY <2>1 DEF Action
      <3>2. op # NoOp
        BY <1>16 DEF ProjectAction
      <3>3. i \in Recurring => item[i].status = "none" /\ source[i].status # "none"
        BY <2>4, <3>1, <3>2 DEF WorkOK, OpOK
      <3>4. ASSUME NEW j \in Recurring, j # i PROVE RowsKept(j)
        BY <2>1, <2>4, <3>1, <3>4 DEF RowsKept, TypeOK
      <3>5. ASSUME i \in Recurring PROVE OccurrencesOK(i)' /\ SourceOK(i)'
        <4>1. /\ \A s \in Seqs : occ[i][s].status = "none" /\ occ[i][s].at = NoTime
              /\ source[i].seq = 0 /\ source[i].after = first[i] + source[i].seq
              /\ i \in Standing => source[i].status = "none"
          BY <3>3, <3>5 DEF WorkOK, ItemsOK, OccurrencesOK, SourceOK
        <4>2. first[i] \in Int /\ \A s \in Seqs : s \in Int /\ 1 =< s
          BY DEF TypeOK, Times, Seqs
        <4>3. item'[i] = [status |-> source[i].status, after |-> source[i].after]
          BY <2>4, <3>1 DEF TypeOK, ReconciledItem
        <4>4. item'[i].status # "none" /\ item'[i].after = first[i]
          BY <3>3, <3>5, <4>1, <4>2, <4>3
        <4>5. OccurrencesOK(i)'
          BY <2>1, <4>1, <4>2, <4>4 DEF OccurrencesOK, SlotOf
        <4>6. SourceOK(i)'
          BY <2>1, <3>3, <3>5, <4>1, <4>2, <4>4 DEF SourceOK
        <4> QED BY <4>5, <4>6
      <3>6. ItemsOK'
        BY <3>4, <3>5, KeptRows DEF WorkOK, ItemsOK
      <3>7. ASSUME NEW m \in Lease, Waiting(m) PROVE Waiting(m)'
        <4>1. m.item \in Recurring => RowsKept(m.item)
          BY <3>3, <3>4, <3>7 DEF Waiting
        <4> QED BY <3>7, <4>1, KeptWaiting
      <3>8. LeasesOK'
        BY <1>0, <2>1, <3>7 DEF WorkOK, LeasesOK
      <3>9. WorkersOK'
        <4>1. ASSUME NEW w \in workers PROVE Waiting(w.lease)'
          <5>1. PICK m \in Lease : m = w.lease
            BY <1>0
          <5>2. Waiting(m)'
            BY <3>7, <5>1 DEF WorkOK, WorkersOK
          <5> QED BY <5>1, <5>2 DEF Waiting
        <4> QED BY <2>1, <4>1 DEF WorkOK, WorkersOK
      <3>10. CurrentOK'
        <4>1. SUFFICES ASSUME current # NoOcc PROVE CurrentOK'
          BY <2>1 DEF CurrentOK
        <4>2. PICK c \in Lease : c = current /\ c = current'
          BY <1>0, <2>1, <4>1
        <4>3. Waiting(c)'
          BY <3>7, <4>1, <4>2 DEF WorkOK, CurrentOK
        <4>4. Waiting(current)'
          BY <4>2, <4>3 DEF Waiting
        <4>5. /\ \A v \in workers' : KeyOf(v.lease) # KeyOf(c)
              /\ \A l \in leases' : l.item = c.item => l.item \notin Recurring
              /\ pc' = "finalize" /\ c.item \in Recurring /\ source'[c.item].status # "none" =>
                   source'[c.item].after = next_after(c.at)
          BY <2>1, <4>1, <4>2 DEF WorkOK, CurrentOK
        <4> QED BY <4>2, <4>4, <4>5 DEF CurrentOK, KeyOf
      <3> QED BY <2>1, <3>6, <3>8, <3>9, <3>10 DEF WorkOK, OpOK
    <2> QED BY <1>16, <2>2, <2>3, <2>4 DEF ProjectAction
  <1>17. CASE EndUserTurn
    BY <1>17, <1>kept, QuietStep DEF EndUserTurn, centralDb
  <1>18. CASE RecordFired
    <2>1. PICK c \in Lease : c = current
      BY <1>0, <1>18 DEF RecordFired
    <2>2. /\ source' = IF source[c.item].status = "none" THEN source
                       ELSE [source EXCEPT ![c.item] = Fired(@, c)]
          /\ UNCHANGED <<item, occ, first, leases, current, workers, op>>
          /\ op = NoOp /\ current # NoOcc
      BY <1>18, <2>1 DEF RecordFired, Fault, centralDb, NothingGoesUntold
    <2>3. c.item \in Items /\ c.seq \in Seqs
      BY DEF Lease
    <2>4. Waiting(c)
      BY <2>1, <2>2 DEF WorkOK, CurrentOK
    <2>5. ASSUME NEW j \in Recurring, j # c.item PROVE RowsKept(j)
      BY <2>2, <2>3, <2>5 DEF RowsKept, TypeOK
    <2>6. ASSUME c.item \in Recurring, source[c.item].status # "none"
          PROVE  /\ source'[c.item].status # "none"
                 /\ source'[c.item].after = next_after(c.at)
                 /\ source'[c.item].seq = c.seq
      <3>1. source[c.item] \in Meta
        BY <2>3 DEF TypeOK
      <3>2. source'[c.item] = [source[c.item] EXCEPT !.seq = c.seq, !.after = next_after(c.at)]
        BY <2>2, <2>3, <2>6 DEF TypeOK, Fired
      <3> QED BY <2>6, <3>1, <3>2 DEF Meta
    <2>7. ASSUME c.item \in Recurring PROVE OccurrencesOK(c.item)' /\ SourceOK(c.item)'
      <3>1. OccurrencesOK(c.item) /\ SourceOK(c.item)
        BY <2>7 DEF WorkOK, ItemsOK
      <3>2. OccurrencesOK(c.item)'
        BY <2>2, <3>1 DEF OccurrencesOK, SlotOf
      <3>3. CASE source[c.item].status = "none"
        BY <2>2, <3>1, <3>2, <3>3 DEF SourceOK
      <3>4. CASE source[c.item].status # "none"
        <4>1. first[c.item] \in Int /\ c.seq \in Int
          BY <2>3 DEF TypeOK, Times, Seqs
        <4>2. /\ item[c.item].status # "none" /\ item[c.item].after = c.at
              /\ c.at = first[c.item] + c.seq - 1
          BY <2>4, <2>7 DEF Waiting, SlotOf
        <4>3. /\ source'[c.item].after = c.at + 1
              /\ source'[c.item].after = first[c.item] + source'[c.item].seq
          BY <2>6, <2>7, <3>4, <4>1, <4>2 DEF next_after
        <4>4. c.item \notin Standing
          BY <3>1, <3>4 DEF SourceOK
        <4>5. SourceOK(c.item)'
          BY <2>2, <2>6, <2>7, <3>4, <4>2, <4>3, <4>4 DEF SourceOK
        <4> QED BY <3>2, <4>5
      <3> QED BY <3>2, <3>3, <3>4
    <2>8. ItemsOK'
      BY <2>5, <2>7, KeptRows DEF WorkOK, ItemsOK
    <2>9. ASSUME NEW m, Waiting(m) PROVE Waiting(m)'
      BY <2>2, <2>9 DEF Waiting, SlotOf
    <2>10. LeasesOK'
      BY <2>2, <2>9 DEF WorkOK, LeasesOK
    <2>11. WorkersOK'
      <3>1. ASSUME NEW w \in workers PROVE Waiting(w.lease)'
        <4>1. PICK m \in Lease : m = w.lease
          BY <1>0
        <4>2. Waiting(m)'
          BY <2>9, <4>1 DEF WorkOK, WorkersOK
        <4> QED BY <4>1, <4>2 DEF Waiting
      <3> QED BY <2>2, <3>1 DEF WorkOK, WorkersOK
    <2>12. CurrentOK'
      <3>1. Waiting(c)'
        BY <2>4, <2>9
      <3>2. Waiting(current)'
        BY <2>1, <2>2, <3>1 DEF Waiting
      <3>3. /\ \A v \in workers' : KeyOf(v.lease) # KeyOf(c)
            /\ \A l \in leases' : l.item = c.item => l.item \notin Recurring
        BY <2>1, <2>2 DEF WorkOK, CurrentOK
      <3>4. c.item \in Recurring /\ source'[c.item].status # "none" =>
               source'[c.item].after = next_after(c.at)
        BY <2>2, <2>6
      <3> QED BY <2>1, <2>2, <3>2, <3>3, <3>4 DEF CurrentOK, KeyOf
    <2> QED BY <2>2, <2>8, <2>10, <2>11, <2>12 DEF WorkOK, OpOK
  <1>19. CASE FinishTurn
    <2>1. PICK l \in Lease : l = current
      BY <1>0, <1>19 DEF FinishTurn, TypeOK
    <2>2. /\ current' = NoOcc /\ op' = NoOp /\ UNCHANGED <<source, first, leases, workers>>
          /\ current # NoOcc /\ pc = "finalize"
      BY <1>19 DEF FinishTurn, LoopOK, TypeOK
    <2>3. /\ Waiting(l)
          /\ \A m \in leases : m.item = l.item => m.item \notin Recurring
          /\ \A w \in workers : KeyOf(w.lease) # KeyOf(l)
          /\ l.item \in Recurring /\ source[l.item].status # "none" =>
               source[l.item].after = next_after(l.at)
      BY <2>1, <2>2 DEF WorkOK, CurrentOK
    <2>4. ASSUME NEW v \in workers, l.item \in Recurring PROVE v.lease.item # l.item
      <3>1. SUFFICES ASSUME v.lease.item = l.item PROVE FALSE
        OBVIOUS
      <3>2. PICK m \in Lease : m = v.lease
        BY <1>0
      <3>3. Waiting(m)
        BY <3>2 DEF WorkOK, WorkersOK
      <3>4. KeyOf(m) = KeyOf(l)
        BY <2>3, <2>4, <3>1, <3>2, <3>3, WaitingSame
      <3> QED BY <2>3, <3>2, <3>4
    <2>5. CASE FinalizeFiring(l)
      BY <2>2, <2>3, <2>4, <2>5, FinalizeStep
    <2>6. CASE UNCHANGED centralDb
      BY <1>kept, <2>2, <2>6, QuietStep DEF centralDb
    <2> QED BY <1>19, <2>1, <2>5, <2>6 DEF FinishTurn, FinalizeOrFail
  <1> QED BY <1>1, <1>2, <1>3, <1>4, <1>5, <1>6, <1>7, <1>8, <1>9, <1>10, <1>11,
             <1>12, <1>13, <1>14, <1>15, <1>16, <1>17, <1>18, <1>19
          DEF Next, Serve, Drain, TurnEffect

(* Slots in order is what the invariant says of the rows, without the work  *)
(* in hand; it leaves no recurrence halted.                                 *)
LEMMA InOrderGoesOn ==
    ASSUME TypeOK, ItemsOK PROVE SlotsInOrder /\ RecurrenceNeverHalts
PROOF
  <1> USE ConstantsAssumption
  <1>1. SlotsInOrder
    BY DEF ItemsOK, OccurrencesOK, SlotOf, SlotsInOrder
  <1>2. RecurrenceNeverHalts
    <2>1. SUFFICES ASSUME NEW i \in Recurring, item[i].status = "active", NEW s \in Seqs,
                          occ[i][s].status = "fired", occ[i][s].at = item[i].after
                   PROVE  FALSE
      BY DEF RecurrenceNeverHalts, AlreadyFired
    <2>2. item[i].after \in Nat /\ first[i] \in Int /\ s \in Int
      BY DEF TypeOK, ItemRow, Times, Seqs
    <2>3. first[i] + s - 1 < item[i].after /\ occ[i][s].at \in {NoTime, first[i] + s - 1}
      BY <2>1, ItemsOK DEF ItemsOK, OccurrencesOK, SlotOf
    <2> QED BY <2>1, <2>2, <2>3 DEF NoTime
  <1> QED BY <1>1, <1>2

(* The invariant holds of the empty tables and is kept by every step. *)
LEMMA RecurrenceInvariant ==
    ASSUME NothingGoesUntold PROVE Spec => []RecurrenceInv
PROOF
  <1>1. Init => RecurrenceInv
    <2> SUFFICES ASSUME Init PROVE RecurrenceInv
      OBVIOUS
    <2> USE ConstantsAssumption
    <2>1. ItemsOK
      <3>1. \A i \in Recurring : /\ item[i].status = "none" /\ source[i].status = "none"
                                 /\ \A s \in Seqs : occ[i][s].status = "none" /\ occ[i][s].at = NoTime
        BY DEF Init
      <3> QED BY <3>1 DEF ItemsOK, OccurrencesOK, SourceOK
    <2>2. LoopOK /\ LeasesOK /\ WorkersOK /\ CurrentOK /\ OpOK
      BY DEF Init, LoopOK, LeasesOK, WorkersOK, CurrentOK, OpOK
    <2> QED BY <2>1, <2>2 DEF RecurrenceInv
  <1>2. TypeOK /\ OneWorkerPerOccurrence /\ RecurrenceInv /\ [Next]_vars => RecurrenceInv'
    BY LoopStep, WorkStep DEF RecurrenceInv, WorkOK
  <1> QED BY <1>1, <1>2, SchedulerTypeCorrect, NoOverlappingWork, PTL DEF Spec

(* A recurring item never skips, repeats or shifts a slot and is never left *)
(* with its slot fired and nothing pending, over crashes, restarts, expired *)
(* leases, failed claims, turns, finalizations and repairs, provided that   *)
(* every fire is told to the source row and no gate can skip what runs in   *)
(* the background.                                                          *)
THEOREM RecurrencesGoOn ==
    ASSUME NothingGoesUntold
    PROVE  Spec => [](SlotsInOrder /\ RecurrenceNeverHalts)
PROOF
  <1>1. TypeOK /\ RecurrenceInv => SlotsInOrder /\ RecurrenceNeverHalts
    BY InOrderGoesOn DEF RecurrenceInv
  <1> QED BY <1>1, RecurrenceInvariant, SchedulerTypeCorrect, PTL

-----------------------------------------------------------------------------
(* One turn a slot *)

OneOffs == Items \ Recurring

\* A one-off has one occurrence, the first, for the slot it was created for.
OneOffOK(i) ==
    /\ item[i].status = "none" => \A s \in Seqs : occ[i][s].status = "none"
    /\ item[i].status # "none" => item[i].after = first[i]
    /\ source[i].status = "none" => item[i].status = "none"
    /\ source[i].status # "none" =>
         /\ source[i].after = first[i] /\ source[i].seq \in {0, 1}
         /\ source[i].seq = 1 => occ[i][1].status # "none"
    /\ \A s \in Seqs : occ[i][s].status # "none" => s = 1 /\ occ[i][s].at = first[i]

\* An occurrence of a one-off that is worked on is that one.
Held(l) ==
    l.item \in OneOffs =>
      /\ item[l.item].status # "none"
      /\ l.seq = 1 /\ l.at = first[l.item]
      /\ occ[l.item][1].status # "none"

OneOffInv ==
    /\ \A i \in OneOffs : OneOffOK(i)
    /\ \A l \in leases : Held(l)
    /\ current # NoOcc => Held(current)
    /\ op # NoOp /\ op.kind = "create" => source[op.item].status # "none"

\* A slot whose turn has handed over its replies has the key of its occurrence
\* consumed.
RanInv ==
    /\ twice = {}
    /\ \A k \in consumed : item[k.item].status # "none"
    /\ \A i \in Items, t \in Times : <<i, t>> \in ran =>
         \E s \in Seqs : [item |-> i, seq |-> s] \in consumed /\ t = SlotOf(i, s)

\* A row once written stays, and with it the slot it was created for.
Grows(i) ==
    /\ item[i].status # "none" => item'[i].status # "none" /\ first'[i] = first[i]
    /\ \A s \in Seqs : occ[i][s].status # "none" => occ'[i][s].status # "none"

\* The step leaves alone what the invariant says of a one-off's rows.
OneOffKept(i) ==
    /\ item[i].status = "none" <=> item'[i].status = "none"
    /\ item'[i].after = item[i].after
    /\ source[i].status = "none" <=> source'[i].status = "none"
    /\ source'[i].after = source[i].after
    /\ source'[i].seq = source[i].seq
    /\ first'[i] = first[i]
    /\ occ'[i] = occ[i]

(* A step that keeps a one-off's rows keeps what is said of them. *)
LEMMA KeptOneOff ==
    ASSUME NEW i, OneOffKept(i), OneOffOK(i) PROVE OneOffOK(i)' /\ Grows(i)
BY DEF OneOffKept, OneOffOK, Grows

(* What a sweep claims of a one-off is its first occurrence. *)
LEMMA ClaimsFirst ==
    ASSUME TypeOK, NEW l \in Claims, l.item \in OneOffs, OneOffOK(l.item)
    PROVE  /\ item[l.item].status # "none"
           /\ l.seq = 1 /\ 1 \in Seqs /\ l.at = first[l.item]
PROOF
  <1> USE ConstantsAssumption
  <1>1. PICK i \in Items : Due(i) /\ l \in NextClaimable(i)
    BY DEF Claims
  <1>2. l.item = i
    BY <1>1 DEF NextClaimable, LeaseOn
  <1>3. OneOffOK(i) /\ item[i].status = "active"
    BY <1>1, <1>2 DEF Due
  <1>4. item[i].after = first[i]
    BY <1>3 DEF OneOffOK
  <1>5. \A s \in Seqs : occ[i][s] \in OccRow
    BY <1>1 DEF TypeOK
  <1>6. CASE PendingSeqs(i) # {}
    <2>1. PICK s \in Highest(PendingSeqs(i)) :
             l = LeaseOn(i, s, IF occ[i][s].at = NoTime THEN item[i].after
                               ELSE occ[i][s].at)
      BY <1>1, <1>6 DEF NextClaimable
    <2>2. s \in Seqs /\ occ[i][s].status = "pending"
      BY DEF Highest, PendingSeqs
    <2>3. s = 1 /\ occ[i][s].at = first[i]
      BY <1>3, <2>2 DEF OneOffOK
    <2>4. l = LeaseOn(i, 1, first[i])
      BY <1>4, <2>1, <2>3
    <2> QED BY <1>3, <2>2, <2>3, <2>4 DEF LeaseOn
  <1>7. CASE PendingSeqs(i) = {}
    <2>1. ~AlreadyFired(i) /\ \E s \in NextSeq(i) : l = LeaseOn(i, s, item[i].after)
      BY <1>1, <1>7 DEF NextClaimable
    <2>2. PICK s \in NextSeq(i) : l = LeaseOn(i, s, item[i].after)
      BY <2>1
    <2>3. ExistingSeqs(i) = {}
      <3>1. SUFFICES ASSUME NEW t \in Seqs, occ[i][t].status # "none" PROVE FALSE
        BY DEF ExistingSeqs
      <3>2. occ[i][t].status = "fired"
        BY <1>5, <1>7, <3>1 DEF PendingSeqs, OccRow
      <3>3. occ[i][t].at = item[i].after
        BY <1>3, <1>4, <3>1 DEF OneOffOK
      <3> QED BY <2>1, <3>2, <3>3 DEF AlreadyFired
    <2>4. s = 1 /\ s \in Seqs
      BY <2>3 DEF NextSeq
    <2> QED BY <1>3, <1>4, <2>2, <2>4 DEF LeaseOn
  <1> QED BY <1>6, <1>7

(* acquire_lease keeps the one occurrence of a one-off. *)
LEMMA AcquireOneOff ==
    ASSUME TypeOK, NEW C, C \subseteq Claims, Acquire(C),
           UNCHANGED <<source, item, first>>,
           NEW i \in OneOffs, OneOffOK(i)
    PROVE  /\ OneOffOK(i)' /\ Grows(i)
           /\ \A l \in C : l.item = i => Held(l)'
PROOF
  <1> USE ConstantsAssumption
  <1>0. i \in Items
    BY DEF OneOffs
  <1>1. ASSUME NEW s \in Seqs
        PROVE  \/ /\ occ'[i][s] = occ[i][s]
                  /\ ~ \E l \in C : l.item = i /\ l.seq = s
               \/ /\ s = 1 /\ item[i].status # "none"
                  /\ occ'[i][s].status = "pending"
                  /\ occ'[i][s].at = first[i]
    <2>1. CASE \E l \in C : KeyOf(l) = [item |-> i, seq |-> s]
      <3> DEFINE l == CHOOSE x \in C : KeyOf(x) = [item |-> i, seq |-> s]
      <3>1. l \in C /\ KeyOf(l) = [item |-> i, seq |-> s]
        BY <2>1
      <3>2. occ'[i][s] = [status |-> "pending",
                          at     |-> IF occ[i][s].status = "none" THEN l.at
                                     ELSE occ[i][s].at,
                          leased |-> TRUE]
        BY <1>0, <2>1 DEF Acquire
      <3> HIDE DEF l
      <3>3. l.item = i /\ l.seq = s
        BY <3>1 DEF KeyOf
      <3>4. item[l.item].status # "none" /\ l.seq = 1 /\ l.at = first[l.item]
        BY <3>1, <3>3, ClaimsFirst
      <3>5. occ'[i][s].status = "pending"
        BY <3>2
      <3>6. occ'[i][s].at = IF occ[i][s].status = "none" THEN l.at ELSE occ[i][s].at
        BY <3>2
      <3>7. occ[i][s].status # "none" => occ[i][s].at = first[i]
        BY DEF OneOffOK
      <3> QED BY <3>3, <3>4, <3>5, <3>6, <3>7
    <2>2. CASE ~ \E l \in C : KeyOf(l) = [item |-> i, seq |-> s]
      <3>1. occ'[i][s] = occ[i][s]
        BY <1>0, <2>2 DEF Acquire
      <3>2. ~ \E l \in C : l.item = i /\ l.seq = s
        BY <2>2 DEF KeyOf
      <3> QED BY <3>1, <3>2
    <2> QED BY <2>1, <2>2
  <1>2. Grows(i)
    BY <1>1 DEF Grows
  <1>3. source[i].status # "none" /\ source[i].seq = 1 => 1 \in Seqs
    BY <1>0 DEF TypeOK, Meta, Seqs
  <1>4. OneOffOK(i)'
    BY <1>1, <1>3 DEF OneOffOK
  <1>5. ASSUME NEW l \in C, l.item = i PROVE Held(l)'
    <2>1. item[i].status # "none" /\ l.seq = 1 /\ 1 \in Seqs /\ l.at = first[i]
      BY <1>5, ClaimsFirst
    <2>2. occ'[i][1].status # "none"
      BY <1>1, <1>5, <2>1
    <2> QED BY <1>5, <2>1, <2>2 DEF Held
  <1> QED BY <1>2, <1>4, <1>5

(* No step takes a row of scheduled_items away or moves the slot an item    *)
(* was created for.                                                         *)
LEMMA ItemsStay ==
    ASSUME TypeOK,
           \A i \in Items \ Standing : source[i].status = "none" => item[i].status = "none",
           op # NoOp /\ op.kind = "create" => source[op.item].status # "none",
           [Next]_vars, NEW i \in Items, item[i].status # "none"
    PROVE  item'[i].status # "none" /\ first'[i] = first[i]
PROOF
  <1> USE ConstantsAssumption
  <1>0. item[i] \in ItemRow
    BY DEF TypeOK
  <1>1. CASE UNCHANGED <<item, first>>
    BY <1>1
  <1>2. ASSUME NEW failing, ServeStart(failing)
        PROVE  item'[i].status # "none" /\ first'[i] = first[i]
    <2>1. first'[i] = first[i]
      BY <1>2 DEF ServeStart
    <2>2. \/ item'[i] = item[i]
          \/ source[i].status # "none" /\ item'[i] = ReconciledItem(i)
      BY <1>2 DEF ServeStart
    <2> QED BY <2>1, <2>2 DEF ReconciledItem
  <1>3. ASSUME NEW l \in Lease, FinalizeOrFail(l), UNCHANGED first
        PROVE  item'[i].status # "none" /\ first'[i] = first[i]
    <2>1. l.item \in Items
      BY DEF Lease
    <2>2. \/ item'[i] = item[i]
          \/ item'[i] = [item[i] EXCEPT !.after = next_after(l.at)]
          \/ item'[i] = [item[i] EXCEPT !.status = "completed"]
      <3>1. \/ item' = item
            \/ item' = [item EXCEPT ![l.item].after = next_after(l.at)]
            \/ item' = [item EXCEPT ![l.item].status = "completed"]
        BY <1>3 DEF FinalizeOrFail, FinalizeFiring, centralDb
      <3> QED BY <2>1, <3>1 DEF TypeOK
    <2> QED BY <1>0, <1>3, <2>2 DEF ItemRow
  <1>4. ASSUME NEW j \in Items \ Standing, NEW t, WriteNewSource(j, t)
        PROVE  item'[i].status # "none" /\ first'[i] = first[i]
    <2>1. i # j
      BY <1>4 DEF WriteNewSource
    <2> QED BY <1>4, <2>1 DEF WriteNewSource, centralDb, TypeOK
  <1>5. CASE ProjectAction
    <2>1. op \in Action /\ UNCHANGED first
      BY <1>5 DEF ProjectAction, TypeOK
    <2>2. \/ item'[i] = item[i]
          \/ source[i].status # "none" /\ item'[i] = ReconciledItem(i)
          \/ op.kind # "create" /\ item'[i] = [item[i] EXCEPT !.status = Target(op.kind)]
      <3>1. op.item \in Items
        BY <2>1 DEF Action
      <3> QED BY <1>5, <3>1 DEF ProjectAction, TypeOK
    <2>3. op.kind # "create" => Target(op.kind) # "none"
      BY <2>1 DEF Action, Target
    <2> QED BY <1>0, <2>1, <2>2, <2>3 DEF ReconciledItem, ItemRow
  <1>6. \/ UNCHANGED <<item, first>>
        \/ \E failing : ServeStart(failing)
        \/ \E l \in Lease : FinalizeOrFail(l) /\ UNCHANGED first
        \/ \E j \in Items \ Standing, t \in {clock, clock + 1} : WriteNewSource(j, t)
        \/ ProjectAction
    <2>1. ASSUME NEW l \in leases, RunLease(l)
          PROVE  \/ UNCHANGED <<item, first>>
                 \/ \E m \in Lease : FinalizeOrFail(m) /\ UNCHANGED first
      <3>1. l \in Lease
        BY DEF TypeOK
      <3> QED BY <2>1, <3>1 DEF RunLease, GateSkips, LeaveLease, SkipInflight,
                 SpawnRunAs, InlineTurn, InlineTurnFails, centralDb
    <2>2. ASSUME NEW w \in workers, DrainErr(w)
          PROVE  \E m \in Lease : FinalizeOrFail(m) /\ UNCHANGED first
      <3>1. w.lease \in Lease
        BY DEF TypeOK
      <3> QED BY <2>2, <3>1 DEF DrainErr
    <2>3. CASE FinishTurn
      <3>1. current \in Lease
        BY <2>3 DEF FinishTurn, TypeOK
      <3> QED BY <2>3, <3>1 DEF FinishTurn
    <2> QED BY <2>1, <2>2, <2>3
            DEF Next, vars, centralDb, ClockTicks, LeaseExpires, Serve, Tick, Drain,
                DrainOk, EndUserTurn, RecordFired, ServeReturns, WorkerEnds, TurnEffect,
                TransitionSource, UserTurn, TickFails, Crash, StopRequested
  <1> QED BY <1>1, <1>2, <1>3, <1>4, <1>5, <1>6

(* Every step keeps the rows of the one-offs as they should be. *)
LEMMA OneOffRows ==
    ASSUME RunAs = {}, TypeOK, WorkOK, OneOffInv, [Next]_vars,
           NEW i \in OneOffs
    PROVE  /\ OneOffOK(i)'
           /\ \A s \in Seqs : occ[i][s].status # "none" => occ'[i][s].status # "none"
PROOF
  <1> USE ConstantsAssumption
  <1> DEFINE Goal == /\ OneOffOK(i)'
                     /\ \A s \in Seqs : occ[i][s].status # "none" => occ'[i][s].status # "none"
  <1>0. i \in Items /\ i \notin Recurring /\ i \notin Standing /\ OneOffOK(i)
    BY DEF OneOffs, OneOffInv
  <1>a. item[i] \in ItemRow /\ source[i] \in Meta /\ \A s \in Seqs : occ[i][s] \in OccRow
    BY <1>0 DEF TypeOK
  <1>b. source[i].seq = 1 => 1 \in Seqs
    BY <1>a DEF Meta, Seqs
  <1>k. ASSUME OneOffKept(i) PROVE Goal
    BY <1>0, <1>k, KeptOneOff DEF Grows
  <1>1. CASE UNCHANGED <<source, item, occ, first>>
    BY <1>k, <1>1 DEF OneOffKept
  <1>2. ASSUME NEW j \in Items, NEW t \in Seqs, LeaseExpires(j, t) PROVE Goal
    <2>1. ASSUME NEW s \in Seqs
          PROVE  occ'[i][s].status = occ[i][s].status /\ occ'[i][s].at = occ[i][s].at
      <3>1. \/ occ'[i][s] = occ[i][s]
            \/ occ'[i][s] = [occ[i][s] EXCEPT !.leased = FALSE]
        BY <1>0, <1>2 DEF LeaseExpires, TypeOK
      <3> QED BY <1>a, <3>1 DEF OccRow
    <2>2. UNCHANGED <<source, item, first>>
      BY <1>2 DEF LeaseExpires
    <2>3. OneOffOK(i)'
      BY <1>0, <1>b, <2>1, <2>2 DEF OneOffOK
    <2> QED BY <2>1, <2>3
  <1>3. ASSUME NEW failing, ServeStart(failing) PROVE Goal
    <2>1. first'[i] = first[i] /\ source' = source
      BY <1>0, <1>3 DEF ServeStart
    <2>2. CASE source[i].status # "none" /\ SessionOf[i] \notin failing
      <3>1. item'[i] = ReconciledItem(i) /\ occ'[i] = ReconciledOccs(i)
        BY <1>0, <1>3, <2>2 DEF ServeStart
      <3>2. item'[i].status # "none" /\ item'[i].after = first[i]
        BY <1>0, <2>2, <3>1 DEF ReconciledItem, OneOffOK
      <3>3. ASSUME NEW s \in Seqs
            PROVE  /\ occ'[i][s].at = occ[i][s].at
                   /\ occ'[i][s].status = IF s = source[i].seq THEN "fired"
                        ELSE IF s > source[i].seq /\ occ[i][s].status = "fired"
                        THEN "pending" ELSE occ[i][s].status
        <4>1. \E x \in {"none", "pending", "fired"} :
                 /\ occ'[i][s] = [occ[i][s] EXCEPT !.status = x]
                 /\ x = IF s = source[i].seq THEN "fired"
                        ELSE IF s > source[i].seq /\ occ[i][s].status = "fired"
                        THEN "pending" ELSE occ[i][s].status
          BY <1>a, <3>1 DEF ReconciledOccs, OccRow
        <4> QED BY <1>a, <4>1 DEF OccRow
      <3>4. ASSUME NEW s \in Seqs
            PROVE  /\ occ[i][s].status # "none" => occ'[i][s].status # "none"
                   /\ occ'[i][s].status # "none" => s = 1 /\ occ'[i][s].at = first[i]
        <4>1. s # 0
          BY DEF Seqs
        <4> QED BY <1>0, <2>2, <3>3, <4>1 DEF OneOffOK
      <3>5. OneOffOK(i)'
        BY <1>0, <1>b, <2>1, <2>2, <3>2, <3>4 DEF OneOffOK
      <3> QED BY <3>4, <3>5
    <2>3. CASE ~(source[i].status # "none" /\ SessionOf[i] \notin failing)
      <3>1. item'[i] = item[i] /\ occ'[i] = occ[i]
        BY <1>0, <1>3, <2>3 DEF ServeStart
      <3> QED BY <1>k, <2>1, <3>1 DEF OneOffKept
    <2> QED BY <2>2, <2>3
  <1>4. ASSUME NEW C \in SUBSET Claims, Acquire(C), UNCHANGED <<source, item, first>>
        PROVE  Goal
    BY <1>0, <1>4, AcquireOneOff DEF Grows
  <1>5. ASSUME NEW l \in leases, GateSkips(l) PROVE Goal
    <2>1. l.item # i /\ l.item \in Items /\ UNCHANGED <<source, first>>
      BY <1>0, <1>5 DEF GateSkips
    <2>2. item'[i] = item[i] /\ occ'[i] = occ[i]
      BY <1>0, <1>5, <2>1 DEF GateSkips, FinalizeOrFail, FinalizeFiring, centralDb, TypeOK
    <2> QED BY <1>k, <2>1, <2>2 DEF OneOffKept
  <1>6. ASSUME NEW j \in Items, NEW t \in {clock, clock + 1}, WriteNewSource(j, t)
        PROVE  Goal
    <2>1. /\ source[j].status = "none"
          /\ source' = [source EXCEPT ![j] = [status |-> "active", after |-> t, seq |-> 0]]
          /\ first' = [first EXCEPT ![j] = t]
          /\ UNCHANGED <<item, occ>>
      BY <1>6 DEF WriteNewSource, centralDb
    <2>2. CASE i # j
      BY <1>0, <1>k, <2>1, <2>2 DEF OneOffKept, TypeOK
    <2>3. CASE i = j
      <3>1. source'[i] = [status |-> "active", after |-> t, seq |-> 0] /\ first'[i] = t
        BY <1>0, <2>1, <2>3 DEF TypeOK
      <3>2. item[i].status = "none" /\ \A s \in Seqs : occ[i][s].status = "none"
        BY <1>0, <2>1, <2>3 DEF OneOffOK
      <3>3. OneOffOK(i)'
        BY <2>1, <3>1, <3>2 DEF OneOffOK
      <3> QED BY <2>1, <3>3
    <2> QED BY <2>2, <2>3
  <1>7. ASSUME NEW kind \in {"cancel", "pause", "resume"}, NEW j \in Items,
               TransitionSource(kind, j)
        PROVE  Goal
    <2>1. \/ source'[i] = source[i]
          \/ /\ source[i].status # "none" /\ source'[i] = [source[i] EXCEPT !.status = Target(kind)]
      BY <1>0, <1>7 DEF TransitionSource, TypeOK, Legal
    <2>2. Target(kind) # "none"
      BY DEF Target
    <2>3. UNCHANGED <<item, occ, first>>
      BY <1>7 DEF TransitionSource, centralDb
    <2> QED BY <1>a, <1>k, <2>1, <2>2, <2>3 DEF OneOffKept, Meta
  <1>8. CASE ProjectAction
    <2>1. op \in Action /\ UNCHANGED <<source, occ, first>>
      BY <1>8 DEF ProjectAction, TypeOK
    <2>2. \/ item'[i] = item[i]
          \/ source[i].status # "none" /\ item'[i] = ReconciledItem(i)
          \/ /\ item[i].status # "none" /\ op.kind # "create"
             /\ item'[i] = [item[i] EXCEPT !.status = Target(op.kind)]
      <3>1. op.item \in Items
        BY <2>1 DEF Action
      <3>2. op # NoOp
        BY <1>8 DEF ProjectAction
      <3> QED BY <1>0, <1>8, <3>1, <3>2 DEF ProjectAction, TypeOK, OneOffInv, Legal
    <2>3. op.kind # "create" => Target(op.kind) # "none"
      BY <2>1 DEF Action, Target
    <2>4. CASE source[i].status # "none" /\ item'[i] = ReconciledItem(i)
      <3>1. item'[i].status # "none" /\ item'[i].after = first[i]
        BY <1>0, <2>4 DEF ReconciledItem, OneOffOK
      <3>2. OneOffOK(i)'
        BY <1>0, <2>1, <2>4, <3>1 DEF OneOffOK
      <3> QED BY <2>1, <3>2
    <2>5. CASE /\ item[i].status # "none" /\ op.kind # "create"
               /\ item'[i] = [item[i] EXCEPT !.status = Target(op.kind)]
      <3>1. item'[i].status # "none" /\ item'[i].after = item[i].after
        BY <1>a, <2>3, <2>5 DEF ItemRow
      <3> QED BY <1>k, <2>1, <2>5, <3>1 DEF OneOffKept
    <2>6. CASE item'[i] = item[i]
      BY <1>k, <2>1, <2>6 DEF OneOffKept
    <2> QED BY <2>2, <2>4, <2>5, <2>6
  <1>9. CASE RecordFired
    <2>1. PICK c \in Lease : c = current
      BY <1>9 DEF RecordFired, TypeOK
    <2>2. UNCHANGED <<item, occ, first>>
      BY <1>9 DEF RecordFired, centralDb
    <2>3. CASE source'[i] = source[i]
      BY <1>k, <2>2, <2>3 DEF OneOffKept
    <2>4. CASE source'[i] # source[i]
      <3>1. c.item = i /\ source[i].status # "none" /\ source'[i] = Fired(source[i], c)
        BY <1>0, <1>9, <2>1, <2>4 DEF RecordFired, TypeOK
      <3>2. c.seq = 1 /\ occ[i][1].status # "none"
        BY <1>9, <2>1, <3>1 DEF RecordFired, OneOffInv, Held
      <3>3. /\ source'[i].status = "completed" /\ source'[i].seq = 1
            /\ source'[i].after = source[i].after
        BY <1>0, <1>a, <3>1, <3>2 DEF Fired, Meta
      <3>4. OneOffOK(i)'
        BY <1>0, <2>2, <3>1, <3>2, <3>3 DEF OneOffOK
      <3> QED BY <2>2, <3>4
    <2> QED BY <2>3, <2>4
  <1>10. CASE FinishTurn
    <2>1. PICK c \in Lease : c = current /\ c.item \in Items /\ c.seq \in Seqs
      BY <1>10 DEF FinishTurn, TypeOK, Lease
    <2>2. UNCHANGED <<source, first>> /\ FinalizeOrFail(c) /\ current # NoOcc
      BY <1>10, <2>1 DEF FinishTurn, TypeOK
    <2>3. CASE c.item # i \/ UNCHANGED centralDb
      <3>1. item'[i] = item[i] /\ occ'[i] = occ[i]
        BY <1>0, <2>1, <2>2, <2>3 DEF FinalizeOrFail, FinalizeFiring, centralDb, TypeOK
      <3> QED BY <1>k, <2>2, <3>1 DEF OneOffKept
    <2>4. CASE c.item = i /\ FinalizeFiring(c)
      <3>1. c.seq = 1 /\ occ[i][1].status # "none" /\ item[i].status # "none"
        BY <2>1, <2>2, <2>4 DEF OneOffInv, Held
      <3>2. item'[i].status # "none" /\ item'[i].after = item[i].after
        <4>1. item'[i] = item[i] \/ item'[i] = [item[i] EXCEPT !.status = "completed"]
          BY <1>0, <2>4 DEF FinalizeFiring, TypeOK
        <4> QED BY <1>a, <3>1, <4>1 DEF ItemRow
      <3>3. ASSUME NEW s \in Seqs
            PROVE  /\ occ'[i][s].at = occ[i][s].at
                   /\ occ'[i][s].status = IF s = 1 THEN "fired" ELSE occ[i][s].status
        <4>1. occ'[i][s] = IF s = 1 THEN [occ[i][s] EXCEPT !.status = "fired", !.leased = FALSE]
                           ELSE occ[i][s]
          BY <1>0, <2>1, <2>4, <3>1 DEF TypeOK, FinalizeFiring
        <4> QED BY <1>a, <4>1 DEF OccRow
      <3>4. 1 \in Seqs
        BY <2>1, <3>1
      <3>5. OneOffOK(i)'
        BY <1>0, <2>2, <3>1, <3>2, <3>3, <3>4 DEF OneOffOK
      <3> QED BY <3>3, <3>5
    <2> QED BY <2>2, <2>3, <2>4 DEF FinalizeOrFail
  <1>11. ASSUME NEW w \in workers, DrainErr(w) PROVE Goal
    BY DEF WorkOK, WorkersOK
  <1>12. \/ UNCHANGED <<source, item, occ, first>>
         \/ \E j \in Items, t \in Seqs : LeaseExpires(j, t)
         \/ \E failing : ServeStart(failing)
         \/ \E C \in SUBSET Claims : Acquire(C) /\ UNCHANGED <<source, item, first>>
         \/ \E l \in leases : GateSkips(l)
         \/ \E j \in Items, t \in {clock, clock + 1} : WriteNewSource(j, t)
         \/ \E kind \in {"cancel", "pause", "resume"}, j \in Items : TransitionSource(kind, j)
         \/ ProjectAction \/ RecordFired \/ FinishTurn
         \/ \E w \in workers : DrainErr(w)
    <2>1. CASE Tick
      BY <2>1 DEF Tick
    <2>2. CASE TickFails
      BY <2>2 DEF TickFails
    <2>3. ASSUME NEW l \in leases, RunLease(l)
          PROVE  UNCHANGED <<source, item, occ, first>> \/ GateSkips(l)
      BY <2>3 DEF RunLease, LeaveLease, SkipInflight, SpawnRunAs, InlineTurn,
                  InlineTurnFails, centralDb
    <2> QED BY <2>1, <2>2, <2>3
            DEF Next, vars, centralDb, ClockTicks, Serve, Drain, DrainOk,
                EndUserTurn, ServeReturns, WorkerEnds, TurnEffect,
                UserTurn, Crash, StopRequested
  <1> QED BY <1>1, <1>2, <1>3, <1>4, <1>5, <1>6, <1>7, <1>8, <1>9, <1>10, <1>11, <1>12

(* A one-off's occurrence that is worked on stays its occurrence. *)
LEMMA HeldKept ==
    ASSUME NEW l \in Lease, Held(l), \A s \in Seqs : occ[l.item][s].status # "none" =>
                                                     occ'[l.item][s].status # "none",
           item'[l.item].status # "none" /\ first'[l.item] = first[l.item]
    PROVE  Held(l)'
PROOF
  <1>1. SUFFICES ASSUME l.item \in OneOffs PROVE Held(l)'
    BY DEF Held, OneOffs
  <1>2. l.seq = 1 /\ l.seq \in Seqs /\ occ[l.item][1].status # "none"
    BY <1>1 DEF Held, Lease
  <1>3. occ'[l.item][1].status # "none"
    BY <1>2
  <1> QED BY <1>1, <1>3 DEF Held

(* Every step keeps a turn a slot, when no item runs in the background. *)
LEMMA RunsOnceStep ==
    ASSUME RunAs = {}, TypeOK, LoopOK, WorkOK, OneOffInv, RanInv, [Next]_vars
    PROVE  OneOffInv' /\ RanInv'
PROOF
  <1> USE ConstantsAssumption
  <1>0. /\ \A l \in leases : l \in Lease
        /\ current # NoOcc => current \in Lease
        /\ workers = {}
    BY DEF TypeOK, WorkOK, WorkersOK
  <1>1. \A i \in OneOffs :
           /\ OneOffOK(i)'
           /\ \A s \in Seqs : occ[i][s].status # "none" => occ'[i][s].status # "none"
    BY OneOffRows
  <1>2. \A i \in Items \ Standing : source[i].status = "none" => item[i].status = "none"
    BY DEF WorkOK, ItemsOK, SourceOK, OneOffInv, OneOffOK, OneOffs
  <1>3. op # NoOp /\ op.kind = "create" => source[op.item].status # "none"
    BY DEF OneOffInv
  <1>4. \A i \in Items : item[i].status # "none" =>
                            item'[i].status # "none" /\ first'[i] = first[i]
    BY <1>2, <1>3, ItemsStay
  <1>5. ASSUME NEW l \in Lease, Held(l) PROVE Held(l)'
    <2>1. SUFFICES ASSUME l.item \in OneOffs PROVE Held(l)'
      BY DEF Held, OneOffs
    <2>2. l.item \in Items /\ item[l.item].status # "none"
      BY <1>5, <2>1 DEF Held, OneOffs
    <2>3. item'[l.item].status # "none" /\ first'[l.item] = first[l.item]
      BY <1>4, <2>2
    <2>4. \A s \in Seqs : occ[l.item][s].status # "none" => occ'[l.item][s].status # "none"
      BY <1>1, <2>1
    <2> QED BY <1>5, <2>3, <2>4, HeldKept
  <1>6. \A l \in leases' : Held(l)'
    <2>1. CASE leases' \subseteq leases
      BY <1>0, <1>5, <2>1 DEF OneOffInv
    <2>2. CASE Tick
      <3>1. SUFFICES ASSUME NEW l \in Claims PROVE Held(l)'
        BY <2>2 DEF Tick
      <3>2. CASE l.item \in OneOffs
        <4>1. /\ Acquire(Claims) /\ UNCHANGED <<source, item, first>>
              /\ OneOffOK(l.item)
          BY <2>2, <3>2 DEF Tick, OneOffInv
        <4> QED BY <3>2, <4>1, AcquireOneOff
      <3>3. CASE l.item \notin OneOffs
        BY <3>3 DEF Held, OneOffs
      <3> QED BY <3>2, <3>3
    <2>3. leases' \subseteq leases \/ Tick
      BY DEF Next, vars, process, ClockTicks, LeaseExpires, ServeStart, Serve, RunLease,
             GateSkips, LeaveLease, SkipInflight, SpawnRunAs, InlineTurn, InlineTurnFails,
             Drop, Drain, DrainOk, DrainErr, ProjectAction, EndUserTurn, RecordFired,
             FinishTurn, ServeReturns, ProcessGone, WorkerEnds, TurnEffect, WriteNewSource,
             TransitionSource, UserTurn, TickFails, Crash, StopRequested
    <2> QED BY <2>1, <2>2, <2>3
  <1>7. \/ UNCHANGED <<consumed, ran, twice>> /\ current' \in {current, NoOcc}
        \/ \E l \in leases : InlineTurn(l)
    BY <1>0
    DEF Next, vars, process, ClockTicks, LeaseExpires, ServeStart, Serve, RunLease, Tick,
        GateSkips, LeaveLease, SkipInflight, SpawnRunAs, InlineTurnFails,
        Drop, Drain, ProjectAction, EndUserTurn, RecordFired,
        FinishTurn, ServeReturns, ProcessGone, TurnEffect, WriteNewSource,
        TransitionSource, UserTurn, TickFails, Crash, StopRequested
  <1>8. current' # NoOcc => Held(current)'
    <2>1. SUFFICES ASSUME current' # NoOcc PROVE Held(current)'
      OBVIOUS
    <2>2. PICK c \in Lease : c = current' /\ Held(c)
      BY <1>0, <1>7, <2>1 DEF OneOffInv, InlineTurn, ApplyReplies
    <2>3. Held(c)'
      BY <1>5, <2>2
    <2> QED BY <2>2, <2>3 DEF Held
  <1>9. op' # NoOp /\ op'.kind = "create" => source'[op'.item].status # "none"
    <2>1. SUFFICES ASSUME op' # NoOp, op'.kind = "create"
                   PROVE  source'[op'.item].status # "none"
      OBVIOUS
    <2>2. CASE op' = op /\ source' = source
      BY <2>1, <2>2 DEF OneOffInv
    <2>3. ASSUME NEW i \in Items, NEW t, WriteNewSource(i, t)
          PROVE  source'[op'.item].status # "none"
      BY <2>3 DEF WriteNewSource, TypeOK
    <2>4. \/ op' = op /\ source' = source
          \/ \E i \in Items, t \in {clock, clock + 1} : WriteNewSource(i, t)
      <3>1. ASSUME NEW kind \in {"cancel", "pause", "resume"}, NEW i, TransitionSource(kind, i)
            PROVE  op'.kind # "create"
        BY <3>1 DEF TransitionSource
      <3>2. ProjectAction => op' = NoOp
        BY DEF ProjectAction
      <3>3. RecordFired => op' = NoOp
        BY DEF RecordFired
      <3>4. ProcessGone => op' = NoOp
        BY DEF ProcessGone
      <3> QED BY <2>1, <3>1, <3>2, <3>3, <3>4
          DEF Next, vars, process, ClockTicks, LeaseExpires, ServeStart, Serve, RunLease, Tick,
              GateSkips, LeaveLease, SkipInflight, SpawnRunAs, InlineTurn, InlineTurnFails,
              Drain, DrainOk, DrainErr, ApplyReplies, EndUserTurn, WorkerEnds,
              FinishTurn, ServeReturns, TurnEffect, UserTurn, TickFails, Crash, StopRequested
    <2> QED BY <2>2, <2>3, <2>4
  <1>10. OneOffInv'
    BY <1>1, <1>6, <1>8, <1>9 DEF OneOffInv
  <1>11. ASSUME NEW i \in Items, NEW s, [item |-> i, seq |-> s] \in consumed
         PROVE  SlotOf(i, s)' = SlotOf(i, s) /\ item'[i].status # "none"
    <2>1. item[i].status # "none"
      BY <1>11 DEF RanInv
    <2> QED BY <1>4, <2>1 DEF SlotOf
  <1>12. CASE UNCHANGED <<consumed, ran, twice>>
    <2>1. twice' = {} /\ \A k \in consumed' : item'[k.item].status # "none"
      BY <1>4, <1>12 DEF RanInv, TypeOK, Key
    <2>2. ASSUME NEW i \in Items, NEW t \in Times, <<i, t>> \in ran'
          PROVE  \E s \in Seqs : [item |-> i, seq |-> s] \in consumed' /\ t = SlotOf(i, s)'
      <3>1. PICK s \in Seqs : [item |-> i, seq |-> s] \in consumed /\ t = SlotOf(i, s)
        BY <1>12, <2>2 DEF RanInv
      <3> QED BY <1>11, <1>12, <3>1
    <2> QED BY <1>10, <2>1, <2>2 DEF RanInv
  <1>13. ASSUME NEW l \in leases, InlineTurn(l) PROVE RanInv'
    <2>0. l \in Lease /\ l.item \in Items /\ l.seq \in Seqs /\ l.at \in Times
      BY <1>0 DEF Lease, Times, Slots
    <2>1. /\ consumed' = consumed \cup {KeyOf(l)} /\ KeyOf(l) \notin consumed
          /\ ran' = ran \cup {<<l.item, l.at>>}
          /\ twice' = IF <<l.item, l.at>> \in ran THEN twice \cup {<<l.item, l.at>>} ELSE twice
      BY <1>13 DEF InlineTurn, ApplyReplies
    <2>2. first[l.item] \in Int /\ \A s \in Seqs : s \in Int
      BY <2>0 DEF TypeOK, Times, Seqs
    <2>3. item[l.item].status # "none" /\ l.at = SlotOf(l.item, l.seq)
      <3>1. CASE l.item \in Recurring
        BY <3>1 DEF WorkOK, LeasesOK, Waiting
      <3>2. CASE l.item \in OneOffs
        BY <2>2, <3>2 DEF OneOffInv, Held, SlotOf
      <3> QED BY <2>0, <3>1, <3>2 DEF OneOffs
    <2>4. <<l.item, l.at>> \notin ran
      <3>1. SUFFICES ASSUME <<l.item, l.at>> \in ran PROVE FALSE
        OBVIOUS
      <3>2. PICK s \in Seqs : [item |-> l.item, seq |-> s] \in consumed /\ l.at = SlotOf(l.item, s)
        BY <2>0, <3>1 DEF RanInv
      <3>3. s = l.seq
        BY <2>0, <2>2, <2>3, <3>2 DEF SlotOf
      <3> QED BY <2>1, <3>2, <3>3 DEF KeyOf
    <2>5. twice' = {}
      BY <2>1, <2>4 DEF RanInv
    <2>6. item'[l.item].status # "none" /\ SlotOf(l.item, l.seq)' = SlotOf(l.item, l.seq)
      BY <1>4, <2>0, <2>3 DEF SlotOf
    <2>7. \A k \in consumed' : item'[k.item].status # "none"
      <3>1. KeyOf(l).item = l.item
        BY DEF KeyOf
      <3>2. \A k \in consumed : item'[k.item].status # "none"
        BY <1>4 DEF RanInv, TypeOK, Key
      <3> QED BY <2>1, <2>6, <3>1, <3>2
    <2>8. ASSUME NEW i \in Items, NEW t \in Times, <<i, t>> \in ran'
          PROVE  \E s \in Seqs : [item |-> i, seq |-> s] \in consumed' /\ t = SlotOf(i, s)'
      <3>1. CASE <<i, t>> \in ran
        <4>1. PICK s \in Seqs : [item |-> i, seq |-> s] \in consumed /\ t = SlotOf(i, s)
          BY <3>1 DEF RanInv
        <4> QED BY <1>11, <2>1, <4>1
      <3>2. CASE i = l.item /\ t = l.at
        <4>1. [item |-> i, seq |-> l.seq] \in consumed'
          BY <2>1, <3>2 DEF KeyOf
        <4> QED BY <2>0, <2>3, <2>6, <3>2, <4>1
      <3> QED BY <2>1, <2>8, <3>1, <3>2
    <2> QED BY <2>5, <2>7, <2>8 DEF RanInv
  <1> QED BY <1>7, <1>10, <1>12, <1>13

(* "Fire any due scheduled items, exactly once each": no two turns hand     *)
(* over replies for the same slot of the same item, over every crash,       *)
(* restart, expired lease, repair and failed write of the projection, when  *)
(* no item runs in the background and every fire is told to the source row. *)
THEOREM EachSlotOnce ==
    ASSUME RunAs = {}, "source_error" \notin Faults
    PROVE  Spec => []SlotRunsOnce
PROOF
  <1>0. NothingGoesUntold
    BY DEF NothingGoesUntold
  <1>1. Init => OneOffInv /\ RanInv
    <2> SUFFICES ASSUME Init PROVE OneOffInv /\ RanInv
      OBVIOUS
    <2>1. OneOffInv
      <3>1. \A i \in OneOffs : /\ item[i].status = "none" /\ source[i].status = "none"
                               /\ \A s \in Seqs : occ[i][s].status = "none"
        BY DEF Init, OneOffs
      <3> QED BY <3>1 DEF Init, OneOffInv, OneOffOK
    <2>2. RanInv
      BY DEF Init, RanInv
    <2> QED BY <2>1, <2>2
  <1>2. TypeOK /\ RecurrenceInv /\ (OneOffInv /\ RanInv) /\ [Next]_vars
          => (OneOffInv /\ RanInv)'
    BY RunsOnceStep DEF RecurrenceInv, WorkOK
  <1>3. RanInv => SlotRunsOnce
    BY DEF RanInv, SlotRunsOnce
  <1>4. Spec => []RecurrenceInv
    BY <1>0, RecurrenceInvariant
  <1> QED BY <1>1, <1>2, <1>3, <1>4, SchedulerTypeCorrect, PTL DEF Spec

-----------------------------------------------------------------------------
(* Ended for good *)

\* When an end is told to the source row: the fire of a one-off always is, and
\* a turn acts on the items of its own session only, there being no other.
EndsAreTold ==
    /\ "source_error" \notin Faults
    /\ OneOffs \cap RunAs = {} \/ "worker_error" \notin Faults
    /\ \A i \in Items, s \in Sessions : SessionOf[i] = s

\* No source row of the item, if it has one, brings it back.
Over(i) == source[i].status \in Terminal \cup {"none"}

EndedInv ==
    /\ \A i \in Items : item[i].status \in Terminal => Over(i)
    /\ \A i \in Items \ Standing : source[i].status = "none" => item[i].status = "none"
    /\ op # NoOp /\ op.kind = "create" =>
         source[op.item].status # "none" /\ item[op.item].status = "none"
    /\ op # NoOp /\ op.kind = "cancel" => Over(op.item)
    /\ pc = "finalize" /\ current.item \in OneOffs => Over(current.item)
    /\ pc = "effects" => acting \in Sessions
    /\ \A w \in workers : /\ w.lease.item \in RunAs
                          /\ w.state = "err" => "worker_error" \in Faults

(* The place of the serve loop, over all behaviours. *)
LEMMA LoopInvariant == Spec => []LoopOK
PROOF
  <1>1. Init => LoopOK
    BY DEF Init, LoopOK
  <1>2. TypeOK /\ LoopOK /\ [Next]_vars => LoopOK'
    BY LoopStep
  <1> QED BY <1>1, <1>2, SchedulerTypeCorrect, PTL DEF Spec

(* The replies that are applied are those of a session. *)
LEMMA ActingStep ==
    ASSUME TypeOK, pc = "effects" => acting \in Sessions, [Next]_vars
    PROVE  pc' = "effects" => acting' \in Sessions
PROOF
  <1> USE ConstantsAssumption
  <1>1. \A l \in Lease : SessionOf[l.item] \in Sessions
    BY DEF Lease
  <1>2. /\ \A l \in leases : l \in Lease
        /\ \A w \in workers : w.lease \in Lease
    BY DEF TypeOK
  <1>3. ASSUME NEW l \in leases, InlineTurn(l) PROVE acting' \in Sessions
    BY <1>1, <1>2, <1>3 DEF InlineTurn, ApplyReplies
  <1>4. ASSUME NEW w \in workers, DrainOk(w) PROVE acting' \in Sessions
    BY <1>1, <1>2, <1>4 DEF DrainOk, ApplyReplies
  <1>5. \/ pc' # "effects"
        \/ pc = "effects" /\ acting' = acting
        \/ \E l \in leases : InlineTurn(l)
        \/ \E w \in workers : DrainOk(w)
        \/ \E s \in Sessions : UserTurn(s)
    BY DEF Next, vars, process, ClockTicks, LeaseExpires, ServeStart, Serve, RunLease, Tick,
            GateSkips, LeaveLease, SkipInflight, SpawnRunAs, InlineTurnFails,
            Drop, Drain, DrainErr, ProjectAction, EndUserTurn, RecordFired,
            WorkerEnds, FinishTurn, ServeReturns, ProcessGone, TurnEffect, WriteNewSource,
            TransitionSource, TickFails, Crash, StopRequested
  <1> QED BY <1>3, <1>4, <1>5 DEF UserTurn

(* What a step does to the rows of an item: an end stays an end, in either  *)
(* store, and the source row has it before the projection.                  *)
LEMMA EndedRows ==
    ASSUME EndsAreTold, TypeOK, LoopOK, EndedInv, [Next]_vars, NEW i \in Items
    PROVE  /\ item[i].status \in Terminal => item'[i].status \in Terminal
           /\ Over(i) /\ source[i].status # "none" => Over(i)'
           /\ item'[i].status \in Terminal => Over(i)'
           /\ i \notin Standing /\ source'[i].status = "none" => item'[i].status = "none"
PROOF
  <1> USE ConstantsAssumption
  <1> DEFINE Goal ==
        /\ item[i].status \in Terminal => item'[i].status \in Terminal
        /\ Over(i) /\ source[i].status # "none" => Over(i)'
        /\ item'[i].status \in Terminal => Over(i)'
        /\ i \notin Standing /\ source'[i].status = "none" => item'[i].status = "none"
  <1>0. /\ item[i] \in ItemRow /\ source[i] \in Meta
        /\ item[i].status \in Terminal => Over(i)
        /\ i \notin Standing /\ source[i].status = "none" => item[i].status = "none"
    BY DEF TypeOK, EndedInv
  <1>k. ASSUME source'[i].status = source[i].status, item'[i].status = item[i].status PROVE Goal
    BY <1>0, <1>k DEF Over
  <1>1. CASE UNCHANGED <<source, item>>
    BY <1>k, <1>1
  <1>2. ASSUME NEW failing, ServeStart(failing) PROVE Goal
    <2>1. source' = source
      BY <1>2 DEF ServeStart
    <2>2. \/ item'[i] = item[i]
          \/ i \in Standing /\ item[i].status = "none" /\ item'[i].status = "active"
          \/ source[i].status # "none" /\ item'[i].status = source[i].status
      BY <1>2 DEF ServeStart, ReconciledItem
    <2>3. CASE i \in Standing /\ item[i].status = "none" /\ item'[i].status = "active"
      BY <2>1, <2>3 DEF Over, Terminal
    <2>4. CASE source[i].status # "none" /\ item'[i].status = source[i].status
      BY <1>0, <2>1, <2>4 DEF Over
    <2> QED BY <1>k, <2>1, <2>2, <2>3, <2>4
  <1>3. ASSUME NEW l \in Lease, FinalizeOrFail(l), UNCHANGED source,
               l.item \in OneOffs => Over(l.item)
        PROVE  Goal
    <2>1. l.item \in Items
      BY DEF Lease
    <2>2. \/ item' = item
          \/ item' = [item EXCEPT ![l.item].after = next_after(l.at)]
          \/ /\ l.item \in OneOffs /\ item[l.item].status = "active"
             /\ item' = [item EXCEPT ![l.item].status = "completed"]
      BY <1>3, <2>1 DEF FinalizeOrFail, FinalizeFiring, centralDb, OneOffs
    <2>3. \/ item'[i].status = item[i].status
          \/ /\ i \in OneOffs /\ i = l.item /\ item[i].status = "active"
             /\ item'[i].status = "completed"
      BY <1>0, <2>1, <2>2 DEF TypeOK, ItemRow
    <2>4. CASE /\ i \in OneOffs /\ i = l.item /\ item[i].status = "active"
               /\ item'[i].status = "completed"
      <3>1. i \notin Standing
        BY <2>4 DEF OneOffs
      <3>2. source[i].status # "none"
        BY <1>0, <2>4, <3>1
      <3> QED BY <1>3, <2>4, <3>1, <3>2 DEF Over, Terminal
    <2> QED BY <1>3, <1>k, <2>3, <2>4
  <1>4. ASSUME NEW j \in Items \ Standing, NEW t, WriteNewSource(j, t) PROVE Goal
    <2>1. /\ source[j].status = "none" /\ item' = item
          /\ source' = [source EXCEPT ![j] = [status |-> "active", after |-> t, seq |-> 0]]
      BY <1>4 DEF WriteNewSource, centralDb
    <2>2. CASE i = j
      <3>1. source'[i].status = "active" /\ item[i].status = "none"
        BY <1>0, <2>1, <2>2 DEF TypeOK
      <3> QED BY <2>1, <2>2, <3>1 DEF Terminal
    <2>3. CASE i # j
      BY <1>k, <2>1, <2>3 DEF TypeOK
    <2> QED BY <2>2, <2>3
  <1>5. ASSUME NEW kind \in {"cancel", "pause", "resume"}, NEW j \in Items,
               TransitionSource(kind, j)
        PROVE  Goal
    <2>1. item' = item
      BY <1>5 DEF TransitionSource, centralDb
    <2>2. \/ source'[i] = source[i]
          \/ /\ source[i].status \notin Terminal \cup {"none"}
             /\ source'[i] = [source[i] EXCEPT !.status = Target(kind)]
      BY <1>5 DEF TransitionSource, TypeOK, Legal, Terminal
    <2>3. CASE /\ source[i].status \notin Terminal \cup {"none"}
               /\ source'[i] = [source[i] EXCEPT !.status = Target(kind)]
      <3>1. source'[i].status # "none"
        BY <1>0, <2>3 DEF Target, Meta
      <3>2. item[i].status \notin Terminal /\ ~Over(i)
        BY <1>0, <2>3 DEF Over
      <3> QED BY <2>1, <3>1, <3>2
    <2> QED BY <1>k, <2>1, <2>2, <2>3
  <1>6. CASE ProjectAction
    <2>1. op \in Action /\ op # NoOp /\ UNCHANGED source
      BY <1>6 DEF ProjectAction, TypeOK
    <2>2. op.item \in Items
      BY <2>1 DEF Action
    <2>3. \/ item'[i] = item[i]
          \/ i = op.item /\ op.kind = "create" /\ item'[i] = ReconciledItem(i)
          \/ /\ i = op.item /\ op.kind # "create" /\ Legal(item[i].status, op.kind)
             /\ item'[i] = [item[i] EXCEPT !.status = Target(op.kind)]
      BY <1>6, <2>2 DEF ProjectAction, TypeOK
    <2>4. CASE i = op.item /\ op.kind = "create" /\ item'[i] = ReconciledItem(i)
      <3>1. /\ item'[i].status = source[i].status
            /\ source[i].status # "none" /\ item[i].status = "none"
        BY <2>1, <2>4 DEF EndedInv, ReconciledItem
      <3> QED BY <2>1, <3>1 DEF Over, Terminal
    <2>5. CASE /\ i = op.item /\ op.kind # "create" /\ Legal(item[i].status, op.kind)
               /\ item'[i] = [item[i] EXCEPT !.status = Target(op.kind)]
      <3>1. item'[i].status = Target(op.kind) /\ item[i].status \notin Terminal \cup {"none"}
        BY <1>0, <2>5 DEF ItemRow, Legal, Terminal
      <3>2. Target(op.kind) \in Terminal => op.kind = "cancel"
        BY <2>1, <2>5 DEF Target, Terminal, Action
      <3>3. op.kind = "cancel" => Over(i)
        BY <2>1, <2>5 DEF EndedInv
      <3>4. i \notin Standing => source[i].status # "none"
        BY <1>0, <3>1
      <3> QED BY <2>1, <3>1, <3>2, <3>3, <3>4 DEF Over
    <2> QED BY <1>k, <2>1, <2>3, <2>4, <2>5
  <1>7. CASE RecordFired
    <2>1. PICK c \in Lease : c = current /\ c.item \in Items
      BY <1>7 DEF RecordFired, TypeOK, Lease
    <2>2. item' = item
      BY <1>7 DEF RecordFired, centralDb
    <2>3. \/ source'[i] = source[i]
          \/ source[i].status # "none" /\ source'[i] = Fired(source[i], c)
      BY <1>7, <2>1 DEF RecordFired, TypeOK
    <2>4. CASE source[i].status # "none" /\ source'[i] = Fired(source[i], c)
      <3>1. source'[i].status \in {source[i].status, "completed"}
        BY <1>0, <2>4 DEF Fired, Meta
      <3> QED BY <1>0, <2>2, <2>4, <3>1 DEF Over, Terminal
    <2> QED BY <1>k, <2>2, <2>3, <2>4
  <1>8. ASSUME NEW l \in leases, RunLease(l) PROVE Goal
    <2>0. l \in Lease
      BY DEF TypeOK
    <2>1. CASE GateSkips(l)
      <3>1. FinalizeOrFail(l) /\ UNCHANGED source /\ l.item \notin OneOffs
        BY <2>1 DEF GateSkips, OneOffs
      <3> QED BY <1>3, <2>0, <3>1
    <2>2. CASE ~GateSkips(l)
      <3>1. UNCHANGED <<source, item>>
        BY <1>8, <2>2 DEF RunLease, LeaveLease, SkipInflight, SpawnRunAs, InlineTurn,
                          InlineTurnFails, centralDb
      <3> QED BY <1>1, <3>1
    <2> QED BY <2>1, <2>2
  <1>9. ASSUME NEW w \in workers, DrainErr(w) PROVE Goal
    <2>1. PICK l \in Lease : l = w.lease
      BY DEF TypeOK
    <2>2. FinalizeOrFail(l) /\ UNCHANGED source /\ w.state = "err"
      BY <1>9, <2>1 DEF DrainErr
    <2>3. l.item \notin OneOffs
      BY <2>1, <2>2 DEF EndsAreTold, EndedInv
    <2> QED BY <1>3, <2>2, <2>3
  <1>10. CASE FinishTurn
    <2>1. PICK l \in Lease : l = current
      BY <1>10 DEF FinishTurn, TypeOK
    <2>2. FinalizeOrFail(l) /\ UNCHANGED source /\ (l.item \in OneOffs => Over(l.item))
      BY <1>10, <2>1 DEF FinishTurn, EndedInv
    <2> QED BY <1>3, <2>2
  <1>11. \/ UNCHANGED <<source, item>>
         \/ \E failing : ServeStart(failing)
         \/ \E l \in leases : RunLease(l)
         \/ \E j \in Items \ Standing, t \in {clock, clock + 1} : WriteNewSource(j, t)
         \/ \E kind \in {"cancel", "pause", "resume"}, j \in Items : TransitionSource(kind, j)
         \/ ProjectAction \/ RecordFired \/ FinishTurn
         \/ \E w \in workers : DrainErr(w)
    BY DEF Next, vars, centralDb, ClockTicks, LeaseExpires, Serve, Tick, Drain, DrainOk,
           EndUserTurn, ServeReturns, WorkerEnds, TurnEffect, UserTurn, TickFails, Crash,
           StopRequested
  <1> QED BY <1>1, <1>2, <1>4, <1>5, <1>6, <1>7, <1>8, <1>9, <1>10, <1>11

(* Every step keeps the invariant. *)
LEMMA EndedStep ==
    ASSUME EndsAreTold, TypeOK, LoopOK, EndedInv, [Next]_vars PROVE EndedInv'
PROOF
  <1> USE ConstantsAssumption
  <1>1. \A i \in Items : /\ Over(i) /\ source[i].status # "none" => Over(i)'
                         /\ item'[i].status \in Terminal => Over(i)'
                         /\ i \notin Standing /\ source'[i].status = "none" =>
                              item'[i].status = "none"
    BY EndedRows
  <1>2. op' # NoOp /\ op'.kind \in {"create", "cancel"} =>
           /\ op'.kind = "create" => /\ source'[op'.item].status # "none"
                                     /\ item'[op'.item].status = "none"
           /\ op'.kind = "cancel" => source'[op'.item].status \in Terminal \cup {"none"}
    <2>1. SUFFICES ASSUME op' # NoOp
          PROVE  /\ op'.kind = "create" => /\ source'[op'.item].status # "none"
                                           /\ item'[op'.item].status = "none"
                 /\ op'.kind = "cancel" => source'[op'.item].status \in Terminal \cup {"none"}
      OBVIOUS
    <2>2. CASE op' = op /\ UNCHANGED <<source, item>>
      BY <2>1, <2>2 DEF EndedInv, Over
    <2>3. ASSUME NEW i \in Items \ Standing, NEW t, WriteNewSource(i, t)
          PROVE  /\ op'.kind = "create" => /\ source'[op'.item].status # "none"
                                           /\ item'[op'.item].status = "none"
                 /\ op'.kind # "cancel"
      <3>1. /\ op' = [kind |-> "create", item |-> i] /\ item' = item
            /\ source[i].status = "none"
            /\ source' = [source EXCEPT ![i] = [status |-> "active", after |-> t, seq |-> 0]]
        BY <2>3 DEF WriteNewSource, centralDb
      <3>2. source'[i].status = "active" /\ item[i].status = "none"
        BY <3>1 DEF TypeOK, EndedInv
      <3> QED BY <3>1, <3>2
    <2>4. ASSUME NEW kind \in {"cancel", "pause", "resume"}, NEW i \in Items,
                 TransitionSource(kind, i)
          PROVE  /\ op'.kind # "create"
                 /\ op'.kind = "cancel" => source'[op'.item].status \in Terminal \cup {"none"}
      <3>1. op' = [kind |-> kind, item |-> i] /\ acting \in Sessions
        BY <2>4 DEF TransitionSource, EndedInv
      <3>2. SessionOf[i] = acting
        BY <3>1 DEF EndsAreTold
      <3>3. source' = IF Legal(source[i].status, kind)
                        THEN [source EXCEPT ![i].status = Target(kind)] ELSE source
        BY <2>4, <3>2 DEF TransitionSource
      <3>4. source[i] \in Meta
        BY DEF TypeOK
      <3>5. ASSUME kind = "cancel" PROVE source'[i].status \in Terminal \cup {"none"}
        <4>1. CASE Legal(source[i].status, kind)
          <5>1. source'[i] = [source[i] EXCEPT !.status = "cancelled"]
            BY <3>3, <3>5, <4>1 DEF Target, TypeOK
          <5> QED BY <3>4, <5>1 DEF Meta, Terminal
        <4>2. CASE ~Legal(source[i].status, kind)
          BY <3>3, <3>4, <3>5, <4>2 DEF Legal, Meta, Status, Terminal
        <4> QED BY <4>1, <4>2
      <3> QED BY <3>1, <3>5
    <2>5. \/ op' = op /\ UNCHANGED <<source, item>>
          \/ \E i \in Items \ Standing, t \in {clock, clock + 1} : WriteNewSource(i, t)
          \/ \E kind \in {"cancel", "pause", "resume"}, i \in Items : TransitionSource(kind, i)
      <3>1. ProjectAction \/ RecordFired \/ ProcessGone => op' = NoOp
        BY DEF ProjectAction, RecordFired, ProcessGone
      <3>2. ASSUME NEW failing, ServeStart(failing) PROVE op' = NoOp
        BY <3>2 DEF ServeStart, LoopOK
      <3>3. ASSUME NEW l \in leases, RunLease(l) PROVE op' = NoOp
        BY <3>3 DEF RunLease, GateSkips, LeaveLease, SkipInflight, SpawnRunAs, InlineTurn,
                    InlineTurnFails, LoopOK
      <3>4. ASSUME NEW w \in workers, DrainErr(w) PROVE op' = NoOp
        BY <3>4 DEF DrainErr, LoopOK
      <3>5. FinishTurn => op' = NoOp
        BY DEF FinishTurn, LoopOK
      <3> QED BY <2>1, <3>1, <3>2, <3>3, <3>4, <3>5
          DEF Next, vars, process, centralDb, ClockTicks, LeaseExpires, Serve, Tick,
              Drain, DrainOk, EndUserTurn, WorkerEnds, ServeReturns, TurnEffect, UserTurn,
              TickFails, Crash, StopRequested
    <2> QED BY <2>2, <2>3, <2>4, <2>5
  <1>3. pc' = "finalize" /\ current'.item \in OneOffs =>
           source'[current'.item].status \in Terminal \cup {"none"}
    <2>1. SUFFICES ASSUME pc' = "finalize", current'.item \in OneOffs
                   PROVE  source'[current'.item].status \in Terminal \cup {"none"}
      OBVIOUS
    <2>2. CASE pc = "finalize" /\ UNCHANGED <<current, source>>
      BY <2>1, <2>2 DEF EndedInv, Over
    <2>3. CASE RecordFired
      <3>1. PICK c \in Lease : c = current /\ c = current' /\ c.item \in OneOffs
        BY <2>1, <2>3 DEF RecordFired, TypeOK
      <3>2. source' = IF source[c.item].status = "none" THEN source
                      ELSE [source EXCEPT ![c.item] = Fired(@, c)]
        BY <2>3, <3>1 DEF RecordFired, EndsAreTold, Fault
      <3>3. CASE source[c.item].status = "none"
        BY <3>1, <3>2, <3>3
      <3>4. CASE source[c.item].status # "none"
        <4>1. c.item \in Items /\ c.item \notin Recurring
          BY <3>1 DEF OneOffs
        <4>2. source[c.item] \in Meta
          BY <4>1 DEF TypeOK
        <4>3. source'[c.item] = [source[c.item] EXCEPT !.seq = c.seq, !.status = "completed"]
          BY <3>2, <3>4, <4>1 DEF Fired, TypeOK
        <4>4. source'[c.item].status = "completed"
          BY <4>2, <4>3 DEF Meta
        <4> QED BY <3>1, <4>4 DEF Terminal
      <3> QED BY <3>3, <3>4
    <2>4. (pc = "finalize" /\ UNCHANGED <<current, source>>) \/ RecordFired
      <3>1. ProjectAction => pc # "finalize"
        BY DEF ProjectAction, LoopOK
      <3> QED BY <2>1, <3>1
          DEF Next, vars, process, ClockTicks, LeaseExpires, ServeStart, Serve, RunLease, Tick,
              GateSkips, LeaveLease, SkipInflight, SpawnRunAs, InlineTurn, InlineTurnFails,
              Drop, Drain, DrainOk, DrainErr, ApplyReplies, ProjectAction, EndUserTurn,
              WorkerEnds, FinishTurn, ServeReturns, ProcessGone, TurnEffect, WriteNewSource,
              TransitionSource, UserTurn, TickFails, Crash, StopRequested
    <2> QED BY <2>2, <2>3, <2>4
  <1>4. pc' = "effects" => acting' \in Sessions
    BY ActingStep DEF EndedInv
  <1>5. \A w \in workers' : /\ w.lease.item \in RunAs
                            /\ w.state = "err" => "worker_error" \in Faults
    <2>1. CASE workers' \subseteq workers
      BY <2>1 DEF EndedInv
    <2>2. ASSUME NEW l \in leases, SpawnRunAs(l)
          PROVE  \A w \in workers' : /\ w.lease.item \in RunAs
                                     /\ w.state = "err" => "worker_error" \in Faults
      BY <2>2 DEF SpawnRunAs, EndedInv
    <2>3. ASSUME NEW v \in workers, WorkerEnds(v)
          PROVE  \A w \in workers' : /\ w.lease.item \in RunAs
                                     /\ w.state = "err" => "worker_error" \in Faults
      <3>1. v \in [lease : Lease, state : {"running", "ok", "err"}]
        BY DEF TypeOK
      <3>2. PICK x \in {"ok", "err"} :
               /\ workers' = (workers \ {v}) \cup {[v EXCEPT !.state = x]}
               /\ x = "err" => "worker_error" \in Faults
        BY <2>3 DEF WorkerEnds, Fault
      <3> QED BY <3>1, <3>2 DEF EndedInv
    <2>4. \/ workers' \subseteq workers
          \/ \E l \in leases : SpawnRunAs(l)
          \/ \E v \in workers : WorkerEnds(v)
      BY DEF Next, vars, process, ClockTicks, LeaseExpires, ServeStart, Serve, RunLease, Tick,
              GateSkips, LeaveLease, SkipInflight, InlineTurn, InlineTurnFails,
              Drain, DrainOk, DrainErr, ProjectAction, EndUserTurn, RecordFired,
              FinishTurn, ServeReturns, ProcessGone, TurnEffect, WriteNewSource,
              TransitionSource, UserTurn, TickFails, Crash, StopRequested
    <2> QED BY <2>1, <2>2, <2>3, <2>4
  <1> QED BY <1>1, <1>2, <1>3, <1>4, <1>5 DEF EndedInv, Over

(* A cancelled or completed item never comes back, over every crash, repair *)
(* and failed write of the projection, when every fire is told to the       *)
(* source row, no background turn of a one-off fails and the items are of   *)
(* one session.                                                             *)
THEOREM EndedStaysEnded == ASSUME EndsAreTold PROVE Spec => TerminalForGood
PROOF
  <1>1. Init => EndedInv
    <2> SUFFICES ASSUME Init PROVE EndedInv
      OBVIOUS
    <2>1. \A i \in Items : item[i].status = "none" /\ source[i].status = "none"
      BY DEF Init
    <2> QED BY <2>1 DEF Init, EndedInv, Over, Terminal
  <1>2. TypeOK /\ LoopOK /\ EndedInv /\ [Next]_vars => EndedInv'
    BY EndedStep
  <1>3. TypeOK /\ LoopOK /\ EndedInv /\ [Next]_vars =>
          [\A i \in Items : item[i].status \in Terminal => item'[i].status \in Terminal]_vars
    BY EndedRows
  <1> QED BY <1>1, <1>2, <1>3, SchedulerTypeCorrect, LoopInvariant, PTL
          DEF Spec, TerminalForGood

-----------------------------------------------------------------------------
(* The two stores *)

\* When the stores are level between turns: every fire is told, no write of the
\* projection and no repair fails, and the items are of one session.
WritesSucceed ==
    /\ NothingGoesUntold
    /\ Faults \cap {"central_error", "finalize_error", "repair_error"} = {}
    /\ \A i \in Items, s \in Sessions : SessionOf[i] = s

Acting(i) == op # NoOp /\ op.item = i

\* The status of an item is that of its source row, or will be once the action
\* in hand is projected; so is its next slot, but for a fire being finalized.
StatusLevel(i) ==
    source[i].status # "none" =>
      /\ ~Acting(i) => item[i].status = source[i].status
      /\ Acting(i) /\ op.kind # "create" =>
           source[i].status = IF Legal(item[i].status, op.kind) THEN Target(op.kind)
                              ELSE item[i].status

AfterLevel(i) ==
    source[i].status # "none" =>
      \/ Acting(i) /\ op.kind = "create"
      \/ pc = "finalize" /\ current.item = i
      \/ item[i].after = source[i].after

LevelInv ==
    /\ pc # "down" => \A i \in Recurring : StatusLevel(i) /\ AfterLevel(i)
    /\ pc = "effects" => acting \in Sessions

(* Every step keeps a recurring item level with its source row. *)
LEMMA LevelStep ==
    ASSUME WritesSucceed, TypeOK, LoopOK, WorkOK, LevelInv, [Next]_vars
    PROVE  LevelInv'
PROOF
  <1> USE ConstantsAssumption
  <1>0. pc' = "effects" => acting' \in Sessions
    BY ActingStep DEF LevelInv
  <1>1. SUFFICES ASSUME pc' # "down", NEW i \in Recurring
                 PROVE  StatusLevel(i)' /\ AfterLevel(i)'
    BY <1>0 DEF LevelInv
  <1>2. /\ i \in Items /\ item[i] \in ItemRow /\ source[i] \in Meta
        /\ i \in Standing => source[i].status = "none"
        /\ pc # "down" => StatusLevel(i) /\ AfterLevel(i)
    BY DEF TypeOK, WorkOK, ItemsOK, SourceOK, LevelInv
  <1> DEFINE Goal == StatusLevel(i)' /\ AfterLevel(i)'
  <1>3. ASSUME pc # "down", pc' = "finalize" <=> pc = "finalize",
               pc = "finalize" => current' = current,
               op' = op, item'[i].status = item[i].status, item'[i].after = item[i].after,
               source'[i] = source[i]
        PROVE  Goal
    BY <1>2, <1>3 DEF StatusLevel, AfterLevel, Acting
  <1>4. ASSUME NEW failing, ServeStart(failing) PROVE Goal
    <2>1. failing = {} /\ source' = source /\ op' = NoOp
      BY <1>4 DEF ServeStart, Fault, WritesSucceed, LoopOK
    <2>2. CASE source[i].status # "none"
      <3>1. item'[i] = ReconciledItem(i)
        BY <1>2, <1>4, <2>1, <2>2 DEF ServeStart
      <3> QED BY <2>1, <3>1 DEF ReconciledItem, StatusLevel, AfterLevel, Acting
    <2>3. CASE source[i].status = "none"
      BY <2>1, <2>3 DEF StatusLevel, AfterLevel
    <2> QED BY <2>2, <2>3
  <1>5. ASSUME NEW l \in Lease, FinalizeOrFail(l), UNCHANGED source,
               pc # "down", pc' # "finalize", op = NoOp, op' = NoOp,
               pc = "finalize" => l = current,
               l.item = i /\ source[i].status # "none" => source[i].after = next_after(l.at)
        PROVE  Goal
    <2>1. CASE source[i].status = "none"
      BY <1>5, <2>1 DEF StatusLevel, AfterLevel
    <2>2. CASE source[i].status # "none"
      <3>1. l.item \in Items /\ FinalizeFiring(l)
        BY <1>5 DEF Lease, FinalizeOrFail, Fault, WritesSucceed
      <3>2. item[i].status = source[i].status
        BY <1>2, <1>5, <2>2 DEF StatusLevel, Acting
      <3>3. CASE l.item = i
        <4>1. item'[i] = [item[i] EXCEPT !.after = next_after(l.at)]
          BY <1>2, <3>1, <3>3 DEF FinalizeFiring, TypeOK
        <4>2. item'[i].status = item[i].status /\ item'[i].after = source[i].after
          BY <1>2, <1>5, <2>2, <3>3, <4>1 DEF ItemRow
        <4> QED BY <1>5, <3>2, <4>2 DEF StatusLevel, AfterLevel, Acting
      <3>4. CASE l.item # i
        <4>1. item'[i] = item[i]
          BY <1>2, <3>1, <3>4 DEF FinalizeFiring, TypeOK
        <4>2. item[i].after = source[i].after
          BY <1>2, <1>5, <2>2, <3>4 DEF AfterLevel, Acting
        <4> QED BY <1>5, <3>2, <4>1, <4>2 DEF StatusLevel, AfterLevel, Acting
      <3> QED BY <3>3, <3>4
    <2> QED BY <2>1, <2>2
  <1>6. ASSUME NEW l \in leases, RunLease(l) PROVE Goal
    <2>0. l \in Lease
      BY DEF TypeOK
    <2>1. op = NoOp /\ op' = NoOp /\ pc # "down" /\ pc # "finalize" /\ pc' # "finalize"
      BY <1>6 DEF RunLease, GateSkips, LeaveLease, SkipInflight, SpawnRunAs, InlineTurn,
                  InlineTurnFails, Drop, ApplyReplies, LoopOK
    <2>2. CASE GateSkips(l)
      <3>1. FinalizeOrFail(l) /\ UNCHANGED source /\ l.item \in Standing
        BY <2>2 DEF GateSkips
      <3>2. l.item = i => source[i].status = "none"
        BY <1>2, <3>1
      <3> QED BY <1>5, <2>0, <2>1, <3>1, <3>2
    <2>3. CASE ~GateSkips(l)
      <3>1. UNCHANGED <<source, item>>
        BY <1>6, <2>3 DEF RunLease, LeaveLease, SkipInflight, SpawnRunAs, InlineTurn,
                          InlineTurnFails, centralDb
      <3> QED BY <1>3, <2>1, <3>1
    <2> QED BY <2>2, <2>3
  <1>7. ASSUME NEW w \in workers, DrainErr(w) PROVE Goal
    <2>1. PICK l \in Lease : l = w.lease
      BY DEF TypeOK
    <2>2. /\ FinalizeOrFail(l) /\ UNCHANGED source /\ pc = "idle" /\ pc' = "idle"
          /\ op = NoOp /\ op' = NoOp /\ w.state = "err"
      BY <1>7, <2>1 DEF DrainErr, LoopOK
    <2>3. l.item \in RunAs /\ "worker_error" \in Faults
      BY <2>1, <2>2 DEF WorkOK, WorkersOK
    <2>4. l.item = i => source[i].status = "none"
      BY <1>2, <2>3 DEF WritesSucceed, NothingGoesUntold
    <2> QED BY <1>5, <2>2, <2>4
  <1>8. CASE FinishTurn
    <2>1. PICK l \in Lease : l = current
      BY <1>8 DEF FinishTurn, TypeOK
    <2>2. /\ FinalizeOrFail(l) /\ UNCHANGED source /\ pc = "finalize" /\ pc' # "finalize"
          /\ op = NoOp /\ op' = NoOp /\ current # NoOcc
      BY <1>8, <2>1 DEF FinishTurn, LoopOK, TypeOK
    <2>3. l.item = i /\ source[i].status # "none" => source[i].after = next_after(l.at)
      BY <2>1, <2>2 DEF WorkOK, CurrentOK
    <2> QED BY <1>5, <2>1, <2>2, <2>3
  <1>9. ASSUME NEW j \in Items \ Standing, NEW t, WriteNewSource(j, t) PROVE Goal
    <2>1. /\ op = NoOp /\ op' = [kind |-> "create", item |-> j] /\ item' = item
          /\ pc = "effects" /\ pc' = "effects"
          /\ source' = [source EXCEPT ![j] = [status |-> "active", after |-> t, seq |-> 0]]
      BY <1>9 DEF WriteNewSource, centralDb
    <2>2. op' # NoOp
      BY <2>1 DEF NoOp
    <2>3. CASE i = j
      BY <2>1, <2>2, <2>3 DEF StatusLevel, AfterLevel, Acting
    <2>4. CASE i # j
      <3>1. source'[i] = source[i]
        BY <2>1, <2>4 DEF TypeOK
      <3> QED BY <1>2, <2>1, <2>4, <3>1 DEF StatusLevel, AfterLevel, Acting
    <2> QED BY <2>3, <2>4
  <1>10. ASSUME NEW kind \in {"cancel", "pause", "resume"}, NEW j \in Items,
                TransitionSource(kind, j)
         PROVE  Goal
    <2>1. /\ op = NoOp /\ op' = [kind |-> kind, item |-> j] /\ item' = item
          /\ pc = "effects" /\ pc' = "effects" /\ SessionOf[j] = acting
      BY <1>10 DEF TransitionSource, centralDb, LevelInv, WritesSucceed
    <2>2. source' = IF Legal(source[j].status, kind)
                      THEN [source EXCEPT ![j].status = Target(kind)] ELSE source
      BY <1>10, <2>1 DEF TransitionSource
    <2>3. op' # NoOp /\ Target(kind) # "none"
      BY <2>1 DEF NoOp, Target
    <2>4. CASE i = j
      <3>1. CASE source[i].status = "none"
        <4>1. source' = source
          BY <2>2, <2>4, <3>1 DEF Legal
        <4> QED BY <3>1, <4>1 DEF StatusLevel, AfterLevel
      <3>2. CASE source[i].status # "none"
        <4>1. item[i].status = source[i].status /\ item[i].after = source[i].after
          BY <1>2, <2>1, <3>2 DEF StatusLevel, AfterLevel, Acting
        <4>2. /\ source'[i].after = source[i].after
              /\ source'[i].status = IF Legal(item[i].status, kind) THEN Target(kind)
                                     ELSE item[i].status
          <5>1. source'[i] = IF Legal(source[i].status, kind)
                               THEN [source[i] EXCEPT !.status = Target(kind)] ELSE source[i]
            BY <1>2, <2>2, <2>4 DEF TypeOK
          <5> QED BY <1>2, <4>1, <5>1 DEF Meta
        <4>3. op'.kind = kind /\ op'.item = i
          BY <2>1, <2>4
        <4> QED BY <2>1, <2>3, <4>1, <4>2, <4>3 DEF StatusLevel, AfterLevel, Acting
      <3> QED BY <3>1, <3>2
    <2>5. CASE i # j
      <3>1. source'[i] = source[i]
        BY <2>2, <2>5 DEF TypeOK
      <3> QED BY <1>2, <2>1, <2>5, <3>1 DEF StatusLevel, AfterLevel, Acting
    <2> QED BY <2>4, <2>5
  <1>11. CASE ProjectAction
    <2>1. /\ op \in Action /\ op # NoOp /\ op' = NoOp /\ UNCHANGED <<source, pc, current>>
          /\ pc = "effects"
      BY <1>11 DEF ProjectAction, TypeOK, LoopOK
    <2>2. op.item \in Items
      BY <2>1 DEF Action
    <2>3. CASE source[i].status = "none"
      BY <2>1, <2>3 DEF StatusLevel, AfterLevel
    <2>4. CASE source[i].status # "none" /\ op.item # i
      <3>1. item'[i] = item[i]
        BY <1>11, <2>2, <2>4 DEF ProjectAction, TypeOK
      <3> QED BY <1>2, <2>1, <2>4, <3>1 DEF StatusLevel, AfterLevel, Acting
    <2>5. CASE source[i].status # "none" /\ op.item = i
      <3>1. CASE op.kind = "create"
        <4>1. item'[i] = ReconciledItem(i)
          BY <1>11, <2>2, <2>5, <3>1 DEF ProjectAction, TypeOK, Fault, WritesSucceed
        <4> QED BY <2>1, <4>1 DEF ReconciledItem, StatusLevel, AfterLevel, Acting
      <3>2. CASE op.kind # "create"
        <4>1. item'[i] = IF Legal(item[i].status, op.kind)
                           THEN [item[i] EXCEPT !.status = Target(op.kind)] ELSE item[i]
          BY <1>11, <2>2, <2>5, <3>2 DEF ProjectAction, TypeOK, Fault, WritesSucceed
        <4>2. /\ source[i].status = IF Legal(item[i].status, op.kind) THEN Target(op.kind)
                                    ELSE item[i].status
              /\ item[i].after = source[i].after
          BY <1>2, <2>1, <2>5, <3>2 DEF StatusLevel, AfterLevel, Acting
        <4>3. item'[i].status = source[i].status /\ item'[i].after = source[i].after
          BY <1>2, <4>1, <4>2 DEF ItemRow
        <4> QED BY <2>1, <4>3 DEF StatusLevel, AfterLevel, Acting
      <3> QED BY <3>1, <3>2
    <2> QED BY <2>3, <2>4, <2>5
  <1>12. CASE RecordFired
    <2>1. PICK c \in Lease : c = current /\ c.item \in Items
      BY <1>12 DEF RecordFired, TypeOK, Lease
    <2>2. /\ item' = item /\ op = NoOp /\ op' = NoOp /\ pc = "effects" /\ pc' = "finalize"
          /\ current' = current
      BY <1>12 DEF RecordFired, centralDb
    <2>3. CASE source'[i] = source[i]
      BY <1>2, <2>2, <2>3 DEF StatusLevel, AfterLevel, Acting
    <2>4. CASE source'[i] # source[i]
      <3>1. c.item = i /\ source[i].status # "none" /\ source'[i] = Fired(source[i], c)
        BY <1>2, <1>12, <2>1, <2>4 DEF RecordFired, TypeOK
      <3>2. source'[i].status = source[i].status
        BY <1>2, <3>1 DEF Fired, Meta
      <3> QED BY <1>2, <2>1, <2>2, <3>1, <3>2 DEF StatusLevel, AfterLevel, Acting
    <2> QED BY <2>3, <2>4
  <1>13. \/ /\ pc # "down" /\ (pc' = "finalize" <=> pc = "finalize")
            /\ pc = "finalize" => current' = current
            /\ UNCHANGED <<op, item, source>>
         \/ \E failing : ServeStart(failing)
         \/ \E l \in leases : RunLease(l)
         \/ \E j \in Items \ Standing, t \in {clock, clock + 1} : WriteNewSource(j, t)
         \/ \E kind \in {"cancel", "pause", "resume"}, j \in Items : TransitionSource(kind, j)
         \/ ProjectAction \/ RecordFired \/ FinishTurn
         \/ \E w \in workers : DrainErr(w)
    <2>1. ASSUME NEW w \in workers PROVE pc # "down"
      BY DEF LoopOK
    <2>2. ProcessGone => pc' = "down"
      BY DEF ProcessGone
    <2> QED BY <1>1, <2>1, <2>2
        DEF Next, vars, process, centralDb, ClockTicks, LeaseExpires, Serve, Tick, Drain,
            DrainOk, ApplyReplies, EndUserTurn, ServeReturns, WorkerEnds, TurnEffect,
            UserTurn, TickFails, Crash, StopRequested
  <1> QED BY <1>3, <1>4, <1>6, <1>7, <1>8, <1>9, <1>10, <1>11, <1>12, <1>13

(* Between turns the projection of a recurring item agrees with its source  *)
(* row on status, next slot and last fired occurrence, however many crashes *)
(* fell between the two writes of a fire or of a schedule action: the       *)
(* repair at the next start brings the two level before any turn runs.      *)
THEOREM StoresLevelBetweenTurns ==
    ASSUME WritesSucceed PROVE Spec => []RecurringConsistent
PROOF
  <1>1. Init => LevelInv
    BY DEF Init, LevelInv
  <1>2. TypeOK /\ RecurrenceInv /\ LevelInv /\ [Next]_vars => LevelInv'
    BY LevelStep DEF RecurrenceInv, WorkOK
  <1>3. TypeOK /\ RecurrenceInv /\ LevelInv => RecurringConsistent
    <2> USE ConstantsAssumption
    <2>1. SUFFICES ASSUME TypeOK, RecurrenceInv, LevelInv, pc = "idle",
                          NEW i \in Recurring, source[i].status # "none"
                   PROVE  ProjectionAgrees(i)
      BY DEF RecurringConsistent
    <2>2. item[i].status = source[i].status /\ item[i].after = source[i].after
      BY <2>1 DEF RecurrenceInv, LoopOK, LevelInv, StatusLevel, AfterLevel, Acting
    <2>3. /\ source[i].seq \in 0..MaxSeq /\ first[i] \in Int
          /\ source[i].after = first[i] + source[i].seq
      BY <2>1 DEF TypeOK, Meta, Times, RecurrenceInv, ItemsOK, SourceOK
    <2>4. ASSUME NEW s \in Seqs
          PROVE  s \in Int /\ 1 =< s /\ (occ[i][s].status = "fired" <=> s =< source[i].seq)
      <3>1. s \in Int /\ 1 =< s
        BY DEF Seqs
      <3>2. occ[i][s].status = "fired" <=> first[i] + s - 1 < item[i].after
        BY <2>1, <2>2 DEF RecurrenceInv, ItemsOK, OccurrencesOK, SlotOf
      <3> QED BY <2>2, <2>3, <3>1, <3>2
    <2>5. PICK F : F = {0} \cup {s \in Seqs : occ[i][s].status = "fired"}
      OBVIOUS
    <2>6. /\ source[i].seq \in F
          /\ \A n \in F : n \in Int /\ n =< source[i].seq
      <3>1. source[i].seq = 0 \/ source[i].seq \in Seqs
        BY <2>3 DEF Seqs
      <3> QED BY <2>3, <2>4, <2>5, <3>1
    <2>7. Highest(F) = {source[i].seq}
      BY <2>3, <2>6 DEF Highest
    <2> QED BY <2>2, <2>5, <2>7 DEF ProjectionAgrees
  <1>4. Spec => []RecurrenceInv
    BY RecurrenceInvariant DEF WritesSucceed
  <1> QED BY <1>1, <1>2, <1>3, <1>4, SchedulerTypeCorrect, PTL DEF Spec
============================================================================
