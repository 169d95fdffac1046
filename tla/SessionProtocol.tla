-------------------------- MODULE SessionProtocol --------------------------
(***************************************************************************)
(* One session of the assistant: the host process that runs turns          *)
(* (assistant-host/src/run.rs), the container that answers them            *)
(* (shim/src/index.js, shim/src/session.js) and the two SQLite files they  *)
(* share.  The host alone writes inbound.db (messages_in, delivered), the  *)
(* container alone writes outbound.db (messages_out, processing_ack); each *)
(* polls the other's file.  Every database operation is one transaction on *)
(* a connection of its own, so it is one step here, and either process may *)
(* die between any two of them.  The container is detached: it outlives a  *)
(* crash of the host.                                                      *)
(*                                                                         *)
(* Message texts, kinds and metadata are left out: a row is its sequence   *)
(* number and what it answers.                                             *)
(***************************************************************************)
EXTENDS Integers, FiniteSets

CONSTANTS
    Keys,        \* idempotency keys of scheduled occurrences
    MetaKeys,    \* idempotency keys of the schedule-meta rows
    NoKey,       \* the NULL idempotency_key
    RowCounts,   \* how many rows the answer to one turn may have
    MaxInbound,  \* bound: rows of messages_in
    Faults,      \* the kinds of disturbance that may happen
    MaxFaults    \* bound: disturbances in one behaviour

FaultKinds == {"host_crash", "container_crash", "slow_container", "shutdown",
               "enqueue_error", "spawn_error", "stop_error", "read_error",
               "mark_error", "resume_error", "inbox_error", "emit_error"}

ASSUME ConstantsAssumption ==
    /\ NoKey \notin Keys \cup MetaKeys
    /\ Keys \cap MetaKeys = {}
    /\ RowCounts \subseteq Nat \ {0}
    /\ MaxInbound \in Nat
    /\ MaxFaults \in Nat
    /\ Faults \subseteq FaultKinds

VARIABLES
    (* inbound.db *)
    messages_in,        \* set of [seq, key, meta]
    delivered,          \* outbound seqs marked delivered
    (* outbound.db *)
    messages_out,       \* set of [seq, in_seq, batch]; batch is a history
                        \* field, the first seq of the row's transaction
    processing_ack,     \* inbound seqs fully processed
    heartbeat,          \* the heartbeat file: "absent", "fresh" or "stale"
    (* struct Host and the locals of run_turn_keyed *)
    hpc,                \* where the host process is
    started,
    last_delivered_seq,
    container,          \* does the host hold a container handle?
    in_seq,             \* the inbound seq the turn awaits
    new,                \* rows of the current poll not yet marked
    mine,               \* rows of the current poll marked, for this turn
    (* the container: main() of index.js *)
    cpc,                \* where the container process is
    handled,
    inbox,              \* inbound seqs of the current tick still to visit
    (* history *)
    handed,             \* outbound seqs that run_turn_keyed returned
    served,             \* inbound seqs some turn has returned replies for
    withdrawn,          \* keys whose item was cancelled or paused
    faults              \* disturbances so far

inboundDb  == <<messages_in, delivered>>
outboundDb == <<messages_out, processing_ack>>
hostVars   == <<hpc, started, last_delivered_seq, container, in_seq, new, mine>>
shimVars   == <<cpc, handled, inbox>>
history    == <<handed, served, withdrawn>>
vars == <<inboundDb, outboundDb, heartbeat, hostVars, shimVars, history, faults>>

InSeqs   == {r.seq : r \in messages_in}
OutSeqs  == {o.seq : o \in messages_out}
SeqsOf(rows) == {o.seq : o \in rows}

MaxOf(S) == CHOOSE m \in S : \A n \in S : n =< m
Least(m, S) == m \in S /\ \A n \in S : m =< n

(* The rows that drive a turn: all but the schedule-meta ones. *)
TurnSeqs == {r.seq : r \in {row \in messages_in : ~row.meta}}

(* SELECT MAX(seq): the next seq of a table keeps the table's parity. *)
NextSeq(S, first) == IF S = {} THEN first ELSE MaxOf(S) + 2

(* max_delivered_seq: COALESCE(MAX(seq), 0) over the delivered table. *)
MaxDeliveredSeq == IF delivered = {} THEN 0 ELSE MaxOf(delivered)

(* A disturbance, counted against the bound. *)
Fault(kind) == /\ kind \in Faults
               /\ faults < MaxFaults
               /\ faults' = faults + 1

Init ==
    /\ messages_in = {} /\ delivered = {}
    /\ messages_out = {} /\ processing_ack = {}
    /\ heartbeat = "absent"
    /\ hpc = "idle" /\ started = FALSE /\ last_delivered_seq = 0
    /\ container = FALSE /\ in_seq = 0 /\ new = {} /\ mine = {}
    /\ cpc = "off" /\ handled = {} /\ inbox = {}
    /\ handed = {} /\ served = {} /\ withdrawn = {}
    /\ faults = 0

-----------------------------------------------------------------------------
(* The host *)

(* Mutant: a new Host starts from watermark 0 (no hydration). *)
MutantNoHydration ==
    /\ started' = TRUE
    /\ last_delivered_seq' = last_delivered_seq

(* ensure_started: the first turn of a Host resumes the watermark from the *)
(* delivered table.                                                         *)
EnsureStarted ==
    /\ started' = TRUE
    /\ last_delivered_seq' = IF started THEN last_delivered_seq ELSE MaxDeliveredSeq

(* Mutant: the existing keyed row is not looked up. *)
MutantEnqueueAlways(k) ==
    /\ Cardinality(messages_in) < MaxInbound
    /\ in_seq' = NextSeq(InSeqs, 0)
    /\ messages_in' = messages_in \cup
          {[seq |-> NextSeq(InSeqs, 0), key |-> k, meta |-> FALSE]}

(* enqueue_inbound_keyed: a keyed row that exists is reused. *)
EnqueueInboundKeyed(k) ==
    \/ \E r \in messages_in :
          /\ k # NoKey
          /\ r.key = k
          /\ in_seq' = r.seq
          /\ UNCHANGED messages_in
    \/ /\ k = NoKey \/ \A r \in messages_in : r.key # k
       /\ Cardinality(messages_in) < MaxInbound
       /\ in_seq' = NextSeq(InSeqs, 0)
       /\ messages_in' = messages_in \cup
             {[seq |-> NextSeq(InSeqs, 0), key |-> k, meta |-> FALSE]}

(* run_turn_keyed up to the enqueue. *)
BeginTurn(k) ==
    /\ hpc = "idle"
    /\ EnsureStarted
    /\ EnqueueInboundKeyed(k)
    /\ hpc' = "spawn"
    /\ new' = {}
    /\ mine' = {}
    /\ UNCHANGED <<delivered, outboundDb, heartbeat, container, shimVars, history, faults>>

(* The enqueue gives up after its retries: the turn fails, nothing written. *)
EnqueueFails ==
    /\ hpc = "idle"
    /\ Fault("enqueue_error")
    /\ EnsureStarted
    /\ UNCHANGED <<inboundDb, outboundDb, heartbeat, hpc, container, in_seq, new, mine,
                   shimVars, history>>

(* upsert_inbound_meta: the first write of a schedule's source row takes a *)
(* sequence number; a later one rewrites the content in place, which is no *)
(* change here.                                                            *)
UpsertInboundMeta(k) ==
    /\ hpc = "idle"
    /\ \A r \in messages_in : r.key # k
    /\ Cardinality(messages_in) < MaxInbound
    /\ messages_in' = messages_in \cup
          {[seq |-> NextSeq(InSeqs, 0), key |-> k, meta |-> TRUE]}
    /\ UNCHANGED <<delivered, outboundDb, heartbeat, hostVars, shimVars, history, faults>>

(* ensure_spawned with a handle in hand: reuse it, dead or alive. *)
ReuseContainer ==
    /\ hpc = "spawn"
    /\ container
    /\ hpc' = "poll"
    /\ UNCHANGED <<inboundDb, outboundDb, heartbeat, started, last_delivered_seq, container,
                   in_seq, new, mine, shimVars, history, faults>>

(* ensure_spawned without a handle: lay a fresh heartbeat, `docker run`     *)
(* under the session's one container name.                                 *)
SpawnContainer ==
    /\ hpc = "spawn"
    /\ ~container
    /\ cpc = "off"
    /\ heartbeat' = "fresh"
    /\ container' = TRUE
    /\ hpc' = "poll"
    /\ cpc' = "boot"
    /\ UNCHANGED <<inboundDb, outboundDb, started, last_delivered_seq, in_seq, new, mine,
                   handled, inbox, history, faults>>

(* The spawn is refused: a container of that name still runs (the orphan of *)
(* a crashed host), or a gate or Docker itself fails.  The heartbeat        *)
(* placeholder has been laid and the inbound row stays.                     *)
SpawnFails ==
    /\ hpc = "spawn"
    /\ ~container
    /\ \/ cpc # "off" /\ UNCHANGED faults
       \/ cpc = "off" /\ Fault("spawn_error")
    /\ heartbeat' = "fresh"
    /\ hpc' = "idle"
    /\ UNCHANGED <<inboundDb, outboundDb, started, last_delivered_seq, container, in_seq,
                   new, mine, shimVars, history>>

(* docker stop: SIGTERM, and SIGKILL if the runner does not exit. *)
StopContainer ==
    /\ cpc' = "off"
    /\ handled' = {}
    /\ inbox' = {}

(* Mutant: the handle of the reaped container is kept. *)
MutantReapKeepsHandle ==
    /\ hpc = "poll"
    /\ heartbeat = "stale"
    /\ StopContainer
    /\ heartbeat' = "absent"
    /\ hpc' = "idle"
    /\ UNCHANGED <<inboundDb, outboundDb, container, started, last_delivered_seq, in_seq,
                   new, mine, history, faults>>

(* The heartbeat is stale: reap_for_respawn and ContainerDied.  A failing   *)
(* stop is ignored, and then the container lives on.                       *)
PollReaps ==
    /\ hpc = "poll"
    /\ heartbeat = "stale"
    /\ \/ StopContainer /\ UNCHANGED faults
       \/ Fault("stop_error") /\ UNCHANGED shimVars
    /\ container' = FALSE
    /\ heartbeat' = "absent"
    /\ hpc' = "idle"
    /\ UNCHANGED <<inboundDb, outboundDb, started, last_delivered_seq, in_seq, new, mine,
                   history>>

(* The rows beyond the watermark, as the poll reads them. *)
Unseen == {o \in messages_out : o.seq > last_delivered_seq}

(* read_outbound; a SQLite error reads as no rows. *)
PollReads ==
    /\ hpc = "poll"
    /\ heartbeat # "stale"
    /\ \/ new' = Unseen /\ UNCHANGED faults
       \/ new' = {} /\ Fault("read_error")
    /\ mine' = {}
    /\ hpc' = "mark"
    /\ UNCHANGED <<inboundDb, outboundDb, heartbeat, started, last_delivered_seq, container,
                   in_seq, shimVars, history>>

(* Mutant: rows are read newest first. *)
MutantNewestFirst(o) == o \in new /\ \A p \in new : p.seq =< o.seq

(* read_outbound returns the rows ORDER BY seq. *)
NextToMark(o) == o \in new /\ \A p \in new : o.seq =< p.seq

(* One iteration of the marking loop: mark_delivered, then the watermark.   *)
MarkDelivered ==
    /\ hpc = "mark"
    /\ \E o \in new :
          /\ NextToMark(o)
          /\ delivered' = delivered \cup {o.seq}
          /\ last_delivered_seq' = IF o.seq > last_delivered_seq THEN o.seq
                                                                ELSE last_delivered_seq
          /\ new' = new \ {o}
          /\ mine' = IF o.in_seq = in_seq THEN mine \cup {o} ELSE mine
    /\ UNCHANGED <<messages_in, outboundDb, heartbeat, hpc, started, container, in_seq,
                   shimVars, history, faults>>

(* mark_delivered gives up: the turn fails with part of the rows marked. *)
MarkFails ==
    /\ hpc = "mark"
    /\ new # {}
    /\ Fault("mark_error")
    /\ new' = {}
    /\ mine' = {}
    /\ hpc' = "idle"
    /\ UNCHANGED <<inboundDb, outboundDb, heartbeat, started, last_delivered_seq, container,
                   in_seq, shimVars, history>>

(* All rows of the poll are marked and some are the turn's: return them. *)
ReturnReplies ==
    /\ hpc = "mark"
    /\ new = {}
    /\ mine # {}
    /\ handed' = handed \cup SeqsOf(mine)
    /\ served' = served \cup {in_seq}
    /\ mine' = {}
    /\ hpc' = "idle"
    /\ UNCHANGED <<inboundDb, outboundDb, heartbeat, started, last_delivered_seq, container,
                   in_seq, new, shimVars, withdrawn, faults>>

(* Nothing for this turn yet: time out, or sleep and poll again. *)
PollAgain ==
    /\ hpc = "mark"
    /\ new = {}
    /\ mine = {}
    /\ hpc' = "poll"
    /\ UNCHANGED <<inboundDb, outboundDb, heartbeat, started, last_delivered_seq, container,
                   in_seq, new, mine, shimVars, history, faults>>

Timeout ==
    /\ hpc = "mark"
    /\ new = {}
    /\ mine = {}
    /\ hpc' = "idle"
    /\ UNCHANGED <<inboundDb, outboundDb, heartbeat, started, last_delivered_seq, container,
                   in_seq, new, mine, shimVars, history, faults>>

(* A new Host: nothing started, no handle, watermark 0. *)
ForgetHost ==
    /\ started' = FALSE
    /\ last_delivered_seq' = 0
    /\ container' = FALSE
    /\ new' = {}
    /\ mine' = {}
    /\ UNCHANGED in_seq

(* shutdown at the end of the process; the handle is dropped even when the *)
(* stop fails.  The runner's stop() removes the heartbeat unless it is     *)
(* killed first or the file is a mount point.                              *)
Shutdown ==
    /\ hpc = "idle"
    /\ container
    /\ Fault("shutdown")
    /\ \/ StopContainer /\ heartbeat' \in {heartbeat, "absent"}
       \/ UNCHANGED <<shimVars, heartbeat>>
    /\ ForgetHost
    /\ UNCHANGED <<inboundDb, outboundDb, hpc, history>>

(* The host dies at any point; the next turn is run by a new process. *)
HostCrash ==
    /\ Fault("host_crash")
    /\ hpc' = "idle"
    /\ ForgetHost
    /\ UNCHANGED <<inboundDb, outboundDb, heartbeat, shimVars, history>>

(* Some turn cancels or pauses the item of an occurrence: the scheduler     *)
(* need not come back to its key.                                          *)
Withdraw(k) ==
    /\ hpc = "idle"
    /\ \E r \in messages_in : r.key = k
    /\ k \notin withdrawn
    /\ withdrawn' = withdrawn \cup {k}
    /\ UNCHANGED <<inboundDb, outboundDb, heartbeat, hostVars, shimVars, handed, served, faults>>

-----------------------------------------------------------------------------
(* The container *)

(* session.start: the runner is up and lays its heartbeat. *)
RunnerStart ==
    /\ cpc = "boot"
    /\ cpc' = "resume"
    /\ heartbeat' = "fresh"
    /\ UNCHANGED <<inboundDb, outboundDb, hostVars, handled, inbox, history, faults>>

(* claimedSeqs seeds the handled set; a failure is logged and leaves it    *)
(* empty.                                                                  *)
ResumeHandled ==
    /\ cpc = "resume"
    /\ \/ handled' = processing_ack /\ UNCHANGED faults
       \/ handled' = {} /\ Fault("resume_error")
    /\ cpc' = "tick"
    /\ UNCHANGED <<inboundDb, outboundDb, heartbeat, hostVars, inbox, history>>

(* Top of the loop: heartbeat, then readInbound (a failure reads nothing). *)
Tick ==
    /\ cpc = "tick"
    /\ heartbeat' = "fresh"
    /\ \/ inbox' = InSeqs \ handled /\ UNCHANGED faults
       \/ inbox' = {} /\ Fault("inbox_error")
    /\ cpc' = "visit"
    /\ UNCHANGED <<inboundDb, outboundDb, hostVars, handled, history>>

(* schedule-meta rows are durable host state and never drive a turn. *)
SkipMeta ==
    /\ cpc = "visit"
    /\ \E s \in inbox :
          /\ Least(s, inbox)
          /\ s \notin TurnSeqs
          /\ handled' = handled \cup {s}
          /\ inbox' = inbox \ {s}
    /\ UNCHANGED <<inboundDb, outboundDb, heartbeat, hostVars, cpc, history, faults>>

(* The next turn: heartbeat, then respond() runs. *)
StartTurn ==
    /\ cpc = "visit"
    /\ \E s \in inbox : Least(s, inbox) /\ s \in TurnSeqs
    /\ heartbeat' = "fresh"
    /\ cpc' = "respond"
    /\ UNCHANGED <<inboundDb, outboundDb, hostVars, handled, inbox, history, faults>>

EndOfTick ==
    /\ cpc = "visit"
    /\ inbox = {}
    /\ cpc' = "tick"
    /\ UNCHANGED <<inboundDb, outboundDb, heartbeat, hostVars, handled, inbox, history, faults>>

(* The n rows of one answer, at consecutive odd sequence numbers. *)
Answer(s, n) ==
    LET first == NextSeq(OutSeqs, 1)
    IN  {[seq |-> first + 2 * i, in_seq |-> s, batch |-> first] : i \in 0 .. n - 1}

(* emitBatch: the rows and the ack commit in one transaction; the seq is   *)
(* handled only then.                                                      *)
EmitBatch(n) ==
    /\ cpc = "respond"
    /\ \E s \in inbox :
          /\ Least(s, inbox)
          /\ messages_out' = messages_out \cup Answer(s, n)
          /\ processing_ack' = processing_ack \cup {s}
          /\ handled' = handled \cup {s}
          /\ inbox' = inbox \ {s}
    /\ cpc' = "visit"
    /\ UNCHANGED <<inboundDb, heartbeat, hostVars, history, faults>>

(* The batch rolls back: not handled, so retried at the next tick. *)
EmitFails ==
    /\ cpc = "respond"
    /\ Fault("emit_error")
    /\ \E s \in inbox : Least(s, inbox) /\ inbox' = inbox \ {s}
    /\ cpc' = "visit"
    /\ UNCHANGED <<inboundDb, outboundDb, heartbeat, hostVars, handled, history>>

ContainerCrash ==
    /\ cpc # "off"
    /\ Fault("container_crash")
    /\ StopContainer
    /\ UNCHANGED <<inboundDb, outboundDb, heartbeat, hostVars, history>>

(* Time passes beyond stale_after since the last heartbeat: a container    *)
(* that is gone refreshes it no more ...                                   *)
HeartbeatExpires ==
    /\ cpc = "off"
    /\ heartbeat = "fresh"
    /\ heartbeat' = "stale"
    /\ UNCHANGED <<inboundDb, outboundDb, hostVars, shimVars, history, faults>>

(* ... and a live one may be too slow, in a long respond() for one. *)
HeartbeatLags ==
    /\ cpc # "off"
    /\ heartbeat = "fresh"
    /\ Fault("slow_container")
    /\ heartbeat' = "stale"
    /\ UNCHANGED <<inboundDb, outboundDb, hostVars, shimVars, history>>

-----------------------------------------------------------------------------
HostStep == \/ ReuseContainer \/ SpawnContainer \/ SpawnFails
            \/ PollReaps \/ PollReads
            \/ MarkDelivered \/ MarkFails \/ ReturnReplies \/ PollAgain \/ Timeout

RunnerStep == \/ RunnerStart \/ ResumeHandled \/ Tick \/ SkipMeta \/ StartTurn \/ EndOfTick
              \/ \E n \in RowCounts : EmitBatch(n)
              \/ EmitFails

Next == \/ \E k \in Keys \cup {NoKey} : BeginTurn(k)
        \/ EnqueueFails
        \/ \E k \in MetaKeys : UpsertInboundMeta(k)
        \/ HostStep
        \/ Shutdown
        \/ HostCrash
        \/ \E k \in Keys : Withdraw(k)
        \/ RunnerStep
        \/ ContainerCrash
        \/ HeartbeatExpires
        \/ HeartbeatLags

Spec == Init /\ [][Next]_vars

(* An occurrence the scheduler comes back to: its turn was begun, has not   *)
(* returned, and its item is still there.                                  *)
Pending(k) == k \notin withdrawn /\ \E r \in messages_in : r.key = k /\ r.seq \notin served

(* Each process keeps taking steps, time passes, and the scheduler runs the *)
(* turn of a pending occurrence again at a later tick (slack.rs,           *)
(* scheduler_tick); one whose turn returned is finalized and left alone.   *)
Fairness == /\ WF_vars(HostStep)
            /\ WF_vars(RunnerStep)
            /\ WF_vars(HeartbeatExpires)
            /\ \A k \in Keys : SF_vars(Pending(k) /\ BeginTurn(k))

FairSpec == Spec /\ Fairness

-----------------------------------------------------------------------------
(* Properties *)

Seqs == Nat
InRows  == [seq : Seqs, key : Keys \cup MetaKeys \cup {NoKey}, meta : BOOLEAN]
OutRows == [seq : Seqs, in_seq : Seqs, batch : Seqs]

(* The variables have their types; the host owns the even numbers and the  *)
(* container the odd ones (verify_sequence_parity in session.rs).          *)
TypeOK ==
    /\ messages_in \subseteq InRows
    /\ \A r \in messages_in : r.seq % 2 = 0
    /\ delivered \subseteq Seqs
    /\ messages_out \subseteq OutRows
    /\ \A o \in messages_out : o.seq % 2 = 1
    /\ processing_ack \subseteq Seqs
    /\ heartbeat \in {"absent", "fresh", "stale"}
    /\ hpc \in {"idle", "spawn", "poll", "mark"}
    /\ started \in BOOLEAN
    /\ last_delivered_seq \in Seqs
    /\ container \in BOOLEAN
    /\ in_seq \in Seqs
    /\ new \subseteq OutRows
    /\ mine \subseteq OutRows
    /\ cpc \in {"off", "boot", "resume", "tick", "visit", "respond"}
    /\ handled \subseteq Seqs
    /\ inbox \subseteq Seqs
    /\ handed \subseteq Seqs
    /\ served \subseteq Seqs
    /\ withdrawn \subseteq Keys
    /\ faults \in Nat

(* A table has a greatest sequence number as soon as it has a row. *)
HasMax(S) == S # {} => \E m \in S : \A n \in S : n =< m

(* What makes at-most-once delivery inductive: the watermark of a started  *)
(* host covers the delivered table, a poll holds only rows beyond it, and  *)
(* whatever was handed over had been marked.                               *)
DeliveryInv ==
    /\ HasMax(InSeqs) /\ HasMax(OutSeqs) /\ HasMax(delivered)
    /\ \A o, p \in messages_out : o.seq = p.seq => o = p
    /\ delivered \subseteq OutSeqs
    /\ handed \subseteq delivered
    /\ started => /\ \A d \in delivered : d =< last_delivered_seq
                  /\ last_delivered_seq \in delivered \cup {0}
    /\ hpc # "idle" => started
    /\ hpc # "mark" => new = {} /\ mine = {}
    /\ new \subseteq messages_out
    /\ \A o \in new : o.seq > last_delivered_seq
    /\ mine \subseteq messages_out
    /\ SeqsOf(mine) \subseteq delivered
    /\ SeqsOf(mine) \cap handed = {}
    /\ \A o \in mine : o.in_seq = in_seq

(* A poll misses no row between the watermark and the rows it holds. *)
PrefixInv ==
    /\ \A o \in messages_out, d \in delivered : o.seq =< d => o.seq \in delivered
    /\ hpc = "mark" => \A o \in messages_out, p \in new :
           o.seq < p.seq => o.seq \in delivered \/ o \in new

(* The dedup marker in memory and the one on disk never diverge (index.js, *)
(* the comment on emitBatch): a running container has handled exactly the  *)
(* turns that are acked.                                                   *)
DedupMarkersAgree ==
    cpc \in {"tick", "visit", "respond"} => handled \cap TurnSeqs = processing_ack

(* What makes the single answer inductive: the rows of the current tick    *)
(* are not handled, and handled turns are the acked ones.                  *)
AnswerInv ==
    /\ inbox \subseteq InSeqs
    /\ handled \subseteq InSeqs
    /\ processing_ack \subseteq TurnSeqs
    /\ inbox \cap handled = {}
    /\ cpc = "respond" => \A s \in inbox : Least(s, inbox) => s \in TurnSeqs
    /\ cpc \notin {"visit", "respond"} => inbox = {}
    /\ DedupMarkersAgree

(* At-most-once delivery, across host crashes and restarts: no row a poll  *)
(* is about to hand to the caller was handed over by an earlier turn       *)
(* (ensure_started in run.rs resumes the watermark for this).              *)
NoRedelivery == SeqsOf(new \cup mine) \cap handed = {}

(* No reply is overtaken: the watermark passes no row that was not marked  *)
(* itself, so no committed reply becomes invisible to every later poll.    *)
NoReplySkipped ==
    \A o \in messages_out : o.seq =< MaxDeliveredSeq => o.seq \in delivered

(* The ack and the reply commit together (emitBatch): an inbound is acked  *)
(* exactly when its answer is in messages_out.                             *)
AckIffAnswered == processing_ack = {o.in_seq : o \in messages_out}

(* However often containers die and are respawned, an inbound is answered  *)
(* by one batch (the resume step of index.js).                             *)
AnsweredOnce ==
    \A o, p \in messages_out : o.in_seq = p.in_seq => o.batch = p.batch

(* schedule-meta rows never drive a turn: every answer is to a turn row.   *)
MetaNeverAnswered ==
    \A o \in messages_out : \E r \in messages_in : r.seq = o.in_seq /\ ~r.meta

(* A retried occurrence reuses its one inbound row (enqueue_inbound_keyed), *)
(* and no two rows share a sequence number.                                *)
OneRowPerKey ==
    \A r, q \in messages_in : (r.seq = q.seq \/ (r.key = q.key /\ r.key # NoKey)) => r = q

(* A turn that returns, returns its whole answer: never a schedule or      *)
(* memory row without the reply text or the other way round (index.js, the *)
(* comment on the atomic batch).                                           *)
WholeTurnReturned ==
    hpc = "mark" /\ new = {} /\ mine # {} => mine = {o \in messages_out : o.in_seq = in_seq}

(* A row that drives a turn is answered in the end, whatever dies in        *)
(* between, unless the container is gone and the scheduler has nothing      *)
(* pending for the session: while it has, a dead container is reaped by the *)
(* retry and a fresh one picks up the orphaned row; a container that lives  *)
(* needs nobody.  A row left by a dead container of a session that no later *)
(* turn runs on is never answered (ensure_spawned, run_turn_keyed).         *)
EveryTurnAnswered ==
    LET tended == cpc # "off" \/ \E k \in Keys : Pending(k) IN
    \A s \in {2 * i : i \in 0 .. MaxInbound - 1} :
        (s \in TurnSeqs /\ tended) ~> (s \in processing_ack \/ ~tended)

(* A keyed turn that is retried at every tick, and not withdrawn, returns   *)
(* its replies in the end: the promise the scheduler's retry rests on.     *)
KeyedTurnServed ==
    \A k \in Keys :
        (\E r \in messages_in : r.key = k)
            ~> (k \in withdrawn \/ \E r \in messages_in : r.key = k /\ r.seq \in served)

(* The session behaves as the mailbox its callers see. *)
Mailbox == INSTANCE TurnMailbox WITH
    asked <- TurnSeqs, answers <- messages_out, consumed <- delivered,
    taken <- SeqsOf(mine), handed <- handed

(* The session implements TurnMailbox: every step of the host, the runner  *)
(* or a crash is one step of the mailbox or none (run_turn's contract,     *)
(* assistant-host.md, "Persistence Ownership").                            *)
ImplementsMailbox == Mailbox!Spec
=============================================================================
