# A TLA+ verification of assistant-platform

This directory models the parts of assistant-platform that keep state across
processes, crashes and restarts, checks them with TLC on small instances and
proves the properties that matter most with TLAPS. `PROJECT.json` lists the
components, the runs, the lines of source each definition stands for, the
hazards the properties are aimed at, the findings and the theorems.

    tlc -workers 2 -config session.cfg MCSessionProtocol     # one run
    tlapm SessionProtocolProofs.tla                          # one set of proofs

The modules of a part are named in section 2; `MC*.tla` and the `.cfg` files
instantiate them. Three configurations beyond the runs of `PROJECT.json` keep a
counterexample each that this documentation refers to:
`session_partial_turn.cfg`, `session_stuck_retry.cfg` (`MCSessionProtocol`),
`instance_downgrade.cfg` (`MCInstance`). TLC reports a violation of the one property each of them names.

## 1. Inventory

The platform is a Rust workspace plus a JavaScript runner (`shim/`) that lives
in a container. One installation is an *instance directory*: a central SQLite
database, two SQLite files per session, a config, logs and setup files. There
is no server between the parts: processes meet in these files.

| Part | State it keeps | Operations | Meets |
|---|---|---|---|
| **session bus** (`assistant-session`) | `inbound.db` (`messages_in`, `delivered`), `outbound.db` (`messages_out`, `processing_ack`), heartbeat file, schema rows | enqueue, upsert meta, read, mark delivered, emit, ack, migrate | host writes inbound, container writes outbound, each polls the other |
| **turn loop** (`assistant-host/run.rs`) | started flag, delivered watermark, container handle | start, spawn, poll, mark, reap, time out, shut down | session bus, docker |
| **runner** (`shim/src/index.js`, `session.js`) | set of handled rows, current tick | resume, tick, skip meta rows, answer, emit one batch | session bus |
| **containers** (`assistant-runtime-docker`) | the container, heartbeat age | prepare, spawn, stop, classify | turn loop |
| **scheduler** (`assistant-scheduler`, `host/slack.rs`) | source rows in a session's inbound.db; `scheduled_items`, `scheduled_occurrences`, leases in the central database; in-flight set and worker threads | create, pause, resume, cancel, claim, lease, fire, finalize, advance, repair | turn loop (a firing is a keyed turn), channel (sweeps happen on idle reads) |
| **migrations** (`assistant-db`, `assistant-session/migrate.rs`) | `schema_migrations`, `schema_meta`, `module_versions` | apply, lazy migrate, record versions | setup, upgrade, daemon |
| **setup** (`assistant-setup`, `host/setup_steps.rs`, `assistant-cli`) | `setup/state.json`, `setup/readiness.json`, managed directories | eight steps, resume, readiness gate | migrations, docker, OneCLI gateway |
| **upgrade** (`assistant-upgrade`) | none of its own | upgrade, dry run, inventory, conformance | migrations |
| **permissions, approvals** | users, roles, members, standing instructions, approvals | bootstrap owner, grant, revoke, request, decide, expire | host administration, CLI, web |
| **agent graph, protocol** | jobs, run links, specialist groups | start, transition, cancel, collect, hand off, cycle check | host delegation, which runs turns on specialist sessions |
| **router, Slack, Telegram, CLI channels** | sticky engagement, recently seen event ids, socket | engage, expire, dedupe, ack, reconnect, deliver | host/slack.rs |
| **memory** | markdown files, catalog rows, search index, journal | write, reindex, archive, observe | turn replies, web editor, qmd sidecar |
| **web console** | login sessions, open files | log in, list, save | permissions, memory |
| **config, core, product, specialist-spec, capabilities** | none that changes | parse, validate | setup |

What is hard here, and hard to test:

* **two files, two writers, no shared transaction.** A turn spans a host
  transaction, a container transaction and a host transaction again; either
  process may die in between and the container outlives the host.
* **one fact in two databases.** A scheduled item has its truth in a session
  database and its projection in the central one; every action writes both, one
  after the other, and repair rebuilds the second from the first.
* **timeouts racing late answers.** A turn times out and its answer still
  arrives; a lease expires under a running turn; a slow container looks dead.
* **commands beside a daemon.** Setup, upgrade and the daemon, perhaps of
  different builds, migrate the same files without a lock.
* **work that must happen.** Due work must not be stuck, a question must be
  answered in the end, a recurrence must not halt.

`PROJECT.json` lists each hazard at its line with the properties aimed at it.
What makes each component correct:

* session: a reply reaches a caller at most once and none is overtaken; a
  question is answered once, acknowledged exactly when answered, and in the end,
  for as long as its container lives or the scheduler comes back to the session;
* scheduler: a slot runs once and in order, a recurrence goes on, what is ended
  stays ended where its source row is told, the two stores agree between turns,
  due work is done;
* instance: rows and schema agree, no schema version claims too much, an upgrade
  reaches what it found, a resumed setup skips only what was done;
* delegation: limits hold up to the calls in flight, no host takes a job up
  twice, a job is answered only after it was taken up; that it ends once and for
  good holds for one host only;
* messaging: a cascade of agents ends, only wired agents post, no agent writes
  to one it may not, no session name grows; a standing task that is cancelled,
  and an item that is cancelled in its own session, stays cancelled; any other
  one until the daemon is started again;
* access: one owner, an approval is decided once and in time, a command of the
  bridge runs once but for failed writes (proved, section 11), every request is
  answered;
* channel: a message makes one turn, for a reason, and is answered, dropped with
  a reason or skipped, unless one of the failures that section 9 names loses it;
* memory: what was saved is found, what was removed is forgotten, a reindex
  catches up, no edit is lost unseen, no page elsewhere changes anything;
* libraries: a release that passes its check assembles, a final text is
  delivered once, handoffs cannot go round, an item fires once for each of its
  dates, observed text stays in its chat, a recovery is alone with the file, a
  container has the credentials of its own agent or none, but for what the
  agent's own specification brings along.

## 2. Plan

| Order | Module | Composes | State |
|---|---|---|---|
| 1 | `SessionProtocol`, abstract `TurnMailbox` | session bus, turn loop, runner, containers | checked; refinement and safety proved |
| 2 | `Scheduler` | scheduler crate, tick, background turns, schedule tools; a turn is one step whose guarantee is `SessionProtocol`'s | checked; safety proved |
| 3 | `Instance` | setup, migrations, upgrade, daemon start | checked; types, rows, versions and upgrade proved |
| 4 | `Delegation`, abstract `JobBoard` | agent graph: groups and jobs | checked; limits and refinement proved |
| 5 | `AgentTurn`, `Messaging` | specialists, their containers' tools, `host/slack.rs` from a turn's rows to the turns and posts they cause, standing tasks and gates | checked; posts, destinations, sessions and what becomes of ended items proved |
| 6 | `AccessPolicy`, `Permissions`, `Approvals`, `CliBridge` | users, roles, instructions; approvals over them; the bridge of an agent's commands | checked; safety proved |
| 7 | `ChannelEvents`, `Channel` | payloads of Slack, Telegram and the terminal; listener, dedupe, gate (with `AccessPolicy`), engagement windows, turns | checked; safety proved |
| 8 | `MemoryNotes`, `Memory`, `WebConsole` | notes, catalog, reindex, search sidecar, editor; the console's gate | checked; safety proved |
| 9 | `CycleSearch`, `Manifests`, `AgentRun`, `Handoff`, `Recurrence`, `Observe`, `Recovery`, `Spawn` | the libraries of `assistant-core`, `-agent-protocol`, `-agent-graph`, `-scheduler`, `-memory`, `-session` that stand alone; the credentials and mounts of a container (`host/onecli.rs`, `runtime-docker`) | checked; safety proved |

No further component has state of its own that changes (section 13).

Every invariant and action property of a passing run, and every refinement, is
a theorem; liveness
stays with TLC. The depth-first search of `CycleSearch` is a recursive function,
not a recursive operator, so that `Manifests` and `Handoff` can be proved about.

## 3. SessionProtocol and TurnMailbox

One session: a host, a container and their two files. A row is its sequence
number and what it answers; texts, kinds and metadata are left out. Every
database operation in the code is one transaction on a connection of its own, so
it is one step, and the steps between which a process may die are the steps of
the code. `hpc` is where `run_turn_keyed` is (`spawn`, `poll`, `mark`), `cpc`
where `main` of `index.js` is. The variables keep the source's names.

| Code | Actions |
|---|---|
| `run.rs` `ensure_started`, enqueue | `BeginTurn`, `EnqueueFails` |
| `upsert_inbound_meta` | `UpsertInboundMeta` |
| `ensure_spawned` | `ReuseContainer`, `SpawnContainer`, `SpawnFails` |
| poll loop of `run_turn_keyed` | `PollReaps`, `PollReads`, `MarkDelivered`, `MarkFails`, `ReturnReplies`, `PollAgain`, `Timeout` |
| `shutdown`, end of the process | `Shutdown`, `HostCrash` |
| a turn that cancels or pauses the item of an occurrence | `Withdraw` |
| `index.js` | `RunnerStart`, `ResumeHandled`, `Tick`, `SkipMeta`, `StartTurn`, `EndOfTick` |
| `session.js` `emitBatch` | `EmitBatch`, `EmitFails` |
| time, docker | `HeartbeatExpires`, `HeartbeatLags`, `ContainerCrash` |

`TurnMailbox` is what a caller of `run_turn` may rely on, without processes,
files or polls: a question is answered at most once, replies are consumed in
order, and each reaches a caller at most once, with replies to the same
question only, or is lost. `ImplementsMailbox` maps `asked` to the turn rows,
`answers` to `messages_out`, `consumed` to `delivered`, `taken` to the marked
rows of the poll.

`batch`, `handed` and `served` are history: the transaction a row came from,
what callers received, which turns returned.

**Runs.**

* `session` (passes): keyed, meta and user rows, every fault but a failed
  resume. No reply is handed over twice or overtaken, a key has one row, the
  whole implements the mailbox (so a question is answered at most once and a
  meta row never), and every turn row is answered in the end or its container is
  gone and nothing is pending for its session. In that case the code leaves the
  row unanswered: nobody respawns the container.
* With `resume_error` the container answers rows again; that delivery stays at
  most once and in order even then is part of what `AtMostOnceDelivery` and
  `NoReplyOvertaken` prove for every set of faults.
* `session_partial_turn.cfg`: `WholeTurnReturned` is false. A failed mark in the
  middle of an answer (`run.rs:584`), then a retry, returns the rest of the
  answer only, where `shim/src/index.js:142` says "a host poll over the bind
  mount never observes a partial turn".
* `session_stuck_retry.cfg`: `KeyedTurnServed` is false. A keyed turn that timed
  out is never served once another turn has consumed its late answer as backlog
  (`run.rs:583`), where `contracts/assistant-scheduler.md:22` says "no due work
  is stuck past lease expiry".

**Bounds.** Three inbound rows give a backlog row, the row of the turn and a row
that overtakes; answers of one or two rows make a batch that can be split; two
faults put a crash inside the recovery from another. One key is enough because a
key is only compared with itself and with none.

**Fairness.** `WF(HostStep)` and `WF(RunnerStep)`: both loops are threads that
sleep and go on. `WF(HeartbeatExpires)`: the file of a dead container ages.
`SF(Pending(k) /\ BeginTurn(k))`: the tick retries an occurrence that was begun,
has not returned and whose item was not cancelled or paused (`withdrawn`), and
between its turns the session is idle; an occurrence whose turn returned is
finalized and its key never begun again. No deadlock check: a session with no more
questions within the bound is at rest.

## 4. Scheduler

`source[i]` is the item's row in its session, `item[i]` and `occ[i][s]` the
projection, `leases` what one tick has claimed, `workers` and `inflight` the
background turns. `pc` follows the serve loop: `idle` (listening), `turns` (the
leases of a tick), `effects` (schedule actions of a reply), `finalize`.

| Code | Actions |
|---|---|
| `scheduler_tick` | `Tick`, `TickFails`, then per lease `GateSkips`, `LeaveLease`, `SkipInflight`, `SpawnRunAs`, `InlineTurn`, `InlineTurnFails` |
| `spawn_run_as_turn`, `drain_completed_runas` | `WorkerEnds`, `DrainOk`, `DrainErr` |
| `deliver_reply`, `create_schedule`, `transition_source` | `WriteNewSource`, `TransitionSource`, then `ProjectAction` |
| `finalize_scheduled_turn`, `finalize_firing` | `ApplyReplies`, `RecordFired`, `FinishTurn` |
| `handle_event` | `UserTurn`, `EndUserTurn` |
| `serve_slack` | `ServeStart` (with repair), `StopRequested`, `ServeReturns`, `Crash` |
| time | `ClockTicks`, `LeaseExpires` |

Abstractions: time is counted in slots and the next slot of a recurrence is the
next number; a lease is live or not and may run out at any moment, for a turn
may last longer than the TTL; an inline turn succeeds at most once per key, which
is what `SessionProtocol` gives; attempt counters and the routing of
`send_message` are left out; an unknown agent leaves its lease to expire
(`LeaveLease`). `sweep_once` is reached from tests only and is not modelled.
`first`, `ran` and `twice` are history.

**Runs.**

* `sched_channel` (passes): a recurring and a one-off item of one channel and
  turns that create, pause, resume and cancel them, with crashes, restarts,
  failed claims and failed turns.
* `sched_background` (passes): a background standing task and the items its
  turns create, with failures of claim, worker, gate, finalization, projection
  and repair.
* `sched_liveness` (passes): a gated inline and a background task; every due
  slot is fired or skipped in the end.
* `sched_halts` (finding): lease expiry under a long background turn, then a
  gate that skips the re-claimed slot, halts the recurrence for ever. No fault.
* `sched_cancel_undone` (finding): `TerminalForGood` is false for two sessions. An
  item cancelled from a channel other than its own is active again after a restart
  (`slack.rs:1432`), where `projection.rs:310` says "so it never fires again".

`OnePending` and `SlotsInOrder` are further invariants of the same instances.
`RecurrenceNeverHalts` also fails, in instances of no run, once two fires of one
recurring item in a row are not told to its source row (a failed background turn
is not, `slack.rs:922`; nor is a fire whose write fails, `slack.rs:814`) and the
daemon is restarted: the repair un-fires both occurrences (`repair.rs:113`), the
higher is claimed first, and when both have fired again the item waits for a
slot that has fired. Section 11 proves that nothing else halts a recurrence.

**Bounds.** Two slots beyond creation and three occurrences let an item fire,
advance and be re-claimed; two items are what a sweep needs for one to change
under the other; two faults put a crash inside a repair. `sched_channel` has no
gate and `sched_background` no gated background item, because there
`RecurrenceNeverHalts` is false (`sched_halts`). `sched_liveness` has no crash
between a turn and its finalization and no failed finalization: the retry of a
keyed turn that was answered is never served (section 3), so `DueWorkDone` is
false with them. `TerminalForGood` is checked
without failed source writes, in one session and with nothing in the background,
since a cancel from another session (`sched_cancel_undone`), a background one-off
that failed (`slack.rs:922`) and a fire whose write failed (`slack.rs:814`) are
undone by the next repair. How far such an undoing can go is what `EndedForGood`
of `Messaging` says (section 7).

**Fairness.** `WF(Serve)`: the loop runs. `WF(WorkerEnds)`: a turn has a
timeout. `WF(ServeStart)`: a supervisor restarts the daemon. `WF(LeaseExpires)`:
the TTL runs out. `SF(Tick)` and `SF(Drain)`: `run_listener` sweeps and drains
when a read of the socket times out, so they happen again and again only if the
channel falls silent again and again: an assumption about the channel. No
deadlock check: at the last slot everything may have fired.

## 5. Instance

Any number of processes run `setup`, `upgrade` or the daemon of some build; each
has its place `pc`, the database it has open and the migrations it has still to
visit. On disk: per database its rows and the migrations in effect, for sessions
the schema version, for the central database the recorded build; the
directories, the config and the two setup files, which are truncated before they
are written and do not parse in between.

| Code | Actions |
|---|---|
| `assistant_db::apply`, `lazy_migrate` | `Verify`, `BeginMigration` (the row is read outside the transaction), `CommitMigration`, `ApplyDone`, `SetSchemaVersion` |
| `record_versions`, `discover_sessions` | `RecordVersions`, `Discovered` |
| `upgrade_instance`, `sweep_db` | `StartUpgrade`, `Sweep`, `SweepDone` |
| daemon | `StartServe`, `OpenSession`, `StopServe` |
| `bootstrap::run`, `SetupPipeline::run` | `StartSetup`, `LoadPipeline`, `SkipStep`, one action per step, `StepFails`, `TruncateFile`, `SaveRegistry`, `SaveCompleted`, `SaveError`, `SetupComplete` |
| `readiness_gate` | `PassGate`, `StepFails` |
| conformance | `InstanceNewerThanRunner`, `UnsupportedSessionSchema` (pure) |

Abstractions: the SQL of a migration is what it creates and, if it alters, the
version before it; creating the directories and recording the versions are one
step each (the reader takes the latest row); the config is not read again; the
daemon starts only where there are directories; a transient error that a retry
absorbs is a step that has not happened yet, and one that it does not absorb is
`sql_error`.

**Runs.** `instance` (passes; with deadlock check): a behaviour is of the
databases, of the notes or of the console (`part`; the last two are described in
section 9). In the first: an operator that runs setup
or upgrade of either build beside a daemon of either build, one crash, failed
migration or failed step. `instance_downgrade.cfg`: `NewerSchemaFlagged` is
false. The older build's upgrade lowers the schema version of a session
(`session/migrate.rs:174`) and records itself, so that no check flags the newer
schema, where `contracts/assistant-upgrade.md:25` says "an instance newer than
the runner is detected and refused".

**Bounds.** Two builds that differ in a domain migration, a session schema and
the text of a baseline migration give every combination of skip, apply, refuse
and drift; one session with its two databases; one fault, because the state a
process leaves when it dies is on disk and a second one meets the same states.
The theorems hold for any number of each.

## 6. Delegation and JobBoard

Any number of host processes call `assistant-agent-graph` over one database.
Each statement commits by itself, so a call that counts and then inserts
(`create_specialist`, `start_job`), or loads and then updates
(`transition_job`), is two steps and the completion event a third; `calls[h]` is
what a host is in the middle of, and a crash forgets it. No row names a host and
`transition_job` asks for none: it loads a job, computes the next status and
writes it, whatever happened to the row in between. So any host may move any
job, and from a status that is no longer its own. `takers[j]` is history: the
hosts that set job `j` running.

`JobBoard` is what is left to promise: a job is posted once, no hand takes it up
twice, it is answered only after it was taken up, and no profile has more open
jobs than its bound. A hand that is alone moves a job from where it is, so its
end is final; one of several moves it from an open stage it has been in, so a
job that ended may be open again or end otherwise. That is the hazard of
`delegation.rs:118`, and `job.rs` says "terminal states accept no further
transitions": `EndedIsFinal`, false for two hosts and proved for one
(`AloneEndsForGood`).

**Run.** Two parts of `library` (section 10): two hosts, three slugs of groups or
three jobs, profiles with room for one job, a registered one that is no
specialist and an unregistered one, one crash, one run link or cancel request.
`LimitsBounded`: a limit that is counted before it is used is exceeded by at most
one per further host. `ImplementsJobBoard`: the refinement, with that bound.
Three jobs are one more than the bound allows.

## 7. AgentTurn and Messaging

`AgentTurn` is pure: how specialists are resolved from the build and the
configuration, what environment a container gets, which tools the shim makes of
it, and the rows a turn's calls become (`buffered`: what the calls before left
behind); which calls the model makes is nondeterministic. `Messaging` is the serve thread of `host/slack.rs` after a
turn: `pending` is the stack of rows still to be handled (the code recurses
depth first), `items` the schedule, `source` the rows of the items in their
sessions, `effect` the last turn or post. An item is ended from any session, for
the `<schedules>` block lists those of the whole group; `cancel_schedule` finds
the source row in the item's own session only, and `repair_existing_sessions`, at
a start of the daemon, rebuilds any part of the items from what the rows say.

| Code | Actions |
|---|---|
| `handle_event`, `scheduler_tick`, `drain_completed_runas` | `Inbound`, `GateSkips`, `FireInline`, `FireRunAs`, `RunAsFails` |
| `deliver_reply`, internal sessions, `finalize_scheduled_turn` | `DeliverReply` (with `create_schedule`, `cancel_schedule`), `DeliverInternal`, `FinalizeScheduledTurn` |
| `route_send_message` | `HopLimit`, `RouteToOrchestrator`, `RouteToSpecialist`, `RouteToChannel` |
| `ensure_standing_tasks`, `repair_existing_sessions`, end of the process | `Serve`, `Stop` |

**Run.** `messaging` (passes, with deadlock check): a compiled and a configured
specialist, one of them with a dash in its name and one destination that is not
enabled, one channel, one standing task with a gate in a container, one
scheduled item, which is a one-off here (`Recurrences`; the proofs take both),
turns of one call or text, `MAX_DEPTH` as in the code. `EndedForGood` relates the
two stores: what a turn cancels in the item's own session the row knows too, what
the row knows to have ended never starts again, nor does a standing task, and
anything else that ended comes back only at a start of the daemon, from a row
that was not told.
**Fairness**: `WF(Handle)`, the thread goes on with the row at hand.

## 8. AccessPolicy, Permissions, Approvals, CliBridge

`Permissions`: processes that register users, grant and revoke roles, capture
and retire standing instructions; transactions are one step, the other calls one
step per statement with a death in between. `Approvals` adds approvals and
questions; the library takes the time as an argument, so a caller decides with a
time it read before (`ReadClock`, then `Decide`). `CliBridge` is one serving
pass after the other over the outbound stream: `pending_requests`, `Execute`,
`send_response` or its failure at either write, `Restart`.

**Run.** `access` (passes): the three parts do not meet in one database row, so
a behaviour is of one of them (`part`). Two users, two processes, one address
(registered twice), one instruction, one death; one approval and one question
up to time 2; three requests against a batch of one, two failures.
**Fairness**: the caller serves again (`WF(pending_requests)`) and a response is
written in the end (`WF(send_response)`). `EveryRequestAnswered` excepts streams
with a request that cannot be decoded, which blocks all that follow.

## 9. ChannelEvents, Channel, MemoryNotes, Memory, WebConsole

`ChannelEvents` translates the payloads of Slack, Telegram and the terminal to
the neutral event, a text being what the code looks for in it. `Channel` is the
Slack listener: `queue` is what Slack has yet to see acknowledged, `inhand` the
envelope acknowledged and not yet handled, `seen` the bounded guard,
`sticky_engagement` the windows by key, `turning` the message whose turn runs.
Slack repeats events, tells a mention twice and loses connections; the process
dies. `handle_event` is `HandleSkipped`, or `HandleNew` (`Gate`, then `Refuse` or
`Engage`) and `TurnEnds`. `Failures` are what may go wrong in it: the look-ups of
the gate (`slack.rs:1524`, `1535`), which refuse without an audit; the audit, whose
result is ignored; the opening of the window, which costs the window only; the
session (`host_for`). A turn may fail or time out and `deliver` may fail.

**Run.** `channel` (passes): a mention, a reply in its thread, a message at top
level, an author nobody registered until `Register`, a guard of two keys, one
fault, a window of one tick. `engagements` is the history of what engaged the
assistant, in order; `EngagedForAReason` asks for an *earlier* engagement of the
thread, perhaps of the same message: one that Slack repeats after a crash is
taken up again through the window its own first engagement opened.
`EveryMessageSettled`: every message is answered by a reply on Slack, dropped
with a reason in the audit, skipped as one there is nothing to answer to, or
`lost`, and `lost` grows only by the failures above, a failed acknowledgement
that reached Slack, and a crash with the event in hand. The code has each of these
losses and no retry for it; the property says that nothing else loses a message.
**Fairness**: the listener reconnects, reads on and
handles what it has read; a turn has a timeout.

`MemoryNotes` holds the pure parts of `assistant-memory`. In `Memory` three
threads share the notes: turns (`Search`, `TurnRuns`, `SaveMemory`, `WriteNote`,
`CatalogueNote`), the reindex (`Boot`, `StartWalk`, `ReadNote`, `CatalogueRead`,
`WriteCorpus`, `Embed`) and the editor of the console, another process (`Load`,
`Save`, `atomic_write`, `Create`); a write of the daemon truncates first, so
another thread can read an empty file. `build_body` ends every text in a newline,
so no text that is saved is the empty one (`MemoryAssumption`). `write_corpus` clears
the directory, ignoring what it cannot remove (`qmd.rs:232`: `walk.stuck`), and may
stop after a part of the files. `WebConsole` is the token file, the
credentials and origins of a request and its routing.

**Run.** In `instance` (section 5), as parts of their own: one text that can be saved, a note written by hand
and a protected file, two tabs, four pieces of work by people and turns beyond
which nothing new begins; and the combinations of credential, origin, method
and path for the console with two tokens, of which the query gives the first or
none, and two stops. The tabs are symmetric. `RemovedNotesForgotten` excepts the files that
could not be removed, and `NoSilentOverwrite` a save that lands between the
comparison and the rename: the code has both.

## 10. The libraries

`library` (passes) checks parts that share no state, so a behaviour is of one of
them (`part`):

* `Manifests` with `CycleSearch`: people edit modules, fragments and the
  product; `PassedReleaseAssembles` compares the check, whose searches hide
  problems from each other, with what a prompt is rendered to. Two ids, two
  orders, three entries: a duplicate, a missing edge and a cycle at once.
  The pinned version is the current one; any other is refused whatever else holds.
  `visit` goes through a list of nodes with the marks so far; `Fuel` bounds how
  deep it nests, which no search over that many nodes reaches.
* `AgentRun`: three runs, results with and without visible sends, three tries
  over a sink that fails anywhere. `FinalTextOnce`.
* `Handoff`: three groups (symmetric), up to three edges added between handoffs
  and results; `HandoffsTerminate` is about the edges used, not those allowed.
* `Recurrence`: the wall clock in days of four hours of two minutes, months of
  three and two days, and time zones with a gap, an overlap, both, a change at
  midnight, a gap at the end of a day and a lost day; every kind of calendar
  against the first minute, noon and the last minute of a day.
  `CalendarCadence` compares each fire with the definition of what is due for a
  date: its time, read for the first time, or an hour more where the clock leaves
  that out. It says nothing of the day on which the hour more falls: the
  violating run `calendar_late_gap` is about `FiresThatDay`, which `model.rs:262`
  promises. A time lost in a gap that reaches midnight (23:30 in America/Nuuk,
  whose clocks go from 23:00 to 24:00) fires on the next day. The
  scan is nine days instead of 400, more than a year of this calendar. On this
  instance TLC also evaluates `RecurrenceAssumption`, what the proof needs of
  clocks and of the scan.
* `Observe`: notes of two chats and threads, retried, with a store that fails.
* `Recovery`: two recoveries beside a container that starts up to three times,
  is late with its heartbeat, stops or is killed. `RecoveryAlone`.
* `Spawn`: setup that provisions, a process that probes its readiness once and
  starts the containers of the orchestrator and of specialists, and a gateway
  that answers anything each time it is asked. `equip` is the end of
  `ensure_spawned`: volumes and variables of the agent's own specification, the
  configuration of its turns and `WORKSPACE` are added to every container, a stub
  too, after the mounts and the credentials were checked. `ScopedSpawns` is about
  the containers that run: credentials of their own agent where marker and
  certificate are on disk, none otherwise, no blocked bind mount but the
  certificate. It excepts what the agent's own specification sets: such a
  variable overrides the placeholder or the proxy, in a stub too, and such a
  volume is mounted whatever it is, `validate_mounts` having seen neither. One
  specialist of the run goes by a proxy of its own and mounts a volume of a
  blocked kind. What one agent brings along never reaches another.

## 11. Proofs

`SessionProtocolProofs` (constants: any keys, row counts, bounds and faults):

* `TypeCorrect`, `AtMostOnceDelivery` by `TypeOK /\ DeliveryInv`. `NoRedelivery`
  is not inductive: it needs that a started host's watermark covers the
  delivered table, that a poll holds rows beyond it only, and that what was
  handed over had been marked. `HasMax` says that a table with rows has a
  greatest number, without counting.
* `NoReplyOvertaken` adds `PrefixInv`: a poll misses no row between the
  watermark and what it holds.
* `SingleAnswerPerInbound` by `AnswerInv`: handled turns and acknowledged turns
  agree in a running container. It assumes that the processed set can be read at
  start (`"resume_error" \notin Faults`), without which it is false.
* `SessionImplementsMailbox`, from the same invariants and assumption: the
  initial states map to initial states, every step to a step or a stutter.
* `RetriesReuseTheirRow`: `OneRowPerKey` with the types, for a keyed row is only
  inserted where there is none of its key, with a number beyond all others.

`SchedulerProofs` (any items, sessions and bounds; the kinds of items nest as in
`ConstantsAssumption`). The first two hold for every choice of faults. Each of
the others assumes what the code needs for it, and each assumption is met by
`sched_channel`; `NothingGoesUntold` also by `sched_background`:

* `SchedulerTypeCorrect`, and `NoOverlappingWork`: the in-flight set names
  exactly the occurrences with a background turn and each has one, whatever
  expires or dies.
* `RecurrencesGoOn`: `SlotsInOrder` and `RecurrenceNeverHalts`, over crashes,
  restarts, expired leases and failures of claim, turn, gate, finalization,
  projection and repair. It assumes `NothingGoesUntold`: no write of a fire to
  the source fails, no gated item runs in the background, no background turn of
  an item with a source row fails; without any one of them the property is false
  (section 4). Neither property is inductive. `RecurrenceInv` adds that the source
  row is level with the projection or one fire ahead (`SourceOK`), that whatever
  is leased, running or being applied is the pending occurrence its item waits
  for (`Waiting`), and that no occurrence is in two hands. A repair then un-fires
  nothing, and a claim is always the next slot.
* `EachSlotOnce`: `SlotRunsOnce`, if nothing runs in the background and every
  fire is told. `OneOffInv` is the same for one-offs, which have one occurrence;
  `RanInv` ties a slot that ran to the consumed key of its occurrence.
* `EndedStaysEnded`: `TerminalForGood`, if every fire is told, no background turn
  of a one-off fails and there is one session (`EndsAreTold`; two sessions are
  the finding). `EndedInv`: an end is in the source row before it is in the
  projection, also between the two writes. Finalizations, projections and repairs
  may fail.
* `StoresLevelBetweenTurns`: `RecurringConsistent`, if no write of either store
  and no repair fails and there is one session (`WritesSucceed`); crashes may
  fall anywhere. `LevelInv` says by how much the projection may lag while an
  action or a fire is in hand.

`InstanceProofs` (any processes, builds, modules, migrations, sessions):

* `InstanceTypeCorrect` by `TypeOK /\ StepInv`: a process that writes a setup
  file has a step under way, and setup opens no session database.
* `RowsMatchSchemaInvariant`: inductive with the types, because
  `CommitMigration` is the only step that touches either and adds a migration
  that was not in effect.
* `NeverOverclaimsInvariant`, `UpgradeReachesInvariant` by `UpgradeInv`: for a
  process with a session database open, every migration of its build is in
  effect or still to visit (`Reach`); an upgrade has its baseline rows in place
  before it sweeps, and every database it found and took, but the one it has
  open, at its schema (`Swept`). Other processes only add rows, tables and
  files, so what holds of a process goes on to hold while others step.

* `CompletedStepsDoneInvariant` by `DoneInv`: what a setup holds in memory as
  completed, or is about to record, has had its effect too (`StepsOK`); the
  checks it is about to save are whole (`RegistryOK`); the migrations of its step
  are in effect or still to visit (`MigrateOK`). No step of another process
  undoes an effect (`EffectsStay`).

`DelegationProofs` (any hosts, jobs, slugs and profiles, finite in number):

* `MovesAreFromLoadedStages` by `CallsOK`: between the load and the update of
  `transition_job` a host holds what the table gives for an open stage the job has
  been in; with one host, for the one it is in. A host that is about to start a job
  is not among those that have taken it up.
* `LimitsOverrunBounded` by `RoomInv`: open jobs, *those that a stale update is
  about to open again, and the hosts that have counted and not yet inserted* stay
  within the limit plus the number of hosts less one; the same for groups.
  Without the further summands it is not inductive.
* `JobBoardImplemented`, from both: every step maps to a step of `JobBoard` or a
  stutter, and what opens a job finds room because of `RoomInv`.
* `AloneEndsForGood`: `EndedIsFinal` if there is one host.

`AccessProofs` (any users, processes, requests and bounds):

* `OwnersAreUnique` by `PeopleInv`: roles and routes have users, an admin is
  remembered in `ever_admin`, and a process between two statements of a call
  holds what it has checked (`CallOK`).
* `DecisionsStand` by `PeopleInv /\ ApprovalsInv`: a decision under way names an
  approval that is there; the step of the property is `Settled`.
* `CommandsRunOnce` (`RunOnce`, an invariant that no run checks) by `BridgeInv`: what ran without a failure of its own is
  behind the high water mark, the batch in hand ahead of it. That a batch has a
  first request is `LeastNumber`, from the well-foundedness of `<`.

`MessagingProofs` (any registered specialists, tools, tasks and depth):

* `PostsAreWired`, `DestinationsAreKept` by `StackInv`: every row on the stack is
  one that the path of its turn and the tools of its author allow (`RowOK`). The
  work is in what `rows` makes of a turn's calls.
* `SessionsAreStable` by `SessionsInv`: every row on the stack and every scheduled
  item carries a session that is a root or an agent's session for a root, and
  one of the orchestrator's when its turn was the orchestrator's; the items
  matter because a session waits there for as long as a schedule does. It rests
  on `RootOfARoot` and `RootOfASession`: `conversation_root` gives the root back.
  The recursion in it has a solution by the well-foundedness of `<`
  (`DefinedFromAbove`), so it can be unfolded. It assumes `NamesApart`, which the
  instance of the run satisfies (`ASSUME` in `MCMessaging`) and which is needed:
  with agents `ax` and `ax-docs`, in this order, the root of `a2a-ax-docs-C1` is
  `docs-C1`, and the session of the next hop is longer.
* `EndedItemsStayEnded` (`EndedForGood`) by `ItemsInv`: an item that has a source
  row agrees with it on the session, and a standing task has no row, so that a repair never touches it. Every
  action moves both tables along the lifecycle (`BothMove`) or makes an item whose
  row was not there. It assumes that `None` is no status and no agent.

`ChannelProofs` (any messages, capacities, windows, faults; any routes):

* `OneTurnForAMessage`, `EngagementsHaveReasons` by `ChannelInv`: envelopes are of
  messages that were posted (`EnvelopesOK`); what had a turn is remembered or was
  forgotten (`SeenOK`); every window goes back to an engagement of its thread and
  ends one window's time after it (`WindowsOK`). They assume that a message's
  time stamp is its identity, as in Slack. The proof corrected the property: a
  form that excluded the message itself held on the small instance only.
* `TrustedOrigins` by `ConsoleInv`: an answer was given by the console that runs,
  with the secret it holds.

`LibraryProofs` (parts that share no state, and `Memory`):

* `RecoveryIsAlone` by `RecoveryInv`: holders of the lock exclude each other, the
  status row covers a running container, and what a recovery saw under the lock
  is behind every container it meets.
* `SpawnsAreScoped`: whatever `Answers` the gateway may give and whatever volumes and
  variables the specifications have. What is prepared satisfies `ScopedSpec`, and
  fetching and equipping keep it (`ExtendedEnv`, `EquippedScoped`): the keys they
  override are the gateway's for this agent or the agent's own.
* `FinalTextDeliveredOnce` by `AgentInv`: a final text that is still to be emitted
  is recorded in the ledger and was not emitted before (`FallbackDue`), and one
  that was emitted stays in the ledger (`SentInLedger`).
* `ObservedNotesStayHome` by `ObserveInv`: what is stored was accepted by the gate
  for its source and text, its key is behind the watermark, no key twice.
* `SavesCompareVersions`, `SavedNotesStayRetrievable`, `ReindexCatchesUp`,
  `SearchForgetsRemovedNotes` by `MemoryInv`: a save in progress that nobody
  overtook has the file as its tab read it (`RequestOK`); a file with an id of
  its own was written by a person or is the host's note at the path of its text
  (`FilesOK`), so that a walk can replace the row of a saved note only by what
  the host would write; what the walk has read is still so unless touched
  (`WalkOK`); the catalog agrees with the untouched files behind the walk
  (`BehindTheWalk`); what goes to the index has a file (`IndexOK`). Any texts,
  paths, tabs and work; it assumes that the walk sorts all paths a note can have.
* `HandoffsEnd` by `HandoffInv`: the groups can be numbered so that every used
  edge goes down, the used edges are still allowed, and a handoff in an inbox, or
  a result that was routed, belongs to a used edge, so that a result adds none.
  A new edge is used only if the whole allow-list has no cycle
  (`AcyclicDescends`). It assumes finitely many groups.
* `ReleaseAssembles`: an accepted graph can be numbered too, and a fragment's place
  in the prompt is the number of fragments sorted before it (`PromptByPlace`),
  which grows along the declared order. It assumes that orders are natural
  numbers (`u32`).
* Both rest on `NoCycleGoesDown`: if the search meets no node that is being
  visited, every finite graph has such a numbering. The recursion is unfolded
  by iteration from the well-foundedness of `<` (`SearchExists`), and the
  numbering of the finished nodes is extended each time a node is finished.
* `CalendarKeepsCadence` by `CalendarItem`: the next time is the first that is due
  from what it was computed from. A time is read twice only when the clock is set
  back (`SetBack`) and never only when it is set forward (`ReadOrGap`); so each
  date has at most one due time, later than those of earlier dates (`DueInOrder`),
  and the scan reaches the next one (`ScanReaches`). The due time of a date may lie
  on the next one, past a gap that reaches midnight; then the scan from it begins
  a date later and still misses nothing. `RecurrenceAssumption` says what this
  needs: changes of a clock are further apart than they move it and set it back by
  a day at most (`IsClock`); a day has more than one hour; and every
  stretch of the length scanned has a firing day that no gap swallows
  (`ScanSuffices`; the code scans 400 days, `model.rs:200`, in which a monthly
  item has 13, `clamp_day` seeing to short months). Which days fire repeats after
  seven years, so that the stretches of seven years and those at a lost day stand
  for all. A zone has finitely many changes here.

Model-checked only:

* liveness (`EveryTurnAnswered`, `DueWorkDone`, `CascadeEnds`,
  `EveryRequestAnswered`, `EveryMessageSettled`): fairness is beyond the prover;
* that the search of `CycleSearch` never sees a cycle where there is none, which
  no property needs: a search that refused too much would still be safe.

## 12. Known limits of the code that no run states

The models have these behaviours; they are not claimed otherwise by any
property:

* scheduler: an item that an earlier turn of the same sweep cancelled fires once
  more; a turn that cancels its own one-off leaves `completed` in the source and
  `cancelled` in the projection; a crash between a background turn and its
  finalization runs the turn again; a failed background one-off, or a failed
  write of the fire to the source, is active again after the next repair, and two
  such fires of one recurring item before a restart halt it (section 4); two
  equal requests within a second share an item id;
* setup: a crash while `state.json` or `readiness.json` is rewritten leaves a
  file that does not parse, and setup ends there until it is removed by hand; a
  completed `configure_onecli` that recorded `pending` is never run again, so a
  gate behind it never passes; a completed `migrate_domain_db` is skipped by the
  setup of a newer build;
* messaging: a specialist's turn in the background creates, cancels or pauses
  items through the directory of the item's session, and that of the standing
  session exists only if some standing task runs inline, so such calls of the
  turn of a standing task may fail (`HasDirectory`); the host never compares a recipient with the sender's destinations,
  only the enumeration in the container does; `conversation_root` splits a name
  wrongly when one route name is a prefix of another up to a dash (`NamesApart`
  of `Messaging` says when it does not, and is what `SessionsAreStable` assumes); a
  `send_message` row of an ordinary channel turn is dropped; memory and
  cancellation rows of relay and agent sessions are ignored; the text of a turn
  in the standing session is posted to a chat id that is no channel;
* access: a request that cannot be decoded fails the bridge's pass for all; a
  failed mark runs a command again; a restart of the bridge replays what it had
  served; an address may be registered by two users; who loses a role keeps
  sender access. Bridge, approvals, grants and captures are library code that
  the host does not call yet;
* channel: an acknowledgement that failed but reached Slack, or a crash after
  it, loses the message; two edits of one Slack message share a key, as a
  Telegram edit does with its message; ids of the terminal channel start again
  after a drain;
* memory: a save in the editor re-classifies a note only at the next reindex,
  although `entry.rs` says "never eligible for RAG until an explicit editor save
  re-classifies it"; rows of removed files stay; one unreadable file ends the
  reindex; a note written by hand with the text of a saved one takes over its
  row; a turn's save overwrites an operator's edit of the same note; a first
  start of the console that fails after minting the secret never shows it;
* libraries: a final text whose emission failed is never delivered, for the
  ledger is written first; `collect_result` may return the result of an earlier
  handoff; a killed container leaves its status
  `alive`, which refuses recovery for ever; a recovery that dies leaves its
  lock file; a container that starts after the check under the lock meets an
  open recovery; two spawns that overlap a rotation of the gateway's certificate
  may leave the older one in `ca.pem` (its content is not modelled).

## 13. Not modelled

The calls to the language model and the texts of tools; formatting of Slack,
Telegram and web pages; HTTP parsing below the request; configuration parsing
and path derivation (pure, without state); image references of containers;
signal handling; `assistant-capabilities` and the adapter registry of
the router (filled at start and not changed); `assistant-product` (constants);
attachments and their forwarding; usage rows; memory health counts and nudges;
the upgrade's dry run; `sweep_once`, which only tests call. Docker, OneCLI, curl
and the search index are external: their outcomes are nondeterministic here.
