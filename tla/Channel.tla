------------------------------ MODULE Channel -------------------------------
(***************************************************************************)
(* The Slack path of the host: the Socket Mode listener, the guard against *)
(* redeliveries, the gate (who may speak, and what engages the assistant)  *)
(* and the turn it drives.                                                 *)
(*                                                                         *)
(* The listener is one thread: it acknowledges an event and then handles   *)
(* it to the end before it reads the next.  Slack keeps an event until it  *)
(* has seen its acknowledgement, may send it again, and tells a mention    *)
(* twice (as a message and as an app_mention).  The process may die        *)
(* anywhere; what it has seen is in memory, the engagement windows and the *)
(* audit of drops are in the database.                                     *)
(***************************************************************************)
EXTENDS ChannelEvents, AccessPolicy, FiniteSets

CONSTANTS
    Messages,        \* the messages people post, by ts
    About,           \* About[m]: the message, as Slack's fields
    ChannelType,     \* ChannelType[m]
    Identity,        \* of the bot
    Users, Addresses,
    policy,          \* for unknown senders
    mode,            \* the engagement mode
    SEEN_CAPACITY,
    STICKY_TTL_SECS,
    MaxFaults,       \* bound: crashes, repeats, failures of the network and the database
    Horizon          \* bound: the last reading of the clock

ASSUME ChannelAssumption ==
    /\ policy \in UnknownPolicy /\ mode \in {"pattern", "mention", "mention_sticky"}
    /\ SEEN_CAPACITY \in Nat \ {0} /\ STICKY_TTL_SECS \in Nat
    /\ MaxFaults \in Nat /\ Horizon \in Nat
    /\ IsFiniteSet(Messages) /\ Absent \notin Messages
    /\ \A m \in Messages : About[m].ts = m

VARIABLES
    clock,
    routes,            \* routes[u]: the address registered for u, or Absent
    queue,             \* the envelopes Slack holds: <<type, message>>
    posted,            \* the messages posted so far
    conn,              \* the connection: "down", "up", or "stopped"
    inhand,            \* the envelope acknowledged and not yet handled, or NoEnvelope
    turning,           \* the message whose turn runs, or Absent
    seen,              \* the recent dedupe keys, oldest first
    sticky_engagement, \* expiry of each window, by engagement key; 0 is no window
    dropped_messages,  \* the audited drops: <<message, reason>>
    turns,             \* how often this process ran a turn for each message
    evicted,           \* the keys this process forgot
    engagements,       \* history: [message, at] of each that passed the gate, in order
    replies,           \* <<message, thread root>> of what was posted on Slack
    lost,              \* history: messages taken from Slack and then lost
    faults

memory == <<conn, inhand, turning, seen, turns, evicted>>
history == <<engagements, lost, replies>>
vars == <<clock, routes, queue, posted, memory, sticky_engagement, dropped_messages, history, faults>>

NoEnvelope == <<Absent, Absent>>

\* The envelope Slack makes of message m.
Envelope(type, m) ==
    [type |-> type, subtype |-> Absent, message |-> About[m], channel_type |-> ChannelType[m],
     user |-> About[m].user, bot_id |-> About[m].bot_id, emoji |-> Absent]

Types(m) == {"message"} \cup IF About[m].text.mention THEN {"app_mention"} ELSE {}

WindowKeys ==
    {engagement_key("slack", About[m].channel, r) : m \in Messages, r \in Messages \cup {Absent}}

Init ==
    /\ clock = 0
    /\ routes = [u \in Users |-> Absent]
    /\ queue = {} /\ posted = {}
    /\ conn = "down" /\ inhand = NoEnvelope /\ turning = Absent
    /\ seen = <<>> /\ evicted = {}
    /\ sticky_engagement = [k \in WindowKeys |-> 0]
    /\ dropped_messages = {}
    /\ turns = [m \in Messages |-> 0]
    /\ engagements = <<>> /\ lost = {} /\ replies = {}
    /\ faults = 0

-----------------------------------------------------------------------------
(* People, Slack and the clock *)

Tick ==
    /\ clock < Horizon
    /\ clock' = clock + 1
    /\ UNCHANGED <<routes, queue, posted, memory, sticky_engagement, dropped_messages, history, faults>>

\* register-user binds a user's address, in place of the one it had.
Register(u, a) ==
    /\ routes[u] # a
    /\ routes' = [routes EXCEPT ![u] = a]
    /\ UNCHANGED <<clock, queue, posted, memory, sticky_engagement, dropped_messages, history, faults>>

\* Somebody posts m, after the root of its thread.
Post(m) ==
    /\ m \notin posted
    /\ About[m].thread_ts \in posted \cup {Absent, m}
    /\ posted' = posted \cup {m}
    /\ queue' = queue \cup (Types(m) \X {m})
    /\ UNCHANGED <<clock, routes, memory, sticky_engagement, dropped_messages, history, faults>>

\* Slack repeats an event that was acknowledged.
Redeliver(e) ==
    /\ e[2] \in posted /\ e[1] \in Types(e[2]) /\ e \notin queue
    /\ faults < MaxFaults
    /\ queue' = queue \cup {e}
    /\ faults' = faults + 1
    /\ UNCHANGED <<clock, routes, posted, memory, sticky_engagement, dropped_messages, history>>

\* The sweep and the reset of engagement windows.
expire_sticky(k) ==
    /\ sticky_engagement[k] # 0 /\ sticky_engagement[k] <= clock
    /\ sticky_engagement' = [sticky_engagement EXCEPT ![k] = 0]
    /\ UNCHANGED <<clock, routes, queue, posted, memory, dropped_messages, history, faults>>

reset_sticky(k) ==
    /\ sticky_engagement[k] > clock
    /\ sticky_engagement' = [sticky_engagement EXCEPT ![k] = 0]
    /\ UNCHANGED <<clock, routes, queue, posted, memory, dropped_messages, history, faults>>

-----------------------------------------------------------------------------
(* The listener *)

Open ==
    /\ conn = "down"
    /\ conn' = "up"
    /\ UNCHANGED <<clock, routes, queue, posted, inhand, turning, seen, turns, evicted,
                   sticky_engagement, dropped_messages, history, faults>>

\* apps.connections.open is refused: the listener ends.
OpenFatal ==
    /\ conn = "down" /\ faults < MaxFaults
    /\ conn' = "stopped"
    /\ faults' = faults + 1
    /\ UNCHANGED <<clock, routes, queue, posted, inhand, turning, seen, turns, evicted,
                   sticky_engagement, dropped_messages, history>>

(* Mutant: a connection that closes ends the listener. *)
MutantStopOnClose ==
    /\ conn = "up" /\ inhand = NoEnvelope /\ turning = Absent
    /\ faults < MaxFaults
    /\ conn' = "closed"
    /\ faults' = faults + 1
    /\ UNCHANGED <<clock, routes, queue, posted, inhand, turning, seen, turns, evicted,
                   sticky_engagement, dropped_messages, history>>

\* A disconnect frame, or a read that fails: reconnect.
Close ==
    /\ conn = "up" /\ inhand = NoEnvelope /\ turning = Absent
    /\ faults < MaxFaults
    /\ conn' = "down"
    /\ faults' = faults + 1
    /\ UNCHANGED <<clock, routes, queue, posted, inhand, turning, seen, turns, evicted,
                   sticky_engagement, dropped_messages, history>>

Reading(e) ==
    /\ conn = "up" /\ inhand = NoEnvelope /\ turning = Absent
    /\ e \in queue
    /\ parse_incoming([wellformed |-> TRUE, kind |-> "events_api", has_id |-> TRUE, has_event |-> TRUE]) = "event"

\* pump: the acknowledgement goes through and the event is in hand.
Acknowledge(e) ==
    /\ Reading(e)
    /\ queue' = queue \ {e}
    /\ inhand' = e
    /\ UNCHANGED <<clock, routes, posted, conn, turning, seen, turns, evicted,
                   sticky_engagement, dropped_messages, history, faults>>

\* The acknowledgement fails: the event is not routed, and the connection is
\* opened anew.  Slack may have received it all the same.
AcknowledgeFails(e) ==
    /\ Reading(e) /\ faults < MaxFaults
    /\ conn' = "down"
    /\ faults' = faults + 1
    /\ \/ UNCHANGED <<queue, lost>>
       \/ queue' = queue \ {e} /\ lost' = lost \cup {e[2]}
    /\ UNCHANGED <<clock, routes, posted, inhand, turning, seen, turns, evicted,
                   sticky_engagement, dropped_messages, engagements, replies>>

-----------------------------------------------------------------------------
(* The gate *)

is_engaged(ev, sticky) ==
    CASE mode = "pattern" -> ~ev.text.empty
      [] mode = "mention" -> ev.is_mention \/ ev.is_direct
      [] OTHER -> ev.is_mention \/ ev.is_direct \/ sticky

has_active_sticky(key) == sticky_engagement[key] > clock

\* Scope All and policy Drop, as the host calls it.
evaluate_engagement(ev, sticky) ==
    IF ev.is_self_author THEN "ignore"
    ELSE IF is_engaged(ev, sticky) THEN "engage" ELSE "not_engaged"

(* Mutant: the window is the channel's, not the thread's. *)
MutantWholeChannel(ev) ==
    IF mode # "mention_sticky" THEN sticky_engagement
    ELSE [k \in WindowKeys |-> IF k \in {engagement_key("slack", ev.chat_id, Absent), ev.engagement_key}
                               THEN clock + STICKY_TTL_SECS ELSE sticky_engagement[k]]

\* The window is that of the thread in which the reply lands.
ThreadRoot(ev) == IF ev.thread_root_id = Absent THEN ev.platform_message_id ELSE ev.thread_root_id

open_sticky(ev) ==
    IF mode # "mention_sticky" THEN sticky_engagement
    ELSE [sticky_engagement EXCEPT ![engagement_key("slack", ev.chat_id, ThreadRoot(ev))] =
             clock + STICKY_TTL_SECS]

\* What passes_gate decides, and its reason for a drop.  When the database
\* fails, under the look-up of the sender or that of the window, it refuses
\* without a reason.
Gate(ev, failing) ==
    IF "lookup" \in failing THEN "error"
    ELSE IF evaluate_sender(routes, ev.sender_id, policy) # "allow" THEN "unknown_sender"
    ELSE evaluate_engagement(ev, has_active_sticky(ev.engagement_key))

-----------------------------------------------------------------------------
(* The handler *)

\* RecentlySeen: the oldest key makes room.
Remember(key) ==
    Append(IF Len(seen) >= SEEN_CAPACITY THEN Tail(seen) ELSE seen, key)

(* Mutant: only the last key is compared. *)
MutantLastOnly(key) == seen # <<>> /\ seen[Len(seen)] = key

Seen(key) == \E i \in DOMAIN seen : seen[i] = key

Done == inhand' = NoEnvelope

\* What may fail on the way to a turn: the gate's look-ups, the audit of a
\* drop, the opening of the window, the session of the channel.
Failures == {"lookup", "record", "window", "host"}

\* The bot's own, not new, or empty.
NothingToAnswer(ev) == ev.is_self_author \/ ev.state # "new" \/ ev.text.empty

Skip(ev) == NothingToAnswer(ev) \/ Seen(ev.dedupe_key)

HandleSkipped ==
    /\ inhand # NoEnvelope /\ turning = Absent
    /\ \A ev \in normalize(Envelope(inhand[1], inhand[2]), Identity) : Skip(ev)
    /\ Done
    /\ UNCHANGED <<clock, routes, queue, posted, conn, turning, seen, turns, evicted,
                   sticky_engagement, dropped_messages, history, faults>>

\* The gate refuses m.  An audit that fails is ignored, and a refusal for an
\* error has none: m is answered by nothing and remembered by nothing.
Refuse(m, decision, failing) ==
    /\ Done
    /\ IF decision = "error" \/ "record" \in failing
         THEN lost' = lost \cup {m} /\ UNCHANGED dropped_messages
         ELSE dropped_messages' = dropped_messages \cup {<<m, decision>>} /\ UNCHANGED lost
    /\ UNCHANGED <<sticky_engagement, turning, turns, engagements>>

\* m passes the gate.  A window that cannot be opened costs the window only; a
\* channel without a session costs the turn, after the window was opened.
Engage(m, ev, failing) ==
    /\ sticky_engagement' = IF "window" \in failing THEN sticky_engagement ELSE open_sticky(ev)
    /\ engagements' = Append(engagements, [message |-> m, at |-> clock])
    /\ IF "host" \in failing
         THEN Done /\ lost' = lost \cup {m} /\ UNCHANGED <<turning, turns>>
         ELSE /\ turning' = m
              /\ turns' = [turns EXCEPT ![m] = @ + 1]
              /\ UNCHANGED <<inhand, lost>>
    /\ UNCHANGED dropped_messages

\* handle_event up to the turn: the key is remembered first, then the gate.
HandleNew ==
    /\ inhand # NoEnvelope /\ turning = Absent
    /\ \E ev \in normalize(Envelope(inhand[1], inhand[2]), Identity), failing \in SUBSET Failures :
         /\ ~Skip(ev)
         /\ failing # {} => faults < MaxFaults
         /\ faults' = faults + (IF failing = {} THEN 0 ELSE 1)
         /\ seen' = Remember(ev.dedupe_key)
         /\ evicted' = evicted \cup ({seen[i] : i \in DOMAIN seen} \ {seen'[i] : i \in DOMAIN seen'})
         /\ IF Gate(ev, failing) = "engage"
              THEN Engage(inhand[2], ev, failing)
              ELSE Refuse(inhand[2], Gate(ev, failing), failing)
    /\ UNCHANGED <<clock, routes, queue, posted, conn, replies>>

\* A call of Slack's Web API: curl and the body it prints.
CallOutcomes == {"ok", "spawn", "transport", "api", "parse", "io"}
parse_ok(wellformed, ok) == IF ~wellformed THEN "parse" ELSE IF ok THEN "ok" ELSE "api"
api_call(spawned, io, exited, wellformed, ok) ==
    IF ~spawned THEN "spawn" ELSE IF ~io THEN "io" ELSE IF ~exited THEN "transport"
    ELSE parse_ok(wellformed, ok)

\* deliver: only a channel that was started posts, and any error is the same.
deliver(connected, call) ==
    IF ~connected THEN "not_connected" ELSE IF call = "ok" THEN "ok" ELSE "delivery"

\* run_turn returns with an error, a timeout among them, or with a reply (one
\* stands for all of a turn's), which is posted under the thread's root.  An
\* error of the turn or of the delivery is logged, and nothing tries again.
TurnEnds ==
    /\ turning # Absent
    /\ turning' = Absent
    /\ Done
    /\ \/ lost' = lost \cup {turning} /\ UNCHANGED replies
       \/ \E spawned, io, exited, wellformed, ok \in BOOLEAN, ev \in normalize(Envelope("message", turning), Identity) :
             IF deliver(TRUE, api_call(spawned, io, exited, wellformed, ok)) = "ok"
               THEN replies' = replies \cup {<<turning, ThreadRoot(ev)>>} /\ UNCHANGED lost
               ELSE lost' = lost \cup {turning} /\ UNCHANGED replies
    /\ UNCHANGED <<clock, routes, queue, posted, conn, seen, turns, evicted,
                   sticky_engagement, dropped_messages, engagements, faults>>

\* The process dies and is started again: what it had in hand is gone.
Crash ==
    /\ faults < MaxFaults
    /\ faults' = faults + 1
    /\ conn' = "down" /\ Done /\ turning' = Absent
    /\ seen' = <<>> /\ evicted' = {} /\ turns' = [m \in Messages |-> 0]
    /\ lost' = IF inhand = NoEnvelope THEN lost ELSE lost \cup {inhand[2]}
    /\ UNCHANGED <<clock, routes, queue, posted, sticky_engagement, dropped_messages, engagements, replies>>

Next ==
    \/ Tick
    \/ \E u \in Users, a \in Addresses : Register(u, a)
    \/ \E m \in Messages : Post(m)
    \/ \E m \in Messages, t \in {"message", "app_mention"} :
          \/ Redeliver(<<t, m>>)
          \/ Acknowledge(<<t, m>>)
          \/ AcknowledgeFails(<<t, m>>)
    \/ \E k \in WindowKeys : expire_sticky(k) \/ reset_sticky(k)
    \/ Open \/ OpenFatal \/ Close
    \/ HandleSkipped \/ HandleNew \/ TurnEnds
    \/ Crash

\* The listener reconnects, reads on and handles what it has read; the turn has
\* a timeout.
Fairness ==
    /\ WF_vars(Open)
    /\ WF_vars(\E e \in queue : Acknowledge(e))
    /\ WF_vars(HandleSkipped \/ HandleNew) /\ WF_vars(TurnEnds)

Spec == Init /\ [][Next]_vars /\ Fairness

-----------------------------------------------------------------------------
(* Properties *)

TypeOK ==
    /\ routes \in [Users -> Addresses \cup {Absent}]
    /\ conn \in {"down", "up", "stopped"}
    /\ Len(seen) <= SEEN_CAPACITY
    /\ turning \in Messages \cup {Absent}
    /\ lost \subseteq posted

(* One process runs at most one turn for a message, although Slack tells a
   mention twice and repeats what it has sent, unless so many other messages
   came in between that the key was forgotten.                             *)
OneTurnPerMessage ==
    \A m \in Messages : turns[m] > 1 => dedupe_key("slack", About[m].channel, <<m>>) \in evicted

(* The assistant speaks when it is spoken to: whatever engages it mentions it,
   is a direct message, or continues a thread in which it had been engaged
   less than the window before, across restarts, sweeps and resets, and
   messages at a channel's top level always need the mention.              *)
EngagedForAReason ==
    mode = "mention_sticky" =>
    \A i \in DOMAIN engagements :
       LET e == engagements[i] IN
       \/ About[e.message].text.mention \/ ChannelType[e.message] = "im"
       \/ /\ About[e.message].thread_ts \notin {Absent, e.message}
          /\ \E j \in 1 .. i - 1 :
               LET f == engagements[j] IN
               /\ f.at <= e.at /\ e.at < f.at + STICKY_TTL_SECS
               /\ About[e.message].thread_ts \in {About[f.message].thread_ts, f.message}

Answered(m) == \E root \in Messages : <<m, root>> \in replies
Audited(m) == \E reason \in {"unknown_sender", "not_engaged"} : <<m, reason>> \in dropped_messages
Ignorable(m) ==
    \A t \in Types(m) : \A ev \in normalize(Envelope(t, m), Identity) : NothingToAnswer(ev)

(* Every message posted is answered on Slack, dropped with a reason in the
   audit, or one that asks for nothing, unless Slack refused the app or the
   message is one of the lost: a failed acknowledgement had reached Slack, the
   process died with the event in hand, the database failed under the gate or
   the audit, the channel had no session, or the turn or the delivery failed.
   The code logs each of these and has no retry; nothing else loses a message:
   neither the second telling of a mention nor a connection that is closed,
   a queue left over, a window swept or reset.                             *)
EveryMessageSettled ==
    \A m \in Messages :
        m \in posted ~> (Answered(m) \/ Audited(m) \/ Ignorable(m) \/ m \in lost \/ conn = "stopped")
=============================================================================
