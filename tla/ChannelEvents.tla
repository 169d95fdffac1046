--------------------------- MODULE ChannelEvents ----------------------------
(***************************************************************************)
(* What the channels make of the payloads of their platforms: the neutral  *)
(* routing event of assistant-router, from Slack, from Telegram and from   *)
(* the terminal.  A text is what the code looks for in it: whether it      *)
(* names the bot and whether it is empty.  A key that the code joins with  *)
(* colons is a tuple.                                                      *)
(***************************************************************************)
EXTENDS Naturals, Sequences

Absent == "none"                    \* an absent field

MessageState == {"new", "edited", "deleted", "reaction"}

dedupe_key(kind, chat, seed) == <<kind, chat, seed>>

\* A thread is a conversation of its own, apart from the channel's top level.
engagement_key(kind, chat, root) == IF root = Absent THEN <<kind, chat>> ELSE <<kind, chat, root>>

-----------------------------------------------------------------------------
(* Slack *)

\* An identity is [bot_user_id, self_bot_id].
is_self_author(user, bot_id, id) ==
    \/ user = id.bot_user_id
    \/ bot_id # Absent /\ bot_id = id.self_bot_id

SlackSender(user, bot_id) == IF user # Absent THEN user ELSE bot_id

\* build: m is the message [channel, ts, thread_ts, user, bot_id, text] the
\* event is about; a thread's root carries its own ts and stays at top level.
build(m, seed, channel_type, force_mention, state, id) ==
    LET root == IF m.thread_ts = m.ts THEN Absent ELSE m.thread_ts IN
    [channel_kind |-> "slack",
     chat_id |-> m.channel,
     sender_id |-> SlackSender(m.user, m.bot_id),
     platform_message_id |-> m.ts,
     thread_root_id |-> root,
     engagement_key |-> engagement_key("slack", m.channel, root),
     state |-> state,
     is_mention |-> force_mention \/ m.text.mention,
     is_direct |-> channel_type = "im",
     is_self_author |-> is_self_author(m.user, m.bot_id, id),
     dedupe_key |-> dedupe_key("slack", m.channel, seed),
     text |-> m.text]

NoText == [mention |-> FALSE, empty |-> TRUE]

\* The event of a message: the set is empty when it is not one we route.  An
\* edit and a deletion share the message's ts, so the key holds the state.
normalize_message(env, id) ==
    LET m == env.message
        tombstone == [m EXCEPT !.user = Absent, !.bot_id = Absent, !.text = NoText]
    IN CASE env.subtype = "message_changed" ->
              {build(m, <<m.ts, "edited">>, env.channel_type, env.type = "app_mention", "edited", id)}
         [] env.subtype = "message_deleted" ->
              {build(tombstone, <<m.ts, "deleted">>, env.channel_type, FALSE, "deleted", id)}
         [] env.subtype = Absent ->
              {build(m, <<m.ts>>, env.channel_type, env.type = "app_mention", "new", id)}
         [] OTHER -> {}

\* A reaction targets a message; its key also holds the emoji and who reacted.
normalize_reaction(env, id) ==
    LET m == env.message IN
    {[channel_kind |-> "slack",
      chat_id |-> m.channel,
      sender_id |-> env.user,
      platform_message_id |-> m.ts,
      thread_root_id |-> Absent,
      engagement_key |-> engagement_key("slack", m.channel, Absent),
      state |-> "reaction",
      is_mention |-> FALSE,
      is_direct |-> FALSE,
      is_self_author |-> is_self_author(env.user, env.bot_id, id),
      dedupe_key |-> dedupe_key("slack", m.channel, <<m.ts, "reaction", env.emoji, env.user>>),
      text |-> NoText]}

\* normalize, of an event whose fields are there.
normalize(env, id) ==
    CASE env.type = "reaction_added" -> normalize_reaction(env, id)
      [] env.type \in {"message", "app_mention"} -> normalize_message(env, id)
      [] OTHER -> {}

\* parse_incoming: what the listener does with a frame.
Incoming == {"hello", "disconnect", "event", "ack_only", "ignored"}

parse_incoming(f) ==
    CASE ~f.wellformed -> "ignored"
      [] f.kind = "hello" -> "hello"
      [] f.kind = "disconnect" -> "disconnect"
      [] f.kind = "events_api" /\ f.has_id /\ f.has_event -> "event"
      [] OTHER -> IF f.has_id THEN "ack_only" ELSE "ignored"

-----------------------------------------------------------------------------
(* Telegram *)

\* A mention entity counts when its span is exactly the bot's handle, a
\* text_mention when its user is the bot.
mentions_bot(entities, id) ==
    \E e \in entities : \/ e.type = "mention" /\ e.span = id.bot_username
                        \/ e.type = "text_mention" /\ e.user = id.bot_id

\* An update carries a new message or an edited one, and the key does not tell.
telegram_normalize(update, id) ==
    IF ~update.has_message THEN {}
    ELSE LET m == update.message IN
    {[channel_kind |-> "telegram",
      chat_id |-> m.chat,
      sender_id |-> m.from,
      platform_message_id |-> m.message_id,
      thread_root_id |-> m.message_thread_id,
      engagement_key |-> engagement_key("telegram", m.chat, m.message_thread_id),
      state |-> IF update.edited THEN "edited" ELSE "new",
      is_mention |-> mentions_bot(m.entities, id),
      is_direct |-> m.private,
      is_self_author |-> m.from_is_bot /\ m.from = id.bot_id,
      dedupe_key |-> dedupe_key("telegram", m.chat, <<m.message_id>>),
      text |-> m.text]}

-----------------------------------------------------------------------------
(* The terminal *)

local_sender(user) == <<"local", IF user = Absent THEN "cli" ELSE user>>

resolve_sender(raw, user) == IF raw = Absent THEN local_sender(user) ELSE <<"local", raw>>

\* One direct conversation without threads.
normalize_event(chat, user, self, message_id, text) ==
    [channel_kind |-> "cli",
     chat_id |-> chat,
     sender_id |-> resolve_sender(Absent, user),
     platform_message_id |-> message_id,
     thread_root_id |-> Absent,
     engagement_key |-> engagement_key("cli", chat, Absent),
     state |-> "new",
     is_mention |-> FALSE,
     is_direct |-> TRUE,
     is_self_author |-> self = resolve_sender(Absent, user),
     dedupe_key |-> dedupe_key("cli", chat, <<message_id>>),
     text |-> text]
=============================================================================
