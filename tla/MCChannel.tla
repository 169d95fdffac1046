----------------------------- MODULE MCChannel ------------------------------
(* One channel: a mention, a reply in its thread that mentions nobody, and a
   message at top level that mentions nobody. *)
EXTENDS Channel, TLC

CONSTANTS rob, U1

Text(mention) == [mention |-> mention, empty |-> FALSE]
Plain(m, thread, mention) ==
    [channel |-> "C", ts |-> m, thread_ts |-> thread, user |-> U1, bot_id |-> Absent, text |-> Text(mention)]

MCAbout == [m \in Messages |->
    CASE m = "t1" -> Plain("t1", Absent, TRUE)
      [] m = "t2" -> Plain("t2", "t1", FALSE)
      [] OTHER -> Plain(m, Absent, FALSE)]
MCChannelType == [m \in Messages |-> "channel"]
MCIdentity == [bot_user_id |-> "UBOT", self_bot_id |-> "BBOT"]
=============================================================================
