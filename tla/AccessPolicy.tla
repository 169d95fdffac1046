---------------------------- MODULE AccessPolicy ----------------------------
(***************************************************************************)
(* assistant-permissions: who a sender is, and what is done with one that  *)
(* nobody registered.  routes[u] is the address a user registered on the   *)
(* channel, or whatever else stands for none.                              *)
(***************************************************************************)

UnknownPolicy == {"strict", "request_approval", "public"}
AccessDecision == {"allow", "request_approval", "deny"}

\* An address is not unique: two users may have registered it, and the query
\* takes the row it meets first.
resolve_user_by_dm(routes, a) == {u \in DOMAIN routes : routes[u] = a}

decide(known, policy) ==
    IF known \/ policy = "public" THEN "allow"
    ELSE IF policy = "strict" THEN "deny" ELSE "request_approval"

evaluate_sender(routes, a, policy) == decide(resolve_user_by_dm(routes, a) # {}, policy)

evaluate_channel(channel_known, policy) == decide(channel_known, policy)
=============================================================================
