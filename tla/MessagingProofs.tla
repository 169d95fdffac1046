-------------------------- MODULE MessagingProofs ---------------------------
(***************************************************************************)
(* Proofs for the messages between agents: who may post, who may make whom *)
(* take a turn, that a cancelled item stays cancelled, and that sessions   *)
(* do not multiply.                                                        *)
(*                                                                         *)
(* What a row of the cascade carries (whose turn it is from, whether that  *)
(* one is wired to Slack) was set when the turn ended, hops ago; the       *)
(* invariant says for every row still on the stack that it is what the     *)
(* path of its turn allows.  Rows and scheduled items also carry the       *)
(* session of their turn on; the invariant for those rests on what         *)
(* conversation_root computes, a recursion shown to be well founded.       *)
(***************************************************************************)
EXTENDS Messaging, WellFoundedInduction, TLAPS

Text == Row("text", None)

\* What the rows of a turn come from.
LEMMA RowsOfATurn ==
    ASSUME NEW calls, NEW n \in Nat, NEW rs \in turn_rows(calls, n)
    PROVE  /\ rs \in Seq(calls \cup {Text})
           /\ \A i \in DOMAIN rs : rs[i] \in calls \cup {Text}
<1>1. CASE rs = <<Text>>
    BY <1>1
<1>2. CASE rs # <<Text>>
    <2>1. PICK k, c, text : k \in 0 .. n /\ c \in [1 .. k -> calls] /\ rs = rows(c, text)
        BY <1>2 DEF turn_rows, buffered, Text
    <2>2. c \in Seq(calls) /\ c \in Seq(calls \cup {Text})
        BY <2>1
    <2>3. rs = Append(c, Text) \/ rs = c
        BY <2>1 DEF rows, Text
    <2> HIDE DEF Text
    <2>4. rs \in Seq(calls \cup {Text})
        BY <2>2, <2>3
    <2> QED BY <2>4
<1> QED BY <1>1, <1>2

\* A message that a specialist's turn sends is to one of its destinations.
LEMMA SentToDestinations ==
    ASSUME NEW name, NEW rs \in specialist_turn(name), NEW i \in DOMAIN rs,
           rs[i].kind = "send_message"
    PROVE  rs[i].arg \in registered[Route(name)].destinations
<1> DEFINE spec == registered[Route(name)]
           env == agent_host_config(base, spec).env
           calls == specialist_calls(env, render_schedules_block)
<1>1. rs \in turn_rows(Only(calls), MaxCalls)
    BY DEF specialist_turn
<1>2. env.DESTINATIONS = spec.destinations
    BY DEF agent_host_config
<1>3. rs[i] \in Only(calls) \cup {Text}
    <2> HIDE DEF calls
    <2> QED BY <1>1, RowsOfATurn, MessagingAssumption
<1>4. Text.kind = "text"
    BY DEF Text, Row
<1>5. rs[i] \in calls
    BY <1>3, <1>4 DEF Only
<1>6. rs[i].arg \in jsonDestinations(env.DESTINATIONS)
    <2>1. PICK tools : rs[i] \in Calls(tools, jsonDestinations(env.DESTINATIONS), render_schedules_block)
        BY <1>5 DEF specialist_calls, specialistOptionsFromEnv
    <2>2. \E t \in tools \cap {"send_message"}, to \in jsonDestinations(env.DESTINATIONS) :
              rs[i] = Row(t, to)
        <3> HIDE DEF env
        <3> QED BY <2>1 DEF Calls, Row
    <2>3. PICK to \in jsonDestinations(env.DESTINATIONS) : \E t : rs[i] = Row(t, to)
        BY <2>2
    <2>4. rs[i].arg = to
        BY <2>3 DEF Row
    <2> QED BY <2>3, <2>4
<1> QED BY <1>2, <1>6 DEF jsonDestinations

-----------------------------------------------------------------------------
(* The stack *)

Path == {"inbound", "scheduled", "run_as", "relay", "a2a"}

\* What the path of its turn allows a row.
RowOK(r) ==
    /\ r.kind # "finalize" =>
          \/ r.path \in {"inbound", "scheduled", "relay"} /\ r.by = Orchestrator
          \/ r.path \in {"run_as", "a2a"} /\ Registered(r.by)
    /\ r.wired => \/ r.by = Orchestrator
                  \/ Registered(r.by) /\ registered[Route(r.by)].slack_wired
    /\ r.kind = "send_message" =>
          r.by = Orchestrator \/ r.arg \in registered[Route(r.by)].destinations

IsStack(s) == s \in Seq(Range(s)) /\ \A i \in DOMAIN s : RowOK(s[i])

StackInv == IsStack(pending)

\* Work before work.
LEMMA StackJoins ==
    ASSUME NEW s, NEW t, IsStack(s), IsStack(t) PROVE IsStack(s \o t)
<1> DEFINE S == Range(s) \cup Range(t)
           u == s \o t
<1>1. s \in Seq(S) /\ t \in Seq(S)
    BY DEF IsStack
<1> HIDE DEF S
<1>2. u \in Seq(S) /\ Len(u) = Len(s) + Len(t)
    BY <1>1
<1>3. \A i \in DOMAIN u : (i \in DOMAIN s /\ u[i] = s[i])
                            \/ (i - Len(s) \in DOMAIN t /\ u[i] = t[i - Len(s)])
    BY <1>1
<1>4. \A i \in DOMAIN u : RowOK(u[i])
    <2> HIDE DEF u
    <2> QED BY <1>3 DEF IsStack
<1>5. u \in Seq(Range(u))
    <2> HIDE DEF u
    <2>1. u \in [1 .. Len(u) -> Range(u)] /\ Len(u) \in Nat
        BY <1>2 DEF Range
    <2> QED BY <2>1
<1> QED BY <1>4, <1>5 DEF IsStack

\* The work that is left when a row has been handled.
LEMMA StackShrinks ==
    ASSUME NEW s, IsStack(s), s # <<>> PROVE IsStack(Tail(s)) /\ RowOK(Head(s))
<1> DEFINE S == Range(s)
           u == Tail(s)
<1>1. s \in Seq(S)
    BY DEF IsStack
<1> HIDE DEF S
<1>2. u \in Seq(S) /\ Head(s) = s[1] /\ 1 \in DOMAIN s
    BY <1>1
<1>3. \A i \in DOMAIN u : i + 1 \in DOMAIN s /\ u[i] = s[i + 1]
    BY <1>1
<1>4. RowOK(Head(s)) /\ \A i \in DOMAIN u : RowOK(u[i])
    <2> HIDE DEF u
    <2> QED BY <1>2, <1>3 DEF IsStack
<1>5. u \in Seq(Range(u))
    <2> HIDE DEF u
    <2>1. u \in [1 .. Len(u) -> Range(u)] /\ Len(u) \in Nat
        BY <1>2 DEF Range
    <2> QED BY <2>1
<1> QED BY <1>4, <1>5 DEF IsStack

LEMMA EmptyStack == IsStack(<<>>)
BY DEF IsStack

LEMMA FinalizeStack == \A item : IsStack(Finalize(item))
<1> SUFFICES ASSUME NEW item PROVE IsStack(Finalize(item))
    OBVIOUS
<1> DEFINE r == [kind |-> "finalize", arg |-> item, session |-> None, by |-> None,
                 wired |-> FALSE, depth |-> 0, path |-> "scheduled"]
<1>1. r.kind = "finalize" /\ ~ r.wired
    OBVIOUS
<1>2. RowOK(r)
    <2> HIDE DEF r
    <2> QED BY <1>1 DEF RowOK
<1>3. Finalize(item) = <<r>>
    BY DEF Finalize
<1> HIDE DEF r
<1>4. <<r>> \in Seq(Range(<<r>>)) /\ \A i \in DOMAIN <<r>> : <<r>>[i] = r
    BY DEF Range
<1> QED BY <1>2, <1>3, <1>4 DEF IsStack

\* The rows of a turn as work.
LEMMA WorkStack ==
    ASSUME NEW S, NEW rs \in Seq(S), NEW session, NEW by, NEW wired, NEW depth, NEW path,
           \/ path \in {"inbound", "scheduled", "relay"} /\ by = Orchestrator
           \/ path \in {"run_as", "a2a"} /\ Registered(by),
           wired => by = Orchestrator \/ (Registered(by) /\ registered[Route(by)].slack_wired),
           \A i \in DOMAIN rs : rs[i].kind = "send_message" =>
               by = Orchestrator \/ rs[i].arg \in registered[Route(by)].destinations
    PROVE  IsStack(Work(rs, session, by, wired, depth, path))
<1> DEFINE w == Work(rs, session, by, wired, depth, path)
<1>1. /\ DOMAIN w = 1 .. Len(rs) /\ Len(rs) \in Nat
      /\ \A i \in DOMAIN rs : w[i] = [kind |-> rs[i].kind, arg |-> rs[i].arg, session |-> session, by |-> by,
                          wired |-> wired, depth |-> depth, path |-> path]
    BY DEF Work
<1>2. w \in [1 .. Len(rs) -> Range(w)]
    BY <1>1 DEF Range, Work
<1>3. w \in Seq(Range(w))
    BY <1>1, <1>2
<1>4. ASSUME NEW i \in DOMAIN w PROVE RowOK(w[i])
    <2>1. i \in DOMAIN rs
        BY <1>1
    <2>2. PICK r : r = [kind |-> rs[i].kind, arg |-> rs[i].arg, session |-> session, by |-> by,
                        wired |-> wired, depth |-> depth, path |-> path]
        OBVIOUS
    <2>3. w[i] = r
        BY <1>1, <2>1, <2>2, Zenon
    <2>4. r.kind = rs[i].kind /\ r.arg = rs[i].arg /\ r.by = by /\ r.path = path /\ r.wired = wired
        BY <2>2, Zenon
    <2>5. RowOK(r)
        BY <2>1, <2>4, Zenon DEF RowOK
    <2> QED BY <2>3, <2>5
<1> QED BY <1>3, <1>4 DEF IsStack

-----------------------------------------------------------------------------
(* What a step does outside *)

EffectOK == OnlyWiredPosts /\ AllowListHolds

LEMMA Names == None # Orchestrator /\ \A name : Registered(name) => name # None
BY MessagingAssumption DEF Registered

LEMMA NoEffect == ASSUME effect' = None PROVE EffectOK'
BY DEF EffectOK, OnlyWiredPosts, AllowListHolds

LEMMA TurnEffect ==
    ASSUME NEW agent, NEW session, NEW from, effect' = Turn(agent, session, from), agent # None,
           from \in {None, Orchestrator} \/ agent \in registered[Route(from)].destinations
    PROVE  EffectOK'
<1>1. effect'.turn = agent /\ effect'.by = from
    BY DEF Turn
<1> QED BY <1>1 DEF EffectOK, OnlyWiredPosts, AllowListHolds

LEMMA PostEffect ==
    ASSUME NEW chat, NEW by, effect' = Post(chat, by),
           by = Orchestrator \/ (Registered(by) /\ registered[Route(by)].slack_wired)
    PROVE  EffectOK'
<1>1. effect'.turn = None /\ effect'.by = by
    BY DEF Post
<1> QED BY <1>1 DEF EffectOK, OnlyWiredPosts, AllowListHolds

\* The turns of the orchestrator and of a specialist as work.
LEMMA OrchestratorWork ==
    ASSUME NEW rs \in orchestrator_turn \cup {<<>>}, NEW session, NEW depth,
           NEW path \in {"inbound", "scheduled", "relay"}
    PROVE  IsStack(Work(rs, session, Orchestrator, TRUE, depth, path))
<1> DEFINE calls == Only(orchestrator_calls(base.env.SPECIALISTS, Channels, render_schedules_block))
<1>1. rs \in Seq(calls \cup {Text})
    <2>1. CASE rs = <<>>
        BY <2>1
    <2>2. CASE rs \in turn_rows(calls, MaxCalls)
        <3> HIDE DEF calls
        <3> QED BY <2>2, RowsOfATurn, MessagingAssumption
    <2> QED BY <2>1, <2>2 DEF orchestrator_turn
<1> HIDE DEF calls
<1> QED BY <1>1, WorkStack

LEMMA SpecialistWork ==
    ASSUME NEW name, Registered(name), NEW rs \in specialist_turn(name) \cup {<<>>},
           NEW session, NEW depth, NEW path \in {"run_as", "a2a"}, NEW wired,
           wired => registered[Route(name)].slack_wired
    PROVE  IsStack(Work(rs, session, name, wired, depth, path))
<1> DEFINE calls == Only(specialist_calls(agent_host_config(base, registered[Route(name)]).env,
                                          render_schedules_block))
<1>1. rs \in Seq(calls \cup {Text})
    <2>1. CASE rs = <<>>
        BY <2>1
    <2>2. CASE rs \in turn_rows(calls, MaxCalls)
        <3> HIDE DEF calls
        <3> QED BY <2>2, RowsOfATurn, MessagingAssumption
    <2> QED BY <2>1, <2>2 DEF specialist_turn
<1>2. \A i \in DOMAIN rs : rs[i].kind = "send_message" => rs[i].arg \in registered[Route(name)].destinations
    <2>1. CASE rs = <<>>
        BY <2>1
    <2>2. CASE rs \in specialist_turn(name)
        BY <2>2, SentToDestinations
    <2> QED BY <2>1, <2>2
<1> HIDE DEF calls
<1>3. wired => name = Orchestrator \/ (Registered(name) /\ registered[Route(name)].slack_wired)
    BY Zenon
<1> QED BY <1>1, <1>2, <1>3, WorkStack

LEMMA StackStep ==
    ASSUME StackInv, EffectOK, [Next]_vars PROVE StackInv' /\ EffectOK'
<1> USE DEF StackInv
<1>1. CASE Serve
    BY <1>1, NoEffect DEF Serve
<1>2. CASE Stop
    BY <1>2, NoEffect, EmptyStack DEF Stop
<1>3. ASSUME NEW c \in Channels, Inbound(c) PROVE StackInv' /\ EffectOK'
    <2>1. PICK rs \in orchestrator_turn : pending' = Work(rs, c, Orchestrator, TRUE, 0, "inbound")
        BY <1>3 DEF Inbound
    <2>2. effect' = Turn(Orchestrator, c, None)
        BY <1>3 DEF Inbound
    <2> QED BY <2>1, <2>2, OrchestratorWork, TurnEffect, Names
<1>4. ASSUME NEW i \in ItemIds, GateSkips(i) PROVE StackInv' /\ EffectOK'
    BY <1>4, NoEffect DEF GateSkips
<1>5. ASSUME NEW i \in ItemIds, FireInline(i) PROVE StackInv' /\ EffectOK'
    <2>1. PICK session : session = items[i].session
        OBVIOUS
    <2>2. PICK rs \in orchestrator_turn :
              pending' = Work(rs, session, Orchestrator, TRUE, 0, "scheduled") \o Finalize(i)
        BY <1>5, <2>1 DEF FireInline
    <2>3. effect' = Turn(Orchestrator, session, None)
        BY <1>5, <2>1 DEF FireInline
    <2>4. StackInv'
        BY <2>2, OrchestratorWork, FinalizeStack, StackJoins
    <2> QED BY <2>3, <2>4, TurnEffect, Names
<1>6. ASSUME NEW i \in ItemIds, FireRunAs(i) PROVE StackInv' /\ EffectOK'
    <2>1. PICK session, name : session = items[i].session /\ name = items[i].run_as
        OBVIOUS
    <2>2. PICK wired : wired = registered[Route(name)].slack_wired
        OBVIOUS
    <2>3. PICK rs \in specialist_turn(name) :
              pending' = Work(rs, session, name, wired, 0, "run_as") \o Finalize(i)
        BY <1>6, <2>1, <2>2 DEF FireRunAs
    <2>4. Registered(name) /\ effect' = None
        BY <1>6, <2>1 DEF FireRunAs, RunsAs
    <2>5. wired => registered[Route(name)].slack_wired
        BY <2>2, Zenon
    <2>6. IsStack(Work(rs, session, name, wired, 0, "run_as"))
        BY <2>4, <2>5, SpecialistWork
    <2>7. StackInv'
        BY <2>3, <2>6, FinalizeStack, StackJoins
    <2> QED BY <2>4, <2>7, NoEffect
<1>f. ASSUME NEW i \in ItemIds, RunAsFails(i) PROVE StackInv' /\ EffectOK'
    BY <1>f, NoEffect DEF RunAsFails
<1>h. ASSUME pending # <<>> PROVE IsStack(rest) /\ RowOK(row)
    BY <1>h, StackShrinks DEF rest, row
<1>7. CASE DeliverReply
    <2>1. StackInv'
        BY <1>7, <1>h DEF DeliverReply
    <2>2. CASE effect' = None
        BY <2>1, <2>2, NoEffect
    <2>3. CASE effect' # None
        <3>1. PICK r : r = row
            OBVIOUS
        <3>2. /\ RowOK(r) /\ r.kind = "text" /\ r.path \in {"inbound", "scheduled", "run_as"}
              /\ effect' = IF (IF r.path = "run_as" THEN r.by ELSE None) = None
                           THEN Post(r.session, r.by) ELSE None
            BY <1>7, <1>h, <2>3, <3>1 DEF DeliverReply
        <3>3. r.path # "run_as"
            BY <2>3, <3>2, Names DEF RowOK
        <3>4. effect' = Post(r.session, r.by) /\ r.by = Orchestrator
            BY <3>2, <3>3 DEF RowOK
        <3> QED BY <2>1, <3>4, PostEffect
    <2> QED BY <2>1, <2>2, <2>3
<1>8. CASE DeliverInternal
    BY <1>8, <1>h, NoEffect DEF DeliverInternal
<1>9. CASE FinalizeScheduledTurn
    BY <1>9, <1>h, NoEffect DEF FinalizeScheduledTurn
<1>10. CASE HopLimit
    BY <1>10, <1>h, NoEffect DEF HopLimit, Routed
<1>11. CASE RouteToOrchestrator
    <2>1. PICK relay, by, depth : /\ relay = a2a_session(Orchestrator, conversation_root(row.session))
                                  /\ by = row.by /\ depth = row.depth + 1
        OBVIOUS
    <2>2. PICK rs \in orchestrator_turn \cup {<<>>} :
              pending' = Work(rs, relay, Orchestrator, TRUE, depth, "relay") \o rest
        BY <1>11, <2>1 DEF RouteToOrchestrator
    <2>3. effect' = Turn(Orchestrator, relay, by) /\ pending # <<>>
          /\ row.kind = "send_message" /\ row.arg = Orchestrator
        BY <1>11, <2>1 DEF RouteToOrchestrator, Routed
    <2>4. StackInv'
        BY <1>h, <2>2, <2>3, OrchestratorWork, StackJoins
    <2>5. by = Orchestrator \/ Orchestrator \in registered[Route(by)].destinations
        BY <1>h, <2>1, <2>3 DEF RowOK
    <2> QED BY <2>3, <2>4, <2>5, TurnEffect, Names
<1>12. CASE RouteToSpecialist
    <2>1. PICK name, session, by, depth :
              /\ name = row.arg /\ session = a2a_session(row.arg, conversation_root(row.session))
              /\ by = row.by /\ depth = row.depth + 1
        OBVIOUS
    <2>2. PICK rs \in specialist_turn(name) \cup {<<>>} :
              pending' = Work(rs, session, name, FALSE, depth, "a2a") \o rest
        BY <1>12, <2>1 DEF RouteToSpecialist
    <2>3. effect' = Turn(name, session, by) /\ pending # <<>>
          /\ row.kind = "send_message" /\ Registered(name)
        BY <1>12, <2>1 DEF RouteToSpecialist, Routed
    <2>4. IsStack(Work(rs, session, name, FALSE, depth, "a2a"))
        BY <2>3, SpecialistWork
    <2>5. StackInv'
        BY <1>h, <2>2, <2>3, <2>4, StackJoins
    <2>6. by = Orchestrator \/ name \in registered[Route(by)].destinations
        BY <1>h, <2>1, <2>3 DEF RowOK
    <2> QED BY <2>3, <2>5, <2>6, TurnEffect, Names
<1>13. CASE RouteToChannel
    <2>1. PICK r : r = row
        OBVIOUS
    <2>2. /\ pending # <<>> /\ pending' = rest
          /\ effect' = IF r.wired THEN Post(r.arg, r.by) ELSE None
        BY <1>13, <2>1 DEF RouteToChannel, Routed
    <2>3. StackInv' /\ RowOK(r)
        BY <1>h, <2>1, <2>2
    <2>4. CASE r.wired
        BY <2>2, <2>3, <2>4, PostEffect DEF RowOK
    <2>5. CASE ~ r.wired
        BY <2>2, <2>3, <2>5, NoEffect
    <2> QED BY <2>4, <2>5
<1>14. CASE UNCHANGED vars
    BY <1>14 DEF vars, EffectOK, OnlyWiredPosts, AllowListHolds
<1> QED
    BY <1>1, <1>2, <1>3, <1>4, <1>5, <1>6, <1>f, <1>7, <1>8, <1>9, <1>10, <1>11, <1>12, <1>13, <1>14
    DEF Next, Handle

LEMMA StackInit == Init => StackInv /\ EffectOK
BY EmptyStack DEF Init, StackInv, EffectOK, OnlyWiredPosts, AllowListHolds

(* Only a turn of the orchestrator, or of an agent declared to be wired to
   Slack, posts to a channel, for any agents, tasks and depth of a cascade.  *)
THEOREM PostsAreWired == Spec => []OnlyWiredPosts
<1>1. StackInv /\ EffectOK /\ [Next]_vars => (StackInv /\ EffectOK)'
    BY StackStep
<1>2. EffectOK => OnlyWiredPosts
    BY DEF EffectOK
<1> QED BY <1>1, <1>2, StackInit, PTL DEF Spec

(* An agent makes another take a turn only when its spec names it as a
   destination, for any registered specialists: the enumeration the shim is
   given is as good as the check the host does not make.                    *)
THEOREM DestinationsAreKept == Spec => []AllowListHolds
<1>1. StackInv /\ EffectOK /\ [Next]_vars => (StackInv /\ EffectOK)'
    BY StackStep
<1>2. EffectOK => AllowListHolds
    BY DEF EffectOK
<1> QED BY <1>1, <1>2, StackInit, PTL DEF Spec

-----------------------------------------------------------------------------
(* Items that have ended *)

Live == {"active", "paused"}

Fields == {"status", "session", "run_as", "recurring", "gate"}

\* Only items that turns make have a source row, which is written first.
ItemsInv ==
    /\ DOMAIN items = ItemIds /\ DOMAIN source = ItemIds
    /\ \A i \in ItemIds :
         /\ DOMAIN items[i] = Fields /\ DOMAIN source[i] = Fields
         /\ source[i] # NoItem => i \in DynamicIds /\ source[i].status \in Live \cup Ended
         /\ source[i] = NoItem /\ i \in DynamicIds => items[i] = NoItem
         /\ source[i] # NoItem /\ items[i] # NoItem => items[i].session = source[i].session

\* The step of EndedForGood.
CancelTold ==
    \A i \in ItemIds :
      pending # <<>> /\ row.session = items[i].session =>
          (items[i].status # "cancelled" /\ items'[i].status = "cancelled" => source'[i].status \notin Live)

StaysEnded ==
    \A i \in ItemIds :
      /\ source[i].status \in Ended => source'[i].status \in Ended
      /\ items[i].status \in Ended =>
           \/ items'[i].status \in Ended
           \/ i \in DynamicIds /\ ~ serving /\ source[i].status \in Live

\* One item, or row, is left alone or gets another status, ended ones an ended one.
Moves(x, y) ==
    \/ y = x
    \/ /\ x.status # None /\ y.status \in Live \cup Ended
       /\ x.status \in Ended => y.status \in Ended
       /\ DOMAIN y = DOMAIN x /\ y.session = x.session /\ y.run_as = x.run_as

TableMoves(T, U) == DOMAIN U = DOMAIN T /\ \A i \in ItemIds : Moves(T[i], U[i])

BothMove == TableMoves(source, source') /\ TableMoves(items, items')

LEMMA NoItemFacts == NoItem.status = None /\ DOMAIN NoItem = Fields /\ None \notin Live \cup Ended
BY MessagingAssumption DEF NoItem, Fields, Live, Ended

LEMMA TableSame == \A T : TableMoves(T, T)
BY DEF TableMoves, Moves

LEMMA StatusMoves ==
    ASSUME NEW T, NEW U, NEW i, NEW status \in Live \cup Ended,
           DOMAIN T = ItemIds, \A j \in ItemIds : DOMAIN T[j] = Fields,
           U = [T EXCEPT ![i].status = status],
           i \in ItemIds => T[i].status # None, T[i].status \in Ended => status \in Ended
    PROVE  TableMoves(T, U)
<1>1. DOMAIN U = DOMAIN T
    OBVIOUS
<1> SUFFICES ASSUME NEW j \in ItemIds PROVE Moves(T[j], U[j])
    BY <1>1 DEF TableMoves
<1>2. CASE j # i
    <2>1. U[j] = T[j]
        BY <1>2
    <2> QED BY <2>1 DEF Moves
<1>3. CASE j = i
    <2>1. PICK x : x = T[j]
        OBVIOUS
    <2>2. PICK y : y = [x EXCEPT !.status = status]
        OBVIOUS
    <2>3. DOMAIN x = Fields /\ x.status # None /\ (x.status \in Ended => status \in Ended)
        BY <1>3, <2>1
    <2>4. DOMAIN y = DOMAIN x /\ y.status = status /\ y.session = x.session /\ y.run_as = x.run_as
        BY <2>2, <2>3 DEF Fields
    <2>5. U[j] = y
        BY <1>3, <2>1, <2>2
    <2>6. Moves(x, y)
        BY <2>3, <2>4 DEF Moves
    <2> QED BY <2>1, <2>5, <2>6
<1> QED BY <1>2, <1>3

LEMMA TransitionMoves ==
    ASSUME NEW T, NEW kind \in {"cancel_schedule", "pause_schedule", "resume_schedule"}, NEW i,
           DOMAIN T = ItemIds, \A j \in ItemIds : DOMAIN T[j] = Fields
    PROVE  TableMoves(T, transition_item(T, kind, i))
<1> DEFINE U == transition_item(T, kind, i)
<1>1. \/ U = T
      \/ /\ T[i].status \in Live
         /\ \E status \in Live \cup Ended : U = [T EXCEPT ![i].status = status]
    BY DEF transition_item, Live, Ended
<1> HIDE DEF U
<1>2. CASE U = T
    BY <1>2, TableSame DEF U
<1>3. ASSUME T[i].status \in Live, NEW status \in Live \cup Ended, U = [T EXCEPT ![i].status = status]
      PROVE  TableMoves(T, U)
    <2>1. T[i].status # None /\ T[i].status \notin Ended
        BY <1>3, NoItemFacts DEF Live, Ended
    <2> QED BY <1>3, <2>1, StatusMoves
<1> QED BY <1>1, <1>2, <1>3 DEF U

LEMMA FinalizeMoves ==
    ASSUME ItemsInv, NEW i
    PROVE  TableMoves(items, finalize_firing(items, i)) /\ TableMoves(source, record_fired(i))
<1>1. "completed" \in Ended /\ "completed" \in Live \cup Ended
    BY DEF Ended
<1>2. TableMoves(items, finalize_firing(items, i))
    <2>1. CASE items[i].status = "active" /\ ~ items[i].recurring
        <3>1. items[i].status # None
            BY <2>1, NoItemFacts DEF Live
        <3>2. finalize_firing(items, i) = [items EXCEPT ![i].status = "completed"]
            BY <2>1 DEF finalize_firing
        <3> QED BY <1>1, <3>1, <3>2, StatusMoves DEF ItemsInv
    <2>2. CASE ~ (items[i].status = "active" /\ ~ items[i].recurring)
        BY <2>2, TableSame DEF finalize_firing
    <2> QED BY <2>1, <2>2
<1>3. TableMoves(source, record_fired(i))
    <2>1. CASE source[i] # NoItem /\ ~ source[i].recurring
        <3>1. record_fired(i) = [source EXCEPT ![i].status = "completed"]
            BY <2>1 DEF record_fired
        <3>2. i \in ItemIds => source[i].status # None
            BY <2>1, NoItemFacts DEF ItemsInv
        <3> QED BY <1>1, <3>1, <3>2, StatusMoves DEF ItemsInv
    <2>2. CASE ~ (source[i] # NoItem /\ ~ source[i].recurring)
        BY <2>2, TableSame DEF record_fired
    <2> QED BY <2>1, <2>2
<1> QED BY <1>2, <1>3

LEMMA CancelMoves ==
    ASSUME ItemsInv, NEW kind \in {"cancel_schedule", "pause_schedule", "resume_schedule"}, NEW i,
           cancel_schedule(kind, i)
    PROVE  BothMove
BY TransitionMoves, TableSame DEF cancel_schedule, BothMove, ItemsInv

\* Every step but a start of the daemon and a new item moves both tables; only
\* a transition cancels.
NoneCancelled == \A i \in ItemIds : items'[i].status = "cancelled" => items[i].status = "cancelled"

Transition == \E kind \in {"cancel_schedule", "pause_schedule", "resume_schedule"}, i \in {row.arg} :
                  cancel_schedule(kind, i)

LEMMA FiringCancelsNone ==
    ASSUME ItemsInv, NEW i, items' = finalize_firing(items, i) PROVE NoneCancelled
<1> SUFFICES ASSUME NEW j \in ItemIds, items'[j].status # items[j].status
             PROVE  items'[j].status # "cancelled"
    BY DEF NoneCancelled
<1>1. items' = [items EXCEPT ![i].status = "completed"]
    BY DEF finalize_firing
<1>2. j = i /\ items'[j] = [items[j] EXCEPT !.status = "completed"]
    BY <1>1 DEF ItemsInv
<1>3. PICK x : x = items[j]
    OBVIOUS
<1>4. "status" \in DOMAIN x
    BY <1>3 DEF ItemsInv, Fields
<1>5. items'[j].status = "completed"
    BY <1>2, <1>3, <1>4
<1> QED BY <1>5

LEMMA StepMoves ==
    ASSUME ItemsInv, [Next]_vars
    PROVE  Serve \/ (\E run_as : create_schedule(run_as)) \/ Transition \/ (BothMove /\ NoneCancelled)
<1>1. CASE DeliverReply
    <2>1. \/ \E run_as : create_schedule(run_as)
          \/ Transition
          \/ items' = items /\ source' = source
        BY <1>1 DEF DeliverReply, Transition
    <2> QED BY <2>1, TableSame DEF BothMove, NoneCancelled
<1>2. CASE DeliverInternal
    <2>1. (\E run_as : create_schedule(run_as)) \/ (items' = items /\ source' = source)
        BY <1>2 DEF DeliverInternal
    <2> QED BY <2>1, TableSame DEF BothMove, NoneCancelled
<1>3. CASE FinalizeScheduledTurn
    <2>1. BothMove
        BY <1>3, FinalizeMoves, TableSame DEF FinalizeScheduledTurn, BothMove
    <2>2. NoneCancelled
        BY <1>3, FiringCancelsNone DEF FinalizeScheduledTurn, NoneCancelled
    <2> QED BY <2>1, <2>2
<1>4. ASSUME NEW i \in ItemIds, GateSkips(i) \/ RunAsFails(i) PROVE BothMove /\ NoneCancelled
    BY <1>4, FinalizeMoves, FiringCancelsNone, TableSame DEF GateSkips, RunAsFails, BothMove
<1>5. CASE items' = items /\ source' = source
    BY <1>5, TableSame DEF BothMove, NoneCancelled
<1>6. \/ Serve \/ DeliverReply \/ DeliverInternal \/ FinalizeScheduledTurn
      \/ \E i \in ItemIds : GateSkips(i) \/ RunAsFails(i)
      \/ items' = items /\ source' = source
    BY DEF Next, vars, Handle, Stop, Inbound, FireInline, FireRunAs,
           HopLimit, RouteToOrchestrator, RouteToSpecialist, RouteToChannel
<1> QED BY <1>1, <1>2, <1>3, <1>4, <1>5, <1>6

LEMMA TransitionStatus ==
    ASSUME NEW T, NEW kind \in {"cancel_schedule", "pause_schedule", "resume_schedule"}, NEW a,
           DOMAIN T = ItemIds, NEW i \in ItemIds, DOMAIN T[i] = Fields
    PROVE  LET status == transition_item(T, kind, a)[i].status IN
           /\ status = "cancelled" /\ T[i].status # "cancelled" => i = a /\ kind = "cancel_schedule"
           /\ i = a /\ kind = "cancel_schedule" => status \notin Live
           /\ status # T[i].status => T[i].status \in Live
<1> DEFINE U == transition_item(T, kind, a)
<1>1. PICK x : x = T[i]
    OBVIOUS
<1>2. "status" \in DOMAIN x
    BY <1>1 DEF Fields
<1>3. CASE U = T
    BY <1>3 DEF transition_item, Live
<1>4. CASE U # T
    <2>1. PICK to : /\ U = [T EXCEPT ![a].status = to] /\ T[a].status \in Live
                    /\ kind = "cancel_schedule" <=> to = "cancelled"
        <3>1. CASE kind = "cancel_schedule"
            <4>1. U = [T EXCEPT ![a].status = "cancelled"] /\ T[a].status \in Live
                BY <1>4, <3>1 DEF transition_item, Live
            <4> HIDE DEF U
            <4> QED BY <3>1, <4>1
        <3>2. CASE kind = "pause_schedule"
            <4>1. U = [T EXCEPT ![a].status = "paused"] /\ T[a].status \in Live
                BY <1>4, <3>2 DEF transition_item, Live
            <4>2. ~ (kind = "cancel_schedule") /\ "paused" # "cancelled"
                BY <3>2
            <4> HIDE DEF U
            <4> WITNESS "paused"
            <4> QED BY <4>1, <4>2
        <3>3. CASE kind = "resume_schedule"
            <4>1. U = [T EXCEPT ![a].status = "active"] /\ T[a].status \in Live
                BY <1>4, <3>3 DEF transition_item, Live
            <4>2. ~ (kind = "cancel_schedule") /\ "active" # "cancelled"
                BY <3>3
            <4> HIDE DEF U
            <4> WITNESS "active"
            <4> QED BY <4>1, <4>2
        <3> QED BY <3>1, <3>2, <3>3
    <2> HIDE DEF U
    <2>2. CASE i = a
        <3>1. U[i] = [x EXCEPT !.status = to]
            BY <1>1, <2>1, <2>2
        <3>2. U[i].status = to
            BY <1>2, <3>1
        <3> QED BY <2>1, <2>2, <3>2 DEF U, Live
    <2>3. CASE i # a
        <3>1. U[i] = T[i]
            BY <2>1, <2>3
        <3> QED BY <2>3, <3>1 DEF U
    <2> QED BY <2>2, <2>3
<1> QED BY <1>3, <1>4

LEMMA TransitionTold == ASSUME ItemsInv, Transition PROVE CancelTold
<1>1. PICK kind \in {"cancel_schedule", "pause_schedule", "resume_schedule"}, a \in {row.arg} :
          cancel_schedule(kind, a)
    BY DEF Transition
<1> SUFFICES ASSUME NEW i \in ItemIds, row.session = items[i].session,
                    items[i].status # "cancelled", items'[i].status = "cancelled"
             PROVE  source'[i].status \notin Live
    BY DEF CancelTold
<1>2. items' = transition_item(items, kind, a)
    BY <1>1 DEF cancel_schedule
<1>3. i = a /\ kind = "cancel_schedule" /\ items[i].status \in Live
    BY <1>2, TransitionStatus DEF ItemsInv
<1>4. CASE source[i].session = row.session
    BY <1>1, <1>3, <1>4, TransitionStatus DEF cancel_schedule, ItemsInv
<1>5. CASE source[i].session # row.session
    <2>1. source[i] = NoItem
        BY <1>3, <1>5, NoItemFacts DEF ItemsInv
    <2> QED BY <1>1, <1>3, <1>5, <2>1, NoItemFacts DEF cancel_schedule
<1> QED BY <1>4, <1>5

LEMMA MovesKeep == ASSUME ItemsInv, BothMove PROVE ItemsInv' /\ StaysEnded
<1>1. \A i \in ItemIds : Moves(source[i], source'[i]) /\ Moves(items[i], items'[i])
    BY DEF BothMove, TableMoves
<1>2. StaysEnded
    BY <1>1 DEF StaysEnded, Moves
<1>3. \A i \in ItemIds : /\ DOMAIN items'[i] = Fields /\ DOMAIN source'[i] = Fields
                         /\ source[i] = NoItem => source'[i] = NoItem
                         /\ source[i] # NoItem => source'[i] # NoItem
                         /\ items[i] = NoItem => items'[i] = NoItem
                         /\ items'[i].session = items[i].session /\ source'[i].session = source[i].session
    BY <1>1, NoItemFacts DEF Moves, ItemsInv
<1>5. \A i \in ItemIds : items[i] # NoItem => items'[i] # NoItem
    BY <1>1, NoItemFacts DEF Moves
<1>4. \A i \in ItemIds : source'[i] # NoItem => source'[i].status \in Live \cup Ended
    BY <1>1, <1>3 DEF Moves, ItemsInv
<1> QED BY <1>2, <1>3, <1>4, <1>5 DEF ItemsInv, BothMove, TableMoves

LEMMA MadeItem ==
    ASSUME NEW run_as, create_schedule(run_as), ItemsInv
    PROVE  \E i \in DynamicIds : \E item :
             /\ source[i] = NoItem /\ item # NoItem /\ item.status = "active"
             /\ DOMAIN item = Fields /\ item.session = row.session /\ item.run_as = run_as
             /\ source' = [source EXCEPT ![i] = item]
             /\ items' \in {[items EXCEPT ![i] = item], items}
<1>1. PICK i \in DynamicIds, recurring \in Recurrences :
          /\ source[i] = NoItem
          /\ source' = [source EXCEPT ![i] = [status |-> "active", session |-> row.session, run_as |-> run_as,
                                              recurring |-> recurring, gate |-> None]]
          /\ items' \in {[items EXCEPT ![i] = source'[i]], items}
    BY DEF create_schedule
<1>2. PICK session : session = row.session
    OBVIOUS
<1>3. PICK item : item = [status |-> "active", session |-> session, run_as |-> run_as,
                          recurring |-> recurring, gate |-> None]
    OBVIOUS
<1>4. DOMAIN item = Fields /\ item.status = "active" /\ item.session = session /\ item.run_as = run_as
    BY <1>3 DEF Fields
<1>5. item # NoItem
    BY <1>4, NoItemFacts DEF Live
<1>6. i \in ItemIds
    BY DEF ItemIds
<1>7. source' = [source EXCEPT ![i] = item] /\ source'[i] = item
    BY <1>1, <1>2, <1>3, <1>6 DEF ItemsInv
<1> QED BY <1>1, <1>2, <1>4, <1>5, <1>7

LEMMA MadeKeeps ==
    ASSUME ItemsInv, NEW run_as, create_schedule(run_as) PROVE ItemsInv' /\ StaysEnded /\ CancelTold
<1>0. PICK i \in DynamicIds : \E item :
          /\ source[i] = NoItem /\ item # NoItem /\ item.status = "active" /\ DOMAIN item = Fields
          /\ source' = [source EXCEPT ![i] = item]
          /\ items' \in {[items EXCEPT ![i] = item], items}
    BY MadeItem
<1>1. PICK item :
          /\ source[i] = NoItem /\ item # NoItem /\ item.status = "active" /\ DOMAIN item = Fields
          /\ source' = [source EXCEPT ![i] = item]
          /\ items' \in {[items EXCEPT ![i] = item], items}
    BY <1>0
<1>2. items[i] = NoItem /\ i \in ItemIds
    BY <1>1 DEF ItemsInv, ItemIds
<1>3. \A j \in ItemIds : /\ source'[j] = IF j = i THEN item ELSE source[j]
                         /\ items'[j] = items[j] \/ (j = i /\ items'[j] = item)
    BY <1>1, <1>2 DEF ItemsInv
<1>4. StaysEnded
    BY <1>1, <1>2, <1>3, NoItemFacts DEF StaysEnded
<1>5. "active" \in Live
    BY DEF Live
<1>6. CancelTold
    BY <1>1, <1>3 DEF CancelTold
<1> QED BY <1>1, <1>2, <1>3, <1>4, <1>5, <1>6 DEF ItemsInv

\* The tables after a start: what was registered, then what was repaired.
LEMMA StandingIds == \A t \in StandingTasks : t.id \in ItemIds /\ t.id \notin DynamicIds
BY MessagingAssumption DEF ItemIds

LEMMA RegisteredItem ==
    ASSUME ItemsInv, NEW i \in ItemIds
    PROVE  \/ ensure_standing_tasks(items)[i] = items[i]
           \/ /\ items[i].status = None /\ i \notin DynamicIds
              /\ DOMAIN ensure_standing_tasks(items)[i] = Fields
              /\ ensure_standing_tasks(items)[i].session = standing
<1>1. CASE items[i].status = None /\ \E t \in StandingTasks : t.id = i
    <2>1. PICK task : task = CHOOSE t \in StandingTasks : t.id = i
        OBVIOUS
    <2>2. PICK run_as, gate : run_as = task.run_as /\ gate = task.gate
        OBVIOUS
    <2>3. ensure_standing_tasks(items)[i] = [status |-> "active", session |-> standing, run_as |-> run_as,
                                             recurring |-> TRUE, gate |-> gate]
        BY <1>1, <2>1, <2>2 DEF ensure_standing_tasks
    <2>4. PICK item : item = ensure_standing_tasks(items)[i]
        OBVIOUS
    <2>5. DOMAIN item = Fields /\ item.session = standing
        BY <2>3, <2>4 DEF Fields
    <2> QED BY <1>1, <2>4, <2>5, StandingIds
<1>2. CASE ~ (items[i].status = None /\ \E t \in StandingTasks : t.id = i)
    BY <1>2 DEF ensure_standing_tasks
<1> QED BY <1>1, <1>2

LEMMA ServedItem ==
    ASSUME ItemsInv, Serve, NEW i \in ItemIds
    PROVE  \/ items'[i] = items[i]
           \/ items'[i] = source[i] /\ source[i] # NoItem
           \/ /\ items[i].status = None /\ i \notin DynamicIds
              /\ DOMAIN items'[i] = Fields /\ items'[i].session = standing
<1>1. PICK its \in {ensure_standing_tasks(items), items}, repaired \in SUBSET ItemIds :
          items' = repair_existing_sessions(its, repaired)
    BY DEF Serve
<1>2. items'[i] = its[i] \/ (items'[i] = source[i] /\ source[i] # NoItem)
    BY <1>1 DEF repair_existing_sessions
<1> QED BY <1>1, <1>2, RegisteredItem

LEMMA ServeKeeps == ASSUME ItemsInv, Serve PROVE ItemsInv' /\ StaysEnded /\ CancelTold
<1>1. source' = source /\ ~ serving /\ DOMAIN items' = ItemIds
    BY DEF Serve, repair_existing_sessions
<1>2. \A i \in ItemIds : /\ DOMAIN items'[i] = Fields
                         /\ source[i] = NoItem /\ i \in DynamicIds => items'[i] = NoItem
    BY ServedItem DEF ItemsInv
<1>3. ASSUME NEW i \in ItemIds, items[i].status \in Ended, items'[i].status \notin Ended
      PROVE  i \in DynamicIds /\ source[i].status \in Live
    <2>1. items[i].status # None
        BY <1>3, NoItemFacts
    <2> QED BY <1>3, <2>1, ServedItem DEF ItemsInv
<1>4. \A i \in ItemIds : source[i] # NoItem /\ items'[i] # NoItem => items'[i].session = source[i].session
    BY ServedItem DEF ItemsInv
<1>5. ASSUME NEW i \in ItemIds, row.session = items[i].session,
             items[i].status # "cancelled", items'[i].status = "cancelled"
      PROVE  source[i].status \notin Live
    <2>1. CASE items'[i] = source[i]
        BY <1>5, <2>1 DEF Live
    <2>2. CASE i \notin DynamicIds
        BY <2>2, NoItemFacts DEF ItemsInv
    <2> QED BY <1>5, <2>1, <2>2, ServedItem
<1> QED BY <1>1, <1>2, <1>3, <1>4, <1>5 DEF ItemsInv, StaysEnded, CancelTold

LEMMA EndedStep == ASSUME ItemsInv, [Next]_vars PROVE ItemsInv' /\ StaysEnded /\ CancelTold
<1>1. CASE Transition
    <2>1. BothMove
        BY <1>1, CancelMoves DEF Transition
    <2> QED BY <1>1, <2>1, MovesKeep, TransitionTold
<1>2. CASE BothMove /\ NoneCancelled
    BY <1>2, MovesKeep DEF NoneCancelled, CancelTold
<1> QED BY <1>1, <1>2, StepMoves, ServeKeeps, MadeKeeps

LEMMA ItemsInit == Init => ItemsInv
BY NoItemFacts DEF Init, ItemsInv

(* What a turn cancels in the session of the item, and a standing task that
   was cancelled, never starts again: neither a restart, which registers the
   standing tasks and repairs the items, nor a later call, nor the end of a
   firing that was under way brings it back.  An item ended from another
   session, or by a failed background turn, comes back only at a start of the
   daemon, from a source row that was not told.                             *)
THEOREM EndedItemsStayEnded == Spec => EndedForGood
<1> DEFINE Step == \A i \in ItemIds :
                       /\ pending # <<>> /\ row.session = items[i].session =>
                            (items[i].status # "cancelled" /\ items'[i].status = "cancelled" =>
                                 source'[i].status \notin {"active", "paused"})
                       /\ source[i].status \in Ended => source'[i].status \in Ended
                       /\ items[i].status \in Ended =>
                            \/ items'[i].status \in Ended
                            \/ i \in DynamicIds /\ ~ serving /\ source[i].status \in {"active", "paused"}
<1>1. ItemsInv /\ [Next]_vars => ItemsInv' /\ Step
    BY EndedStep DEF StaysEnded, CancelTold, Live
<1>2. EndedForGood <=> [][Step]_vars
    BY PTL DEF EndedForGood
<1> QED BY <1>1, <1>2, ItemsInit, PTL DEF Spec

-----------------------------------------------------------------------------
(* Session names *)

\* A set of numbers that is not empty has a least one.
LEMMA LeastNumber ==
    ASSUME NEW S \in SUBSET Nat, S # {} PROVE \E n \in S : \A m \in S : n <= m
<1> DEFINE Less == OpToRel(<, Nat)
<1>1. \A m, n \in Nat : m < n => <<m, n>> \in Less
    BY DEF OpToRel
<1>2. IsWellFoundedOn(Less, Nat)
    BY NatLessThanWellFounded
<1> HIDE DEF Less
<1>3. PICK n \in S : \A m \in S : ~ (<<m, n>> \in Less)
    BY <1>2, WFMin
<1>4. \A m \in S : ~ (m < n)
    BY <1>1, <1>3
<1> QED BY <1>3, <1>4

\* From the positions in C one goes on further up; f is where that ends.
GoesUp(N, C, nx) == \A i \in 1 .. N : i \in C => nx[i] \in (i + 1) .. N

Ends(f, N, C, nx) == f = [i \in 1 .. N |-> IF i \in C THEN f[nx[i]] ELSE i]

\* A function may be defined by its values further up.
LEMMA DefinedFromAbove ==
    ASSUME NEW N \in Nat, NEW C, NEW nx, GoesUp(N, C, nx) PROVE \E f : Ends(f, N, C, nx)
<1> DEFINE Fits(f, n) == f = [i \in n .. N |-> IF i \in C THEN f[nx[i]] ELSE i]
           Good == {n \in 1 .. N + 1 : \E f : Fits(f, n)}
           Bad == {d \in 0 .. N : N + 1 - d \notin Good}
<1>1. N + 1 \in Good
    <2>1. Fits([i \in (N + 1) .. N |-> i], N + 1)
        OBVIOUS
    <2>2. \E f : Fits(f, N + 1)
        <3> HIDE DEF Fits
        <3> QED BY <2>1
    <2> HIDE DEF Fits
    <2> QED BY <2>2
<1>2. ASSUME NEW n \in 1 .. N, n + 1 \in Good PROVE n \in Good
    <2>1. PICK f : Fits(f, n + 1)
        BY <1>2
    <2> DEFINE g == [i \in n .. N |-> IF i = n THEN (IF n \in C THEN f[nx[n]] ELSE n) ELSE f[i]]
    <2>2. \A i \in (n + 1) .. N : g[i] = f[i] /\ f[i] = IF i \in C THEN f[nx[i]] ELSE i
        BY <2>1
    <2>3. g[n] = IF n \in C THEN f[nx[n]] ELSE n
        OBVIOUS
    <2>4. \A i \in n .. N : i \in C => nx[i] \in (n + 1) .. N
        BY DEF GoesUp
    <2>5. DOMAIN g = n .. N /\ g = [i \in n .. N |-> g[i]]
        OBVIOUS
    <2> HIDE DEF g
    <2>6. \A i \in n .. N : g[i] = IF i \in C THEN g[nx[i]] ELSE i
        <3> SUFFICES ASSUME NEW i \in n .. N PROVE g[i] = IF i \in C THEN g[nx[i]] ELSE i
            OBVIOUS
        <3>1. i \in C => g[nx[i]] = f[nx[i]]
            BY <2>2, <2>4
        <3>2. g[i] = IF i \in C THEN f[nx[i]] ELSE i
            <4>1. CASE i = n
                BY <2>3, <4>1
            <4>2. CASE i \in (n + 1) .. N
                BY <2>2, <4>2
            <4> QED BY <4>1, <4>2
        <3> QED BY <3>1, <3>2
    <2>7. Fits(g, n)
        BY <2>5, <2>6
    <2> QED BY <2>7
<1>3. Bad = {}
    <2> SUFFICES ASSUME Bad # {} PROVE FALSE
        OBVIOUS
    <2>1. Bad \in SUBSET Nat
        OBVIOUS
    <2>2. PICK d \in Bad : \A e \in Bad : d <= e
        <3> HIDE DEF Bad
        <3> QED BY <2>1, LeastNumber
    <2> HIDE DEF Good
    <2>3. d # 0 /\ d \in 1 .. N /\ N + 1 - d \in 1 .. N /\ N + 1 - d \notin Good
        BY <1>1, <2>2
    <2>4. d - 1 \in 0 .. N /\ d - 1 \notin Bad
        BY <2>2, <2>3
    <2>5. N + 1 - (d - 1) \in Good /\ N + 1 - (d - 1) = (N + 1 - d) + 1
        BY <2>3, <2>4
    <2> QED BY <1>2, <2>3, <2>5
<1>4. 1 \in Good
    <2> HIDE DEF Good
    <2>1. N \notin Bad
        BY <1>3
    <2> QED BY <2>1
<1> QED BY <1>4 DEF Ends

Roots == Channels \cup {standing}

RouteNames == {registered[i].route_name : i \in DOMAIN registered}

\* What names and sessions are made of.
Parts == {"a2a", "orchestrator"} \cup UNION {Range(s) : s \in Roots \cup RouteNames}

\* The k-th name fits at position i of a session.
Fitting(sid, i, k) ==
    i + Len(agents[k]) < Len(sid) /\ SubSeq(sid, i + 1, i + Len(agents[k])) = agents[k]

\* conversation_root as a walk over positions: it goes on while an agent's name
\* fits, and takes off what is before the position where it stops.
Walk(sid, at, C, nx) ==
    /\ C = {i \in 1 .. Len(sid) - 1 : sid[i] = "a2a" /\ \E k \in DOMAIN agents : Fitting(sid, i, k)}
    /\ \A i \in C : \E k \in DOMAIN agents : Fitting(sid, i, k) /\ nx[i] = i + 1 + Len(agents[k])
    /\ Ends(at, Len(sid) + 1, C, nx)
    /\ conversation_root(sid) = SubSeq(sid, at[1], Len(sid))

\* The recursion in conversation_root is well founded, so it is such a walk.
LEMMA RootWalk ==
    ASSUME NEW sid \in Seq(Parts), agents \in Seq(Seq(Parts))
    PROVE  \E at, C, nx : Walk(sid, at, C, nx)
<1> DEFINE L == Len(sid)
           fits(i) == {k \in DOMAIN agents :
                         /\ i + Len(agents[k]) < Len(sid)
                         /\ SubSeq(sid, i + 1, i + Len(agents[k])) = agents[k]}
           first(S) == CHOOSE k \in S : \A m \in S : k <= m
           at == CHOOSE at : at = [i \in 1 .. Len(sid) + 1 |->
                     IF i < Len(sid) /\ sid[i] = "a2a" /\ fits(i) # {}
                     THEN at[i + 1 + Len(agents[first(fits(i))])]
                     ELSE i]
           C == {i \in 1 .. L - 1 : sid[i] = "a2a" /\ fits(i) # {}}
           nx == [i \in 1 .. L + 1 |-> i + 1 + Len(agents[first(fits(i))])]
<1>1. conversation_root(sid) = SubSeq(sid, at[1], Len(sid))
    BY DEF conversation_root
<1>2. L \in Nat /\ \A k \in DOMAIN agents : k \in Nat /\ Len(agents[k]) \in Nat
    OBVIOUS
<1>3. ASSUME NEW i, fits(i) # {} PROVE first(fits(i)) \in fits(i)
    <2>1. fits(i) \in SUBSET Nat
        BY <1>2
    <2> DEFINE S == fits(i)
    <2> HIDE DEF fits
    <2>2. \E k \in S : \A m \in S : k <= m
        BY <1>3, <2>1, LeastNumber
    <2> QED BY <2>2
<1> HIDE DEF first
<1>4. \A i \in C : \E k \in DOMAIN agents : Fitting(sid, i, k) /\ nx[i] = i + 1 + Len(agents[k])
    <2> SUFFICES ASSUME NEW i \in C
                 PROVE  \E k \in DOMAIN agents : Fitting(sid, i, k) /\ nx[i] = i + 1 + Len(agents[k])
        OBVIOUS
    <2>1. first(fits(i)) \in fits(i)
        BY <1>3
    <2>2. nx[i] = i + 1 + Len(agents[first(fits(i))])
        <3>1. i \in 1 .. L + 1
            BY <1>2
        <3> HIDE DEF fits, C, L
        <3> QED BY <3>1
    <2>3. PICK k : k = first(fits(i))
        OBVIOUS
    <2>4. k \in fits(i) /\ nx[i] = i + 1 + Len(agents[k])
        BY <2>1, <2>2, <2>3
    <2> QED BY <2>4 DEF Fitting
<1>5. GoesUp(L + 1, C, nx)
    <2> SUFFICES ASSUME NEW i \in 1 .. L + 1, i \in C PROVE nx[i] \in (i + 1) .. L + 1
        BY DEF GoesUp
    <2> HIDE DEF C, nx
    <2> QED BY <1>2, <1>4 DEF Fitting
<1>6. C = {i \in 1 .. Len(sid) - 1 : sid[i] = "a2a" /\ \E k \in DOMAIN agents : Fitting(sid, i, k)}
    BY DEF Fitting
<1>7. ASSUME NEW f
      PROVE  [i \in 1 .. Len(sid) + 1 |->
                 IF i < Len(sid) /\ sid[i] = "a2a" /\ fits(i) # {}
                 THEN f[i + 1 + Len(agents[first(fits(i))])]
                 ELSE i]
             = [i \in 1 .. L + 1 |-> IF i \in C THEN f[nx[i]] ELSE i]
    <2> HIDE DEF fits
    <2>1. \A i \in 1 .. L + 1 : (i < Len(sid) /\ sid[i] = "a2a" /\ fits(i) # {}) <=> i \in C
        BY <1>2
    <2>2. \A i \in 1 .. L + 1 : nx[i] = i + 1 + Len(agents[first(fits(i))])
        OBVIOUS
    <2> HIDE DEF C, nx
    <2> QED BY <2>1, <2>2
<1>8. Ends(at, L + 1, C, nx)
    <2> HIDE DEF C, nx, L
    <2>1. PICK f : Ends(f, L + 1, C, nx)
        <3>1. L + 1 \in Nat
            BY <1>2
        <3> QED BY <1>5, <3>1, DefinedFromAbove, Zenon
    <2>2. f = [i \in 1 .. Len(sid) + 1 |->
                 IF i < Len(sid) /\ sid[i] = "a2a" /\ fits(i) # {}
                 THEN f[i + 1 + Len(agents[first(fits(i))])]
                 ELSE i]
        BY <1>7, <2>1 DEF Ends
    <2>3. at = [i \in 1 .. Len(sid) + 1 |->
                 IF i < Len(sid) /\ sid[i] = "a2a" /\ fits(i) # {}
                 THEN at[i + 1 + Len(agents[first(fits(i))])]
                 ELSE i]
        BY <2>2, Zenon
    <2> HIDE DEF at
    <2> QED BY <1>7, <2>3 DEF Ends
<1> HIDE DEF at, C, nx
<1>9. Walk(sid, at, C, nx)
    BY <1>1, <1>4, <1>6, <1>8 DEF Walk
<1> QED BY <1>9

\* A sequence of one part.
LEMMA Singleton == ASSUME NEW S, NEW x \in S PROVE <<x>> \in Seq(S)
OBVIOUS

\* What the concatenation of two sequences is, and what is left of it when the
\* first is taken off.
LEMMA Joined ==
    ASSUME NEW S, NEW s \in Seq(S), NEW t \in Seq(S)
    PROVE  /\ s \o t \in Seq(S) /\ Len(s \o t) = Len(s) + Len(t)
           /\ \A i \in 1 .. Len(s) : (s \o t)[i] = s[i]
           /\ \A i \in 1 .. Len(t) : (s \o t)[Len(s) + i] = t[i]
           /\ SubSeq(s \o t, Len(s) + 1, Len(s \o t)) = t
<1>1. /\ s \o t \in Seq(S) /\ Len(s \o t) = Len(s) + Len(t)
      /\ \A i \in 1 .. Len(s) : (s \o t)[i] = s[i]
      /\ \A i \in 1 .. Len(t) : (s \o t)[Len(s) + i] = t[i]
    OBVIOUS
<1> DEFINE u == s \o t
           v == SubSeq(u, Len(s) + 1, Len(u))
<1>2. u \in Seq(S) /\ Len(u) = Len(s) + Len(t) /\ \A i \in 1 .. Len(t) : u[Len(s) + i] = t[i]
    BY <1>1
<1> HIDE DEF u
<1>3. v \in Seq(S) /\ Len(v) = Len(t) /\ \A i \in 1 .. Len(t) : v[i] = u[Len(s) + i]
    BY <1>2
<1> HIDE DEF v
<1>4. v = t
    BY <1>2, <1>3
<1> QED BY <1>1, <1>4 DEF u, v

\* A piece of a sequence.
LEMMA Piece ==
    ASSUME NEW S, NEW s \in Seq(S), NEW i \in Nat, NEW n \in Nat, i + n <= Len(s)
    PROVE  /\ SubSeq(s, i + 1, i + n) \in Seq(S) /\ Len(SubSeq(s, i + 1, i + n)) = n
           /\ \A j \in 1 .. n : SubSeq(s, i + 1, i + n)[j] = s[i + j]
OBVIOUS

\* The names of the agents are sequences of parts.
LEMMA NamesTyped ==
    ASSUME NamesApart
    PROVE  /\ agents \in Seq(Seq(Parts))
           /\ \E k \in DOMAIN agents : agents[k] = Orchestrator
           /\ \A name : Registered(name) => \E k \in DOMAIN agents : agents[k] = name
<1> DEFINE names == [i \in DOMAIN registered |-> registered[i].route_name]
<1>1. names \in Seq(Seq(Parts))
    <2>1. names \in Seq(Range(names)) /\ \A i \in DOMAIN names : names[i] \in Seq(Range(names[i]))
        BY DEF NamesApart
    <2>2. \A i \in DOMAIN names : Range(names[i]) \subseteq Parts
        <3>1. \A i \in DOMAIN registered : registered[i].route_name \in RouteNames
            BY DEF RouteNames
        <3>2. DOMAIN names = DOMAIN registered
              /\ \A i \in DOMAIN registered : names[i] = registered[i].route_name
            OBVIOUS
        <3> HIDE DEF names
        <3> QED BY <3>1, <3>2 DEF Parts
    <2> HIDE DEF names
    <2>3. \A i \in DOMAIN names : names[i] \in Seq(Parts)
        BY <2>1, <2>2
    <2>4. names \in [1 .. Len(names) -> Seq(Parts)] /\ Len(names) \in Nat
        BY <2>1, <2>3
    <2> QED BY <2>4
<1>2. \A name : Registered(name) => \E i \in DOMAIN names : names[i] = name
    BY DEF Registered
<1>3. Orchestrator \in Seq(Parts)
    <2>1. "orchestrator" \in Parts
        BY DEF Parts
    <2> QED BY <2>1, Singleton DEF Orchestrator
<1>4. agents = names \o <<Orchestrator>>
    BY DEF agents
<1> HIDE DEF names
<1>5. agents \in Seq(Seq(Parts)) /\ Len(agents) = Len(names) + 1
    BY <1>1, <1>3, <1>4
<1>6. agents[Len(names) + 1] = Orchestrator /\ Len(names) + 1 \in DOMAIN agents
    BY <1>1, <1>3, <1>4
<1>7. \A i \in DOMAIN names : i \in DOMAIN agents /\ agents[i] = names[i]
    BY <1>1, <1>3, <1>4
<1> QED BY <1>2, <1>5, <1>6, <1>7

\* So are the roots, and none begins as an agent's session does.
LEMMA RootsTyped ==
    ASSUME NamesApart, NEW r \in Roots PROVE r \in Seq(Parts) /\ r # <<>> /\ r[1] # "a2a"
<1>1. r \in Seq(Range(r)) /\ r # <<>> /\ r[1] # "a2a"
    BY DEF NamesApart, Roots
<1>2. Range(r) \subseteq Parts
    BY DEF Parts
<1> QED BY <1>1, <1>2

\* A channel's session and the standing one are their own roots.
LEMMA RootOfARoot ==
    ASSUME NamesApart, NEW r \in Roots PROVE conversation_root(r) = r
<1>1. r \in Seq(Parts) /\ r # <<>> /\ r[1] # "a2a"
    BY RootsTyped
<1>2. PICK at, C, nx : Walk(r, at, C, nx)
    BY <1>1, NamesTyped, RootWalk
<1>3. 1 \in 1 .. Len(r) + 1 /\ 1 \notin C
    BY <1>1, <1>2 DEF Walk
<1>4. at[1] = 1
    BY <1>2, <1>3 DEF Walk, Ends
<1>5. SubSeq(r, 1, Len(r)) = r
    BY <1>1
<1> QED BY <1>2, <1>4, <1>5 DEF Walk

\* The root is recovered from an agent's session.
LEMMA RootOfASession ==
    ASSUME NamesApart, NEW m \in DOMAIN agents, NEW r \in Roots
    PROVE  conversation_root(a2a_session(agents[m], r)) = r
<1> DEFINE name == agents[m]
           sid == a2a_session(name, r)
           p == Len(name) + 2
<1>1. r \in Seq(Parts) /\ r # <<>> /\ r[1] # "a2a"
    BY RootsTyped
<1>2. name \in Seq(Parts) /\ Len(name) \in Nat /\ Len(r) \in Nat \ {0}
    BY <1>1, NamesTyped
<1>3. \A k \in DOMAIN agents : IsStrictPrefix(agents[k], name \o r) => agents[k] = name
    BY DEF NamesApart, Roots
<1>4. \A k \in DOMAIN agents : agents[k] \in Seq(Parts) /\ Len(agents[k]) \in Nat
    BY NamesTyped
<1> HIDE DEF name
<1> DEFINE u == name \o r
<1>5. /\ u \in Seq(Parts) /\ Len(u) = Len(name) + Len(r)
      /\ \A i \in 1 .. Len(name) : u[i] = name[i]
      /\ \A i \in 1 .. Len(r) : u[Len(name) + i] = r[i]
      /\ SubSeq(u, Len(name) + 1, Len(u)) = r
    BY <1>1, <1>2, Joined
<1>6. /\ sid \in Seq(Parts) /\ Len(sid) = 1 + Len(u)
      /\ sid[1] = "a2a"
      /\ \A i \in 1 .. Len(u) : sid[1 + i] = u[i]
      /\ SubSeq(sid, p, Len(sid)) = r
    <2>1. "a2a" \in Parts
        BY DEF Parts
    <2>2. <<"a2a">> \in Seq(Parts) /\ Len(<<"a2a">>) = 1 /\ <<"a2a">>[1] = "a2a"
        BY <2>1, Singleton
    <2>3. PICK x : x = <<"a2a">>
        OBVIOUS
    <2>4. x \in Seq(Parts) /\ Len(x) = 1 /\ x[1] = "a2a"
        BY <2>2, <2>3
    <2>5. sid = (x \o name) \o r
        BY <2>3 DEF a2a_session
    <2>6. x \o name \in Seq(Parts) /\ Len(x \o name) = 1 + Len(name)
        BY <1>2, <2>4, Joined
    <2>7. SubSeq(sid, p, Len(sid)) = r
        <3>1. SubSeq((x \o name) \o r, Len(x \o name) + 1, Len((x \o name) \o r)) = r
            BY <1>1, <2>6, Joined
        <3>2. Len(x \o name) + 1 = p
            BY <1>2, <2>6
        <3> QED BY <2>5, <3>1, <3>2
    <2>8. (x \o name) \o r = x \o u
        BY <1>1, <1>2, <2>4
    <2>9. /\ x \o u \in Seq(Parts) /\ Len(x \o u) = 1 + Len(u)
          /\ \A i \in 1 .. 1 : (x \o u)[i] = x[i]
          /\ \A i \in 1 .. Len(u) : (x \o u)[1 + i] = u[i]
        <3> HIDE DEF u
        <3> QED BY <1>5, <2>4, Joined
    <2> QED BY <2>4, <2>5, <2>7, <2>8, <2>9
<1> HIDE DEF sid, u
<1>7. PICK at, C, nx : Walk(sid, at, C, nx)
    BY <1>6, NamesTyped, RootWalk
<1>8. ASSUME NEW k \in DOMAIN agents, Fitting(sid, 1, k) PROVE agents[k] = name
    <2>1. PICK a, n : a = agents[k] /\ n = Len(a)
        OBVIOUS
    <2>2. a \in Seq(Parts) /\ n \in Nat /\ 1 + n < Len(sid) /\ SubSeq(sid, 1 + 1, 1 + n) = a
        BY <1>4, <1>8, <2>1 DEF Fitting
    <2>3. \A i \in 1 .. n : a[i] = sid[1 + i]
        BY <1>6, <2>2, Piece
    <2>4. n < Len(u) /\ \A i \in 1 .. n : a[i] = u[i]
        BY <1>5, <1>6, <2>1, <2>2, <2>3
    <2>5. PICK v, w : v = SubSeq(a, 0 + 1, 0 + n) /\ w = SubSeq(u, 0 + 1, 0 + n)
        OBVIOUS
    <2>6. /\ v \in Seq(Parts) /\ Len(v) = n /\ \A i \in 1 .. n : v[i] = a[0 + i]
          /\ w \in Seq(Parts) /\ Len(w) = n /\ \A i \in 1 .. n : w[i] = u[0 + i]
        <3>1. 0 \in Nat /\ 0 + n <= Len(a) /\ 0 + n <= Len(u)
            BY <1>5, <2>1, <2>2, <2>4
        <3> QED BY <1>5, <2>2, <2>5, <3>1, Piece
    <2>7. v = w
        BY <2>2, <2>4, <2>6
    <2>8. SubSeq(a, 1, n) = SubSeq(u, 1, n)
        BY <2>2, <2>5, <2>7
    <2>9. IsStrictPrefix(a, u)
        BY <2>1, <2>2, <2>4, <2>8, <1>5 DEF IsStrictPrefix, IsPrefix
    <2> QED BY <1>3, <2>1, <2>9 DEF u
<1>9. Fitting(sid, 1, m)
    <2>1. 1 + Len(name) < Len(sid)
        BY <1>2, <1>5, <1>6
    <2>2. PICK v : v = SubSeq(sid, 1 + 1, 1 + Len(name))
        OBVIOUS
    <2>3. v \in Seq(Parts) /\ Len(v) = Len(name) /\ \A i \in 1 .. Len(name) : v[i] = sid[1 + i]
        BY <1>2, <1>6, <2>1, <2>2, Piece
    <2>4. v = name
        BY <1>2, <1>5, <1>6, <2>3
    <2> QED BY <2>1, <2>2, <2>4 DEF Fitting, name
<1>10. 1 \in C
    BY <1>2, <1>5, <1>6, <1>7, <1>9 DEF Walk
<1>11. nx[1] = p
    BY <1>2, <1>7, <1>8, <1>10 DEF Walk
<1>12. p \in 1 .. Len(sid) + 1 /\ sid[p] # "a2a"
    <2>1. sid[1 + (Len(name) + 1)] = u[Len(name) + 1] /\ u[Len(name) + 1] = r[1]
        BY <1>2, <1>5, <1>6
    <2> QED BY <1>1, <1>2, <1>5, <1>6, <2>1
<1>13. at[1] = at[p] /\ at[p] = p
    <2>1. Ends(at, Len(sid) + 1, C, nx) /\ p \notin C /\ 1 \in 1 .. Len(sid) + 1
        BY <1>2, <1>6, <1>7, <1>12 DEF Walk
    <2>2. at[1] = at[nx[1]] /\ at[p] = p
        <3> HIDE DEF p
        <3> QED BY <1>10, <1>12, <2>1 DEF Ends
    <2> QED BY <1>11, <2>2
<1>14. conversation_root(sid) = r
    BY <1>6, <1>7, <1>13 DEF Walk
<1> QED BY <1>14 DEF sid, name

-----------------------------------------------------------------------------
(* Sessions *)

\* The sessions there are, and those the orchestrator has turns in.
Sessions == Roots \cup {a2a_session(agents[k], r) : k \in DOMAIN agents, r \in Roots}

OwnSessions == Roots \cup {a2a_session(Orchestrator, r) : r \in Roots}

\* A row is of a session that there is; its turn was the orchestrator's unless
\* its path says otherwise.
RowStable(r) ==
    r.kind # "finalize" =>
        /\ r.session \in Sessions
        /\ r.path \notin {"run_as", "a2a"} => r.session \in OwnSessions

StableStack(s) == \A i \in DOMAIN s : RowStable(s[i])

\* So is an item, and its row; it is the orchestrator's when it names no other
\* agent.
ItemStable(item) ==
    item.status # None =>
        /\ item.session \in Sessions
        /\ item.run_as = None => item.session \in OwnSessions

StableItems == \A i \in ItemIds : ItemStable(items[i]) /\ ItemStable(source[i])

SessionsInv == StableStack(pending) /\ StableItems /\ StableSessions

\* The sessions of the orchestrator and of each agent are among them.
LEMMA SessionNames ==
    ASSUME NamesApart
    PROVE  /\ OwnSessions \subseteq Sessions
           /\ \A r \in Roots : a2a_session(Orchestrator, r) \in OwnSessions
           /\ \A name : \A r \in Roots : Registered(name) => a2a_session(name, r) \in Sessions
<1>1. \A k \in DOMAIN agents, r \in Roots : a2a_session(agents[k], r) \in Sessions
    BY DEF Sessions
<1>2. \A name : \A r \in Roots : Registered(name) \/ name = Orchestrator => a2a_session(name, r) \in Sessions
    BY <1>1, NamesTyped
<1>3. \A r \in Roots : a2a_session(Orchestrator, r) \in OwnSessions
    BY DEF OwnSessions
<1>4. OwnSessions \subseteq Sessions
    <2>1. Roots \subseteq Sessions
        BY DEF Sessions
    <2>2. \A r \in Roots : a2a_session(Orchestrator, r) \in Sessions
        BY <1>2
    <2> QED BY <2>1, <2>2 DEF OwnSessions
<1> QED BY <1>2, <1>3, <1>4

\* Whatever session a message is sent in, it is routed by its root.
LEMMA RootFound ==
    ASSUME NamesApart, NEW s \in Sessions PROVE conversation_root(s) \in Roots
<1>1. CASE s \in Roots
    BY <1>1, RootOfARoot
<1>2. CASE s \notin Roots
    <2>1. PICK k \in DOMAIN agents, r \in Roots : s = a2a_session(agents[k], r)
        BY <1>2 DEF Sessions
    <2> QED BY <2>1, RootOfASession
<1> QED BY <1>1, <1>2

\* Stable rows stay so when work is put before work, taken off or added.
LEMMA StableJoins ==
    ASSUME NEW s, NEW t, IsStack(s), IsStack(t), StableStack(s), StableStack(t)
    PROVE  StableStack(s \o t)
<1> DEFINE S == Range(s) \cup Range(t)
           u == s \o t
<1>1. s \in Seq(S) /\ t \in Seq(S)
    BY DEF IsStack
<1> HIDE DEF S
<1>2. \A i \in DOMAIN u : (i \in DOMAIN s /\ u[i] = s[i])
                            \/ (i - Len(s) \in DOMAIN t /\ u[i] = t[i - Len(s)])
    BY <1>1
<1> HIDE DEF u
<1>3. StableStack(u)
    BY <1>2 DEF StableStack
<1> QED BY <1>3 DEF u

LEMMA StableShrinks ==
    ASSUME NEW s, IsStack(s), s # <<>>, StableStack(s)
    PROVE  StableStack(Tail(s)) /\ RowStable(Head(s))
<1> DEFINE S == Range(s)
           u == Tail(s)
<1>1. s \in Seq(S)
    BY DEF IsStack
<1> HIDE DEF S
<1>2. Head(s) = s[1] /\ 1 \in DOMAIN s
    BY <1>1
<1>3. \A i \in DOMAIN u : i + 1 \in DOMAIN s /\ u[i] = s[i + 1]
    BY <1>1
<1> HIDE DEF u
<1>4. StableStack(u) /\ RowStable(Head(s))
    BY <1>2, <1>3 DEF StableStack
<1> QED BY <1>4 DEF u

LEMMA StableWork ==
    ASSUME NEW rs, NEW session \in Sessions, NEW by, NEW wired, NEW depth, NEW path,
           path \notin {"run_as", "a2a"} => session \in OwnSessions
    PROVE  StableStack(Work(rs, session, by, wired, depth, path))
<1> DEFINE w == Work(rs, session, by, wired, depth, path)
<1>1. \A i \in DOMAIN w : w[i].session = session /\ w[i].path = path
    BY DEF Work
<1> HIDE DEF w
<1>2. StableStack(w)
    BY <1>1 DEF StableStack, RowStable
<1> QED BY <1>2 DEF w

LEMMA StableFinalize == \A item : StableStack(Finalize(item))
<1> SUFFICES ASSUME NEW item PROVE StableStack(Finalize(item))
    OBVIOUS
<1>1. \A i \in DOMAIN Finalize(item) : Finalize(item)[i].kind = "finalize"
    BY DEF Finalize
<1> QED BY <1>1 DEF StableStack, RowStable

\* An effect that is a turn, a post or nothing.
LEMMA StableTurn ==
    ASSUME NEW agent, NEW session, NEW from, effect' = Turn(agent, session, from),
           session \in Roots \cup {a2a_session(agent, r) : r \in Roots}
    PROVE  StableSessions'
<1>1. effect'.turn = agent /\ effect'.session = session
    BY DEF Turn
<1> QED BY <1>1 DEF StableSessions, Roots

LEMMA StablePost ==
    ASSUME effect' = None \/ \E chat, by : effect' = Post(chat, by) PROVE StableSessions'
<1>1. CASE effect' = None
    BY <1>1 DEF StableSessions
<1>2. CASE \E chat, by : effect' = Post(chat, by)
    <2>1. effect'.turn = None
        BY <1>2 DEF Post
    <2> QED BY <2>1 DEF StableSessions
<1> QED BY <1>1, <1>2

LEMMA StableOwn ==
    ASSUME NEW session \in OwnSessions, NEW from, effect' = Turn(Orchestrator, session, from)
    PROVE  StableSessions'
BY StableTurn DEF OwnSessions

\* Items that are left alone or get another status, that are made in a session,
\* and those that are there after a start.
LEMMA ItemsKept == ASSUME StableItems, ItemsInv, BothMove PROVE StableItems'
<1>1. ASSUME NEW x, NEW y, Moves(x, y), ItemStable(x) PROVE ItemStable(y)
    BY <1>1 DEF Moves, ItemStable
<1>2. \A i \in ItemIds : Moves(source[i], source'[i]) /\ Moves(items[i], items'[i])
    BY DEF BothMove, TableMoves
<1> QED BY <1>1, <1>2 DEF StableItems

LEMMA ItemsSame == ASSUME StableItems, ItemsInv, UNCHANGED <<items, source>> PROVE StableItems'
BY DEF StableItems

LEMMA ItemMade ==
    ASSUME StableItems, ItemsInv, NEW run_as, row.session \in Sessions,
           run_as = None => row.session \in OwnSessions,
           create_schedule(run_as)
    PROVE  StableItems'
<1>1. PICK i \in DynamicIds : \E item :
          /\ item.session = row.session /\ item.run_as = run_as
          /\ source' = [source EXCEPT ![i] = item]
          /\ items' \in {[items EXCEPT ![i] = item], items}
    BY MadeItem
<1>2. PICK item :
          /\ item.session = row.session /\ item.run_as = run_as
          /\ source' = [source EXCEPT ![i] = item]
          /\ items' \in {[items EXCEPT ![i] = item], items}
    BY <1>1
<1>3. ItemStable(item)
    BY <1>2 DEF ItemStable
<1>4. \A j \in ItemIds : /\ items'[j] = items[j] \/ items'[j] = item
                         /\ source'[j] = source[j] \/ source'[j] = item
    BY <1>2 DEF ItemsInv
<1> QED BY <1>3, <1>4 DEF StableItems

LEMMA ItemsServed ==
    ASSUME NamesApart, StableItems, ItemsInv, Serve PROVE StableItems'
<1>1. standing \in OwnSessions /\ standing \in Sessions
    BY DEF Roots, OwnSessions, Sessions
<1>2. source' = source
    BY DEF Serve
<1> SUFFICES ASSUME NEW i \in ItemIds PROVE ItemStable(items'[i])
    BY <1>2 DEF StableItems
<1>3. CASE items'[i] = items[i] \/ items'[i] = source[i]
    BY <1>3 DEF StableItems
<1>4. CASE items'[i].session = standing
    BY <1>1, <1>4 DEF ItemStable
<1> QED BY <1>3, <1>4, ServedItem

\* One step of the daemon.
LEMMA SessionsStep ==
    ASSUME NamesApart, StackInv, ItemsInv, SessionsInv, [Next]_vars PROVE SessionsInv'
<1> USE DEF SessionsInv
<1>1. CASE Serve
    <2>1. StableItems'
        BY <1>1, ItemsServed
    <2> QED BY <1>1, <2>1, StablePost DEF Serve
<1>2. CASE Stop
    <2>1. StableStack(<<>>)
        BY DEF StableStack
    <2> QED BY <1>2, <2>1, StablePost, ItemsSame DEF Stop
<1>3. ASSUME NEW c \in Channels, Inbound(c) PROVE SessionsInv'
    <2>1. PICK rs : pending' = Work(rs, c, Orchestrator, TRUE, 0, "inbound")
        BY <1>3 DEF Inbound
    <2>2. effect' = Turn(Orchestrator, c, None) /\ UNCHANGED <<items, source>>
        BY <1>3 DEF Inbound
    <2>3. c \in OwnSessions /\ c \in Sessions
        BY DEF OwnSessions, Sessions, Roots
    <2>4. StableStack(pending')
        BY <2>1, <2>3, StableWork
    <2> QED BY <2>2, <2>3, <2>4, StableOwn, ItemsSame
<1>4. ASSUME NEW i \in ItemIds, GateSkips(i) \/ RunAsFails(i) PROVE SessionsInv'
    <2>1. BothMove
        BY <1>4, FinalizeMoves, TableSame DEF GateSkips, RunAsFails, BothMove
    <2>2. pending' = pending /\ effect' = None
        BY <1>4 DEF GateSkips, RunAsFails
    <2> QED BY <2>1, <2>2, StablePost, ItemsKept
<1>5. ASSUME NEW i \in ItemIds, FireInline(i) PROVE SessionsInv'
    <2>1. PICK session : session = items[i].session
        OBVIOUS
    <2>2. PICK rs \in orchestrator_turn :
              pending' = Work(rs, session, Orchestrator, TRUE, 0, "scheduled") \o Finalize(i)
        BY <1>5, <2>1 DEF FireInline
    <2>3. effect' = Turn(Orchestrator, session, None) /\ UNCHANGED <<items, source>>
        BY <1>5, <2>1 DEF FireInline
    <2>4. session \in OwnSessions /\ session \in Sessions
        <3>1. ItemStable(items[i]) /\ items[i].status = "active" /\ items[i].run_as = None
            BY <1>5 DEF FireInline, StableItems
        <3> QED BY <2>1, <3>1, MessagingAssumption DEF ItemStable
    <2>5. StableStack(pending')
        <3>1. StableStack(Work(rs, session, Orchestrator, TRUE, 0, "scheduled"))
            BY <2>4, StableWork
        <3>2. IsStack(Work(rs, session, Orchestrator, TRUE, 0, "scheduled"))
            BY OrchestratorWork
        <3> QED BY <2>2, <3>1, <3>2, FinalizeStack, StableFinalize, StableJoins
    <2> QED BY <2>3, <2>4, <2>5, StableOwn, ItemsSame
<1>6. ASSUME NEW i \in ItemIds, FireRunAs(i) PROVE SessionsInv'
    <2>1. PICK session, name : session = items[i].session /\ name = items[i].run_as
        OBVIOUS
    <2>2. PICK wired : wired = registered[Route(name)].slack_wired
        OBVIOUS
    <2>3. PICK rs \in specialist_turn(name) :
              pending' = Work(rs, session, name, wired, 0, "run_as") \o Finalize(i)
        BY <1>6, <2>1, <2>2 DEF FireRunAs
    <2>4. Registered(name) /\ effect' = None /\ UNCHANGED <<items, source>>
        BY <1>6, <2>1 DEF FireRunAs, RunsAs
    <2>5. wired => registered[Route(name)].slack_wired
        BY <2>2, Zenon
    <2>6. session \in Sessions
        <3>1. ItemStable(items[i]) /\ items[i].status = "active"
            BY <1>6 DEF FireRunAs, RunsAs, StableItems
        <3> QED BY <2>1, <3>1, MessagingAssumption DEF ItemStable
    <2>7. StableStack(pending')
        <3>1. StableStack(Work(rs, session, name, wired, 0, "run_as"))
            BY <2>6, StableWork
        <3>2. IsStack(Work(rs, session, name, wired, 0, "run_as"))
            BY <2>4, <2>5, SpecialistWork
        <3> QED BY <2>3, <3>1, <3>2, FinalizeStack, StableFinalize, StableJoins
    <2> QED BY <2>4, <2>7, StablePost, ItemsSame
<1>h. ASSUME pending # <<>>
      PROVE  IsStack(rest) /\ RowOK(row) /\ StableStack(rest) /\ RowStable(row)
    BY <1>h, StackShrinks, StableShrinks DEF rest, row, StackInv
<1>7. CASE DeliverReply
    <2>1. PICK r : r = row
        OBVIOUS
    <2>2. /\ RowOK(r) /\ RowStable(r) /\ r.kind # "finalize" /\ r.path \in {"inbound", "scheduled", "run_as"}
          /\ StableStack(pending')
        BY <1>7, <1>h, <2>1 DEF DeliverReply
    <2>3. PICK run_as : run_as = IF r.path = "run_as" THEN r.by ELSE None
        OBVIOUS
    <2>4. r.session \in Sessions /\ (run_as = None => r.session \in OwnSessions)
        BY <2>2, <2>3, Names DEF RowOK, RowStable
    <2>5. \/ create_schedule(run_as) /\ effect' = None
          \/ /\ cancel_schedule(r.kind, r.arg) /\ effect' = None
             /\ r.kind \in {"cancel_schedule", "pause_schedule", "resume_schedule"}
          \/ UNCHANGED <<items, source>> /\ (effect' = None \/ effect' = Post(r.session, r.by))
        BY <1>7, <2>1, <2>3 DEF DeliverReply
    <2>6. StableSessions'
        BY <2>5, StablePost
    <2>7. StableItems'
        BY <2>1, <2>4, <2>5, CancelMoves, ItemMade, ItemsKept, ItemsSame
    <2> QED BY <2>2, <2>6, <2>7
<1>8. CASE DeliverInternal
    <2>1. PICK r : r = row
        OBVIOUS
    <2>2. /\ RowOK(r) /\ RowStable(r) /\ r.path \in {"relay", "a2a"} /\ StableStack(pending')
          /\ effect' = None
        BY <1>8, <1>h, <2>1 DEF DeliverInternal
    <2>3. PICK run_as : run_as = IF r.path = "a2a" THEN r.by ELSE None
        OBVIOUS
    <2>4. (r.kind = "schedule_message" /\ create_schedule(run_as)) \/ UNCHANGED <<items, source>>
        BY <1>8, <2>1, <2>3 DEF DeliverInternal
    <2>5. r.kind = "schedule_message" =>
              r.session \in Sessions /\ (run_as = None => r.session \in OwnSessions)
        BY <2>2, <2>3, Names DEF RowOK, RowStable
    <2>6. StableItems'
        BY <2>1, <2>4, <2>5, ItemMade, ItemsSame
    <2> QED BY <2>2, <2>6, StablePost
<1>9. CASE FinalizeScheduledTurn
    <2>1. BothMove
        BY <1>9, FinalizeMoves, TableSame DEF FinalizeScheduledTurn, BothMove
    <2>2. StableItems'
        BY <2>1, ItemsKept
    <2> QED BY <1>9, <1>h, <2>2, StablePost DEF FinalizeScheduledTurn
<1>10. CASE HopLimit
    BY <1>10, <1>h, StablePost, ItemsSame DEF HopLimit, Routed
<1>11. CASE RouteToOrchestrator
    <2>1. PICK root, relay, by, depth :
              /\ root = conversation_root(row.session) /\ relay = a2a_session(Orchestrator, root)
              /\ by = row.by /\ depth = row.depth + 1
        OBVIOUS
    <2>2. PICK rs \in orchestrator_turn \cup {<<>>} :
              pending' = Work(rs, relay, Orchestrator, TRUE, depth, "relay") \o rest
        BY <1>11, <2>1 DEF RouteToOrchestrator
    <2>3. effect' = Turn(Orchestrator, relay, by) /\ pending # <<>> /\ UNCHANGED <<items, source>>
          /\ row.kind = "send_message"
        BY <1>11, <2>1 DEF RouteToOrchestrator, Routed
    <2>4. relay \in OwnSessions /\ relay \in Sessions
        <3>1. root \in Roots
            BY <1>h, <2>1, <2>3, RootFound DEF RowStable
        <3> QED BY <2>1, <3>1, SessionNames
    <2>5. StableStack(Work(rs, relay, Orchestrator, TRUE, depth, "relay"))
        BY <2>4, StableWork
    <2>6. IsStack(Work(rs, relay, Orchestrator, TRUE, depth, "relay"))
        BY OrchestratorWork
    <2>7. StableStack(pending')
        BY <1>h, <2>2, <2>3, <2>5, <2>6, StableJoins
    <2> QED BY <2>3, <2>4, <2>7, StableOwn, ItemsSame
<1>12. CASE RouteToSpecialist
    <2>1. PICK name, root, session, by, depth :
              /\ name = row.arg /\ root = conversation_root(row.session)
              /\ session = a2a_session(name, root) /\ by = row.by /\ depth = row.depth + 1
        OBVIOUS
    <2>2. PICK rs \in specialist_turn(name) \cup {<<>>} :
              pending' = Work(rs, session, name, FALSE, depth, "a2a") \o rest
        BY <1>12, <2>1 DEF RouteToSpecialist
    <2>3. effect' = Turn(name, session, by) /\ pending # <<>> /\ UNCHANGED <<items, source>>
          /\ row.kind = "send_message" /\ Registered(name)
        BY <1>12, <2>1 DEF RouteToSpecialist, Routed
    <2>4. root \in Roots
        BY <1>h, <2>1, <2>3, RootFound DEF RowStable
    <2>5. session \in Sessions
        BY <2>1, <2>3, <2>4, SessionNames
    <2>6. StableStack(Work(rs, session, name, FALSE, depth, "a2a"))
        BY <2>5, StableWork
    <2>7. IsStack(Work(rs, session, name, FALSE, depth, "a2a"))
        BY <2>3, SpecialistWork
    <2>8. StableStack(pending')
        BY <1>h, <2>2, <2>3, <2>6, <2>7, StableJoins
    <2>9. StableSessions'
        BY <2>1, <2>3, <2>4, StableTurn
    <2> QED BY <2>3, <2>8, <2>9, ItemsSame
<1>13. CASE RouteToChannel
    <2>1. effect' = None \/ effect' = Post(row.arg, row.by)
        BY <1>13 DEF RouteToChannel
    <2> QED BY <1>13, <1>h, <2>1, StablePost, ItemsSame DEF RouteToChannel, Routed
<1>14. CASE UNCHANGED vars
    BY <1>14, ItemsSame DEF vars, StableSessions
<1> QED
    BY <1>1, <1>2, <1>3, <1>4, <1>5, <1>6, <1>7, <1>8, <1>9, <1>10, <1>11, <1>12, <1>13, <1>14
    DEF Next, Handle

(* However many hops an exchange takes and whoever schedules what on the way,
   a turn is in the session of a channel, in the standing one, or in the one
   session its agent has for that conversation: for any agents, channels and
   depth, as long as the names can be told apart.                           *)
THEOREM SessionsAreStable == ASSUME NamesApart PROVE Spec => []StableSessions
<1>1. Init => StackInv /\ EffectOK /\ ItemsInv /\ SessionsInv
    <2>1. Init => ItemsInv
        BY ItemsInit
    <2>2. ItemStable(NoItem)
        BY NoItemFacts DEF ItemStable
    <2>3. Init => StableItems
        BY <2>2 DEF Init, StableItems
    <2>4. Init => StableStack(pending) /\ StableSessions
        BY DEF Init, StableStack, StableSessions
    <2> QED BY <2>1, <2>3, <2>4, StackInit DEF SessionsInv
<1>2. StackInv /\ EffectOK /\ ItemsInv /\ SessionsInv /\ [Next]_vars
        => (StackInv /\ EffectOK /\ ItemsInv /\ SessionsInv)'
    BY StackStep, EndedStep, SessionsStep
<1>3. SessionsInv => StableSessions
    BY DEF SessionsInv
<1> QED BY <1>1, <1>2, <1>3, PTL DEF Spec
=============================================================================
