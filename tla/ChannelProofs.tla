--------------------------- MODULE ChannelProofs ----------------------------
(***************************************************************************)
(* Proofs for the Slack path and for the web console.                      *)
(*                                                                         *)
(* Slack: the key of a message that had a turn is remembered or was        *)
(* forgotten, and every open window goes back to an engagement in its      *)
(* thread, whose time it carries.  Both rest on what an envelope that is   *)
(* queued or in hand stands for.                                           *)
(***************************************************************************)
EXTENDS Channel, WebConsole, TLAPS

-----------------------------------------------------------------------------
(* What the listener makes of an envelope *)

EnvelopeType == {"message", "app_mention"}

Key(m) == dedupe_key("slack", About[m].channel, <<m>>)

\* The root of the thread a message is in, and the window of the thread its
\* answer lands in.
Root(m) == IF About[m].thread_ts = m THEN Absent ELSE About[m].thread_ts
Landing(m) == IF Root(m) = Absent THEN m ELSE Root(m)
Window(m) == engagement_key("slack", About[m].channel, Landing(m))

LEMMA NormalizedEnvelope ==
    ASSUME NEW m \in Messages, NEW t \in EnvelopeType, NEW ev \in normalize(Envelope(t, m), Identity)
    PROVE  /\ ev.dedupe_key = Key(m)
           /\ ev.chat_id = About[m].channel /\ ev.platform_message_id = m
           /\ ev.thread_root_id = Root(m)
           /\ ev.engagement_key = engagement_key("slack", About[m].channel, Root(m))
           /\ ev.is_mention => t = "app_mention" \/ About[m].text.mention
           /\ ev.is_direct => ChannelType[m] = "im"
<1> DEFINE env == Envelope(t, m)
<1>1. PICK a : a = About[m]
    OBVIOUS
<1>2. a.ts = m
    BY <1>1, ChannelAssumption
<1>3. /\ env.type = t /\ env.subtype = Absent /\ env.message = a
      /\ env.channel_type = ChannelType[m]
    BY <1>1 DEF Envelope
<1>4. ev \in normalize_message(env, Identity)
    <2>1. ev \in normalize(env, Identity)
        OBVIOUS
    <2> HIDE DEF env
    <2> QED BY <1>3, <2>1 DEF normalize, EnvelopeType
<1>5. PICK force, direct :
          /\ ev = build(a, <<m>>, direct, force, "new", Identity)
          /\ force = (t = "app_mention") /\ direct = ChannelType[m]
    <2> HIDE DEF env
    <2> QED BY <1>2, <1>3, <1>4 DEF normalize_message, Absent
<1>6. PICK root : root = IF a.thread_ts = m THEN Absent ELSE a.thread_ts
    OBVIOUS
<1>7. PICK mention, im, self :
          /\ ev = [channel_kind |-> "slack", chat_id |-> a.channel,
                   sender_id |-> SlackSender(a.user, a.bot_id),
                   platform_message_id |-> m, thread_root_id |-> root,
                   engagement_key |-> engagement_key("slack", a.channel, root),
                   state |-> "new", is_mention |-> mention, is_direct |-> im,
                   is_self_author |-> self,
                   dedupe_key |-> dedupe_key("slack", a.channel, <<m>>), text |-> a.text]
          /\ mention = (force \/ a.text.mention) /\ im = (direct = "im")
    BY <1>2, <1>5, <1>6, Zenon DEF build
<1>8. /\ ev.dedupe_key = dedupe_key("slack", a.channel, <<m>>)
      /\ ev.chat_id = a.channel /\ ev.platform_message_id = m /\ ev.thread_root_id = root
      /\ ev.engagement_key = engagement_key("slack", a.channel, root)
      /\ ev.is_mention = mention /\ ev.is_direct = im
    BY <1>7, Zenon
<1>9. root = Root(m)
    BY <1>1, <1>6 DEF Root
<1>10. ev.is_mention => t = "app_mention" \/ About[m].text.mention
    BY <1>1, <1>5, <1>7, <1>8, Zenon
<1>11. ev.is_direct => ChannelType[m] = "im"
    BY <1>5, <1>7, <1>8, Zenon
<1> QED BY <1>1, <1>8, <1>9, <1>10, <1>11 DEF Key

-----------------------------------------------------------------------------
(* The invariant *)

\* An envelope that was queued or taken up stands for a message posted, and
\* says app_mention only of a mention.
Genuine(e) ==
    /\ e \in EnvelopeType \X Messages
    /\ e[1] \in Types(e[2]) /\ e[2] \in posted

EnvelopesOK ==
    /\ posted \subseteq Messages
    /\ \A m \in posted : About[m].thread_ts \in Messages \cup {Absent}
    /\ \A e \in queue : Genuine(e)
    /\ inhand # NoEnvelope => Genuine(inhand)

SeenKeys == {seen[i] : i \in DOMAIN seen}

\* What had a turn is remembered or was forgotten, and what had two was
\* forgotten.
SeenOK ==
    /\ seen \in Seq({Key(m) : m \in Messages})
    /\ turns \in [Messages -> Nat]
    /\ \A m \in Messages : turns[m] > 0 => Key(m) \in evicted \cup SeenKeys
    /\ \A m \in Messages : turns[m] > 1 => Key(m) \in evicted

Engagement == [message: Messages, at: Nat]

\* A window goes back to an engagement of its thread and ends a window's time
\* after it.
WindowsOK ==
    /\ clock \in Nat
    /\ sticky_engagement \in [WindowKeys -> Nat]
    /\ engagements \in Seq(Engagement)
    /\ \A i \in DOMAIN engagements : engagements[i].at <= clock
    /\ \A k \in WindowKeys : sticky_engagement[k] # 0 =>
          \E j \in DOMAIN engagements :
              /\ k = Window(engagements[j].message)
              /\ sticky_engagement[k] = engagements[j].at + STICKY_TTL_SECS

ChannelInv == EnvelopesOK /\ SeenOK /\ WindowsOK /\ EngagedForAReason

LEMMA ChannelInit == Init => ChannelInv
<1> SUFFICES ASSUME Init PROVE ChannelInv
    OBVIOUS
<1>1. EnvelopesOK
    BY DEF Init, EnvelopesOK
<1>2. SeenOK
    BY DEF Init, SeenOK, SeenKeys
<1>3. WindowsOK
    BY DEF Init, WindowsOK
<1>4. EngagedForAReason
    BY DEF Init, EngagedForAReason
<1> QED BY <1>1, <1>2, <1>3, <1>4 DEF ChannelInv

\* Each part, when a step leaves what it speaks of alone.
LEMMA EnvelopesKept ==
    ASSUME EnvelopesOK, posted' = posted, queue' \subseteq queue, inhand' \in {inhand, NoEnvelope}
    PROVE  EnvelopesOK'
BY DEF EnvelopesOK, Genuine

LEMMA SeenKept ==
    ASSUME SeenOK, UNCHANGED <<seen, turns, evicted>> PROVE SeenOK'
BY DEF SeenOK, SeenKeys

LEMMA WindowsKept ==
    ASSUME WindowsOK, EngagedForAReason, engagements' = engagements, clock' \in Nat, clock <= clock',
           sticky_engagement' \in [WindowKeys -> Nat],
           \A k \in WindowKeys : sticky_engagement'[k] \in {0, sticky_engagement[k]}
    PROVE  WindowsOK' /\ EngagedForAReason'
<1>1. \A i \in DOMAIN engagements' : engagements'[i].at <= clock'
    <2>1. \A i \in DOMAIN engagements : engagements[i] \in Engagement
        BY DEF WindowsOK
    <2>2. \A i \in DOMAIN engagements : engagements[i].at \in Nat /\ engagements[i].at <= clock
        BY <2>1 DEF WindowsOK, Engagement
    <2> QED BY <2>2 DEF WindowsOK
<1>2. \A k \in WindowKeys : sticky_engagement'[k] # 0 =>
          \E j \in DOMAIN engagements' :
              /\ k = Window(engagements'[j].message)
              /\ sticky_engagement'[k] = engagements'[j].at + STICKY_TTL_SECS
    BY DEF WindowsOK
<1>3. WindowsOK'
    BY <1>1, <1>2 DEF WindowsOK
<1>4. EngagedForAReason'
    BY DEF EngagedForAReason
<1> QED BY <1>3, <1>4

\* A key is remembered: no key gets lost without being counted as forgotten.
LEMMA RememberOK ==
    ASSUME SeenOK, NEW m \in Messages, seen' = Remember(Key(m)),
           evicted' = evicted \cup ({seen[i] : i \in DOMAIN seen} \ {seen'[i] : i \in DOMAIN seen'})
    PROVE  /\ seen' \in Seq({Key(n) : n \in Messages})
           /\ Key(m) \in SeenKeys'
           /\ evicted \cup SeenKeys \subseteq evicted' \cup SeenKeys'
           /\ evicted \subseteq evicted'
<1> DEFINE Keys == {Key(n) : n \in Messages}
<1>1. Key(m) \in Keys /\ seen \in Seq(Keys)
    BY DEF SeenOK
<1>2. PICK key : key = Key(m)
    OBVIOUS
<1>3. PICK short : short = IF Len(seen) >= SEEN_CAPACITY THEN Tail(seen) ELSE seen
    OBVIOUS
<1> HIDE DEF Keys
<1>4. short \in Seq(Keys)
    BY <1>1, <1>3, ChannelAssumption
<1>5. seen' = Append(short, key)
    BY <1>2, <1>3 DEF Remember
<1>6. seen' \in Seq(Keys) /\ Len(seen') \in DOMAIN seen' /\ seen'[Len(seen')] = key
    BY <1>1, <1>2, <1>4, <1>5
<1> QED BY <1>2, <1>6 DEF SeenKeys, Keys

\* The windows' keys are those of the threads.
LEMMA WindowOfMessage ==
    ASSUME EnvelopesOK, NEW m \in posted
    PROVE  /\ m \in Messages
           /\ Window(m) \in WindowKeys
           /\ engagement_key("slack", About[m].channel, Root(m)) \in WindowKeys
<1>1. m \in Messages /\ Root(m) \in Messages \cup {Absent} /\ Landing(m) \in Messages \cup {Absent}
    BY DEF EnvelopesOK, Root, Landing
<1> QED BY <1>1 DEF WindowKeys, Window

\* A window that a message is in is the window of an engagement only when the
\* message is in a thread, and in the same one.
LEMMA SameThread ==
    ASSUME EnvelopesOK, NEW m \in posted, NEW f \in Messages,
           engagement_key("slack", About[m].channel, Root(m)) = Window(f)
    PROVE  /\ About[m].thread_ts \notin {Absent, m}
           /\ About[m].thread_ts \in {About[f].thread_ts, f}
<1>1. Landing(f) # Absent
    BY ChannelAssumption DEF Landing
<1>2. Window(f) = <<"slack", About[f].channel, Landing(f)>>
    BY <1>1 DEF Window, engagement_key
<1>3. PICK c, g, r, l : c = About[m].channel /\ g = About[f].channel /\ r = Root(m) /\ l = Landing(f)
    OBVIOUS
<1>4. <<"slack", c>> # <<"slack", g, l>>
    OBVIOUS
<1>5. r # Absent /\ r = l
    BY <1>2, <1>3, <1>4 DEF engagement_key
<1>6. About[m].thread_ts = r /\ About[m].thread_ts # m
    BY <1>3, <1>5 DEF Root
<1>7. l \in {About[f].thread_ts, f}
    BY <1>3 DEF Landing, Root
<1> QED BY <1>5, <1>6, <1>7

\* The reason of an engagement of message m at a time: the message itself, or
\* an engagement f before it.
Addressed(m) == About[m].text.mention \/ ChannelType[m] = "im"
Continues(m, at, f) ==
    /\ f.at <= at /\ at < f.at + STICKY_TTL_SECS
    /\ About[m].thread_ts \in {About[f.message].thread_ts, f.message}
Reason(es, i) ==
    \/ Addressed(es[i].message)
    \/ /\ About[es[i].message].thread_ts \notin {Absent, es[i].message}
       /\ \E j \in 1 .. i - 1 : Continues(es[i].message, es[i].at, es[j])

LEMMA Reasons ==
    EngagedForAReason <=> (mode = "mention_sticky" => \A i \in DOMAIN engagements : Reason(engagements, i))
BY Zenon DEF EngagedForAReason, Reason, Addressed, Continues

\* A message passes the gate: the turn is counted, its window opened, and there
\* was a reason.
LEMMA EngageStep ==
    ASSUME ChannelInv, HandleNew, NEW m \in posted, NEW t \in EnvelopeType, inhand = <<t, m>>,
           NEW ev \in normalize(Envelope(t, m), Identity),
           NEW failing \in SUBSET Failures, Gate(ev, failing) = "engage",
           t \in Types(m), sticky_engagement' \in {open_sticky(ev), sticky_engagement},
           engagements' = Append(engagements, [message |-> m, at |-> clock]), clock' = clock
    PROVE  WindowsOK' /\ EngagedForAReason'
<1> DEFINE new == [message |-> m, at |-> clock]
<1>a. EnvelopesOK /\ WindowsOK /\ EngagedForAReason
    BY DEF ChannelInv
<1>b. /\ m \in Messages /\ Window(m) \in WindowKeys
      /\ engagement_key("slack", About[m].channel, Root(m)) \in WindowKeys
    BY <1>a, WindowOfMessage
<1>c. /\ ev.chat_id = About[m].channel /\ ev.platform_message_id = m
      /\ ev.thread_root_id = Root(m)
      /\ ev.engagement_key = engagement_key("slack", About[m].channel, Root(m))
      /\ ev.is_mention => t = "app_mention" \/ About[m].text.mention
      /\ ev.is_direct => ChannelType[m] = "im"
    BY <1>b, NormalizedEnvelope
<1>d. /\ clock \in Nat /\ STICKY_TTL_SECS \in Nat /\ engagements \in Seq(Engagement)
      /\ sticky_engagement \in [WindowKeys -> Nat]
    BY <1>a, ChannelAssumption DEF WindowsOK
<1>e. new \in Engagement
    BY <1>b, <1>d DEF Engagement
<1>1. /\ engagements' \in Seq(Engagement)
      /\ DOMAIN engagements' = 1 .. Len(engagements) + 1
      /\ DOMAIN engagements = 1 .. Len(engagements) /\ Len(engagements) \in Nat
      /\ engagements'[Len(engagements) + 1] = new
      /\ \A i \in DOMAIN engagements : engagements'[i] = engagements[i]
    <2>1. engagements' = Append(engagements, new)
        OBVIOUS
    <2> HIDE DEF new
    <2> QED BY <1>d, <1>e, <2>1
<1>2. /\ sticky_engagement' \in [WindowKeys -> Nat]
      /\ \A k \in WindowKeys : \/ sticky_engagement'[k] = sticky_engagement[k]
                               \/ k = Window(m) /\ sticky_engagement'[k] = clock + STICKY_TTL_SECS
    <2>1. CASE mode # "mention_sticky" \/ sticky_engagement' = sticky_engagement
        BY <1>d, <2>1 DEF open_sticky
    <2>2. CASE mode = "mention_sticky" /\ sticky_engagement' = open_sticky(ev)
        <3>1. engagement_key("slack", ev.chat_id, ThreadRoot(ev)) = Window(m)
            BY <1>c DEF ThreadRoot, Window, Landing
        <3>2. sticky_engagement' = [sticky_engagement EXCEPT ![Window(m)] = clock + STICKY_TTL_SECS]
            BY <2>2, <3>1 DEF open_sticky
        <3> QED BY <1>b, <1>d, <3>2
    <2> QED BY <2>1, <2>2
<1>3. \A i \in DOMAIN engagements' : engagements'[i].at <= clock'
    BY <1>a, <1>d, <1>1 DEF WindowsOK
<1>4. ASSUME NEW k \in WindowKeys, sticky_engagement'[k] # 0
      PROVE  \E j \in DOMAIN engagements' :
                 /\ k = Window(engagements'[j].message)
                 /\ sticky_engagement'[k] = engagements'[j].at + STICKY_TTL_SECS
    <2>1. CASE sticky_engagement'[k] = sticky_engagement[k]
        <3>1. PICK j \in DOMAIN engagements :
                  /\ k = Window(engagements[j].message)
                  /\ sticky_engagement[k] = engagements[j].at + STICKY_TTL_SECS
            BY <1>a, <1>4, <2>1 DEF WindowsOK
        <3>2. j \in DOMAIN engagements' /\ engagements'[j] = engagements[j]
            BY <1>1
        <3> QED BY <2>1, <3>1, <3>2
    <2>2. CASE k = Window(m) /\ sticky_engagement'[k] = clock + STICKY_TTL_SECS
        <3>1. Len(engagements) + 1 \in DOMAIN engagements'
            BY <1>1
        <3>2. new.message = m /\ new.at = clock
            OBVIOUS
        <3> HIDE DEF new
        <3> QED BY <1>1, <2>2, <3>1, <3>2
    <2> QED BY <1>2, <2>1, <2>2
<1>5. WindowsOK'
    BY <1>d, <1>1, <1>2, <1>3, <1>4 DEF WindowsOK
<1>6. ASSUME mode = "mention_sticky"
      PROVE  \/ Addressed(m)
             \/ /\ About[m].thread_ts \notin {Absent, m}
                /\ \E j \in 1 .. Len(engagements) : Continues(m, clock, engagements[j])
    <2> DEFINE k == ev.engagement_key
    <2>1. is_engaged(ev, has_active_sticky(k))
        <3>1. evaluate_engagement(ev, has_active_sticky(k)) = "engage"
            BY DEF Gate
        <3> HIDE DEF k
        <3> QED BY <3>1 DEF evaluate_engagement
    <2>2. ev.is_mention \/ ev.is_direct \/ has_active_sticky(k)
        BY <1>6, <2>1, Zenon DEF is_engaged
    <2>3. CASE ev.is_mention
        <3>1. t = "app_mention" => About[m].text.mention
            BY DEF Types
        <3> QED BY <1>c, <2>3, <3>1, Zenon DEF Addressed
    <2>4. CASE ev.is_direct
        BY <1>c, <2>4, Zenon DEF Addressed
    <2>5. CASE has_active_sticky(k)
        <3>1. k \in WindowKeys /\ sticky_engagement[k] \in Nat /\ sticky_engagement[k] > clock
            BY <1>b, <1>c, <1>d, <2>5 DEF has_active_sticky
        <3>2. PICK j \in DOMAIN engagements :
                  /\ k = Window(engagements[j].message)
                  /\ sticky_engagement[k] = engagements[j].at + STICKY_TTL_SECS
            <4> HIDE DEF k
            <4> QED BY <1>a, <1>d, <3>1 DEF WindowsOK
        <3>3. PICK f \in Engagement : f = engagements[j]
            BY <1>d
        <3>4. f.message \in Messages /\ f.at \in Nat /\ f.at <= clock
            BY <1>a, <3>3 DEF Engagement, WindowsOK
        <3>5. /\ About[m].thread_ts \notin {Absent, m}
              /\ About[m].thread_ts \in {About[f.message].thread_ts, f.message}
            BY <1>a, <1>c, <3>2, <3>3, <3>4, SameThread
        <3>6. j \in 1 .. Len(engagements) /\ clock < f.at + STICKY_TTL_SECS
            BY <1>1, <3>1, <3>2, <3>3
        <3> QED BY <3>3, <3>4, <3>5, <3>6 DEF Continues
    <2> QED BY <2>2, <2>3, <2>4, <2>5
<1>7. EngagedForAReason'
    <2>1. ASSUME mode = "mention_sticky", NEW i \in DOMAIN engagements' PROVE Reason(engagements, i)'
        <3>1. CASE i \in DOMAIN engagements
            <4>1. /\ engagements'[i] = engagements[i] /\ i \in Nat
                  /\ \A j \in 1 .. i - 1 : engagements'[j] = engagements[j]
                BY <1>1, <3>1
            <4>2. Reason(engagements, i)
                BY <1>a, <2>1, <3>1, Reasons
            <4> HIDE DEF Addressed, Continues
            <4> QED BY <4>1, <4>2 DEF Reason
        <3>2. CASE i = Len(engagements) + 1
            <4>1. /\ engagements'[i].message = m /\ engagements'[i].at = clock
                  /\ \A j \in 1 .. i - 1 : engagements'[j] = engagements[j]
                  /\ i - 1 = Len(engagements)
                BY <1>1, <3>2
            <4> QED BY <1>6, <2>1, <4>1 DEF Reason
        <3> QED BY <1>1, <3>1, <3>2
    <2>2. (EngagedForAReason <=> (mode = "mention_sticky" =>
              \A i \in DOMAIN engagements : Reason(engagements, i)))'
        BY Zenon DEF EngagedForAReason, Reason, Addressed, Continues
    <2> QED BY <2>1, <2>2
<1> QED BY <1>5, <1>7

LEMMA ChannelStep == ChannelInv /\ [Next]_vars => ChannelInv'
<1> SUFFICES ASSUME ChannelInv, [Next]_vars PROVE ChannelInv'
    OBVIOUS
<1>a. EnvelopesOK /\ SeenOK /\ WindowsOK /\ EngagedForAReason
    BY DEF ChannelInv
<1>b. clock \in Nat /\ sticky_engagement \in [WindowKeys -> Nat]
    BY <1>a DEF WindowsOK
<1>w. ASSUME UNCHANGED <<clock, sticky_engagement, engagements>> PROVE WindowsOK' /\ EngagedForAReason'
    BY <1>a, <1>b, <1>w, WindowsKept
<1>1. CASE Tick
    <2>1. EnvelopesOK' /\ SeenOK'
        BY <1>1, <1>a, EnvelopesKept, SeenKept DEF Tick, memory
    <2>2. WindowsOK' /\ EngagedForAReason'
        BY <1>1, <1>a, <1>b, WindowsKept DEF Tick, history
    <2> QED BY <2>1, <2>2 DEF ChannelInv
<1>2. ASSUME NEW u \in Users, NEW a \in Addresses, Register(u, a) PROVE ChannelInv'
    BY <1>2, <1>a, <1>w, EnvelopesKept, SeenKept DEF Register, memory, history, ChannelInv
<1>3. ASSUME NEW m \in Messages, Post(m) PROVE ChannelInv'
    <2>1. EnvelopesOK'
        <3>1. /\ posted' = posted \cup {m} /\ queue' = queue \cup (Types(m) \X {m})
              /\ About[m].thread_ts \in Messages \cup {Absent} /\ inhand' = inhand
            BY <1>3, <1>a DEF Post, memory, EnvelopesOK
        <3>2. Types(m) \subseteq EnvelopeType
            BY DEF Types, EnvelopeType
        <3>3. \A e \in queue' : Genuine(e)'
            BY <1>a, <3>1, <3>2 DEF EnvelopesOK, Genuine
        <3>4. inhand' # NoEnvelope => Genuine(inhand)'
            BY <1>a, <3>1 DEF EnvelopesOK, Genuine
        <3> QED BY <1>a, <3>1, <3>3, <3>4 DEF EnvelopesOK
    <2>2. SeenOK' /\ WindowsOK' /\ EngagedForAReason'
        BY <1>3, <1>a, <1>w, SeenKept DEF Post, memory, history
    <2> QED BY <2>1, <2>2 DEF ChannelInv
<1>4. ASSUME NEW m \in Messages, NEW t \in EnvelopeType, Redeliver(<<t, m>>) PROVE ChannelInv'
    <2>1. EnvelopesOK'
        <3>1. /\ posted' = posted /\ queue' = queue \cup {<<t, m>>} /\ inhand' = inhand
              /\ m \in posted /\ t \in Types(m)
            BY <1>4 DEF Redeliver, memory
        <3>2. Genuine(<<t, m>>)
            BY <3>1 DEF Genuine
        <3> QED BY <1>a, <3>1, <3>2 DEF EnvelopesOK, Genuine
    <2>2. SeenOK' /\ WindowsOK' /\ EngagedForAReason'
        BY <1>4, <1>a, <1>w, SeenKept DEF Redeliver, memory, history
    <2> QED BY <2>1, <2>2 DEF ChannelInv
<1>5. ASSUME NEW m \in Messages, NEW t \in EnvelopeType, Acknowledge(<<t, m>>) PROVE ChannelInv'
    <2>1. EnvelopesOK'
        <3>1. /\ posted' = posted /\ queue' \subseteq queue /\ inhand' = <<t, m>> /\ <<t, m>> \in queue
            BY <1>5 DEF Acknowledge, Reading
        <3> QED BY <1>a, <3>1 DEF EnvelopesOK, Genuine
    <2>2. SeenOK' /\ WindowsOK' /\ EngagedForAReason'
        BY <1>5, <1>a, <1>w, SeenKept DEF Acknowledge, history
    <2> QED BY <2>1, <2>2 DEF ChannelInv
<1>6. ASSUME NEW m \in Messages, NEW t \in EnvelopeType, AcknowledgeFails(<<t, m>>) PROVE ChannelInv'
    BY <1>6, <1>a, <1>w, EnvelopesKept, SeenKept DEF AcknowledgeFails, ChannelInv
<1>7. ASSUME NEW k \in WindowKeys, expire_sticky(k) \/ reset_sticky(k) PROVE ChannelInv'
    <2>1. /\ sticky_engagement' = [sticky_engagement EXCEPT ![k] = 0]
          /\ UNCHANGED <<clock, queue, posted, memory, history>>
        BY <1>7 DEF expire_sticky, reset_sticky
    <2>2. WindowsOK' /\ EngagedForAReason'
        BY <1>a, <1>b, <2>1, WindowsKept DEF history
    <2>3. EnvelopesOK' /\ SeenOK'
        BY <1>a, <2>1, EnvelopesKept, SeenKept DEF memory
    <2> QED BY <2>2, <2>3 DEF ChannelInv
<1>8. CASE Open \/ OpenFatal \/ Close
    BY <1>8, <1>a, <1>w, EnvelopesKept, SeenKept DEF Open, OpenFatal, Close, history, ChannelInv
<1>9. CASE HandleSkipped
    BY <1>9, <1>a, <1>w, EnvelopesKept, SeenKept DEF HandleSkipped, Done, history, ChannelInv
<1>10. CASE TurnEnds
    BY <1>10, <1>a, <1>w, EnvelopesKept, SeenKept DEF TurnEnds, Done, ChannelInv
<1>11. CASE Crash
    <2>1. EnvelopesOK' /\ WindowsOK' /\ EngagedForAReason'
        BY <1>11, <1>a, <1>w, EnvelopesKept DEF Crash, Done
    <2>2. SeenOK'
        BY <1>11 DEF Crash, SeenOK, SeenKeys
    <2> QED BY <2>1, <2>2 DEF ChannelInv
<1>12. CASE HandleNew
    <2>1. PICK t \in EnvelopeType, m \in posted : inhand = <<t, m>> /\ t \in Types(m) /\ m \in Messages
        BY <1>12, <1>a DEF HandleNew, EnvelopesOK, Genuine
    <2>2. PICK ev \in normalize(Envelope(t, m), Identity), failing \in SUBSET Failures :
              /\ ~Skip(ev)
              /\ seen' = Remember(ev.dedupe_key)
              /\ evicted' = evicted \cup ({seen[i] : i \in DOMAIN seen} \ {seen'[i] : i \in DOMAIN seen'})
              /\ IF Gate(ev, failing) = "engage"
                   THEN Engage(m, ev, failing) ELSE Refuse(m, Gate(ev, failing), failing)
        BY <1>12, <2>1 DEF HandleNew
    <2>a. \/ /\ Gate(ev, failing) = "engage"
             /\ sticky_engagement' \in {open_sticky(ev), sticky_engagement}
             /\ turns' \in {turns, [turns EXCEPT ![m] = @ + 1]}
             /\ engagements' = Append(engagements, [message |-> m, at |-> clock])
             /\ inhand' \in {inhand, NoEnvelope}
          \/ /\ inhand' = NoEnvelope
             /\ UNCHANGED <<sticky_engagement, turns, engagements>>
        <3>1. CASE Gate(ev, failing) = "engage"
            <4>1. Engage(m, ev, failing)
                BY <2>2, <3>1
            <4>2. /\ sticky_engagement' \in {open_sticky(ev), sticky_engagement}
                  /\ engagements' = Append(engagements, [message |-> m, at |-> clock])
                BY <4>1 DEF Engage
            <4>3. turns' \in {turns, [turns EXCEPT ![m] = @ + 1]} /\ inhand' \in {inhand, NoEnvelope}
                BY <4>1 DEF Engage, Done
            <4> QED BY <3>1, <4>2, <4>3
        <3>2. CASE Gate(ev, failing) # "engage"
            BY <2>2, <3>2 DEF Refuse, Done
        <3> QED BY <3>1, <3>2
    <2>3. UNCHANGED <<clock, queue, posted>>
        BY <1>12 DEF HandleNew
    <2>4. EnvelopesOK'
        BY <1>a, <2>a, <2>3, EnvelopesKept
    <2>5. ev.dedupe_key = Key(m)
        BY <2>1, NormalizedEnvelope
    <2>6. /\ seen' \in Seq({Key(n) : n \in Messages})
          /\ Key(m) \in SeenKeys' /\ evicted \subseteq evicted'
          /\ evicted \cup SeenKeys \subseteq evicted' \cup SeenKeys'
        BY <1>a, <2>1, <2>2, <2>5, RememberOK
    <2>7. Key(m) \notin SeenKeys
        BY <2>2, <2>5 DEF Skip, Seen, SeenKeys
    <2>8. SeenOK'
        <3>0. turns' = turns \/ turns' = [turns EXCEPT ![m] = @ + 1]
            BY <2>a
        <3>1. turns' \in [Messages -> Nat]
            BY <1>a, <2>1, <3>0 DEF SeenOK
        <3>2. \A n \in Messages : n # m => turns'[n] = turns[n]
            BY <1>a, <2>1, <3>0 DEF SeenOK
        <3>3. turns'[m] > 1 => turns[m] > 0
            BY <1>a, <2>1, <3>0 DEF SeenOK
        <3>4. \A n \in Messages : turns'[n] > 0 => Key(n) \in evicted' \cup SeenKeys'
            BY <1>a, <2>6, <3>2 DEF SeenOK
        <3>5. \A n \in Messages : turns'[n] > 1 => Key(n) \in evicted'
            BY <1>a, <2>1, <2>6, <2>7, <3>2, <3>3 DEF SeenOK
        <3> QED BY <2>6, <3>1, <3>4, <3>5 DEF SeenOK
    <2>9. CASE UNCHANGED <<sticky_engagement, turns, engagements>>
        BY <1>w, <2>3, <2>4, <2>8, <2>9 DEF ChannelInv
    <2>10. CASE /\ Gate(ev, failing) = "engage"
                /\ sticky_engagement' \in {open_sticky(ev), sticky_engagement}
                /\ engagements' = Append(engagements, [message |-> m, at |-> clock])
        <3>1. WindowsOK' /\ EngagedForAReason'
            BY <1>12, <2>1, <2>3, <2>10, EngageStep
        <3> QED BY <2>4, <2>8, <3>1 DEF ChannelInv
    <2> QED BY <2>a, <2>9, <2>10
<1>13. CASE UNCHANGED vars
    BY <1>13, <1>a, <1>w, EnvelopesKept, SeenKept DEF vars, memory, history, ChannelInv
<1> QED
    BY <1>1, <1>2, <1>3, <1>4, <1>5, <1>6, <1>7, <1>8, <1>9, <1>10, <1>11, <1>12, <1>13
    DEF Next, EnvelopeType

(* One process runs at most one turn for a message, however often Slack sends
   it and in how many kinds, unless its key was forgotten in between: for any
   messages, any capacity of the memory and any faults.                     *)
THEOREM OneTurnForAMessage == Spec => []OneTurnPerMessage
<1>1. ChannelInv => OneTurnPerMessage
    BY DEF ChannelInv, SeenOK, OneTurnPerMessage, Key
<1> QED BY <1>1, ChannelInit, ChannelStep, PTL DEF Spec

(* What engages the assistant mentions it, is a direct message, or continues a
   thread in which it had been engaged less than the window before, for any
   messages, any window and any order of sweeps, resets and restarts.       *)
THEOREM EngagementsHaveReasons == Spec => []EngagedForAReason
<1>1. ChannelInv => EngagedForAReason
    BY DEF ChannelInv
<1> QED BY <1>1, ChannelInit, ChannelStep, PTL DEF Spec

-----------------------------------------------------------------------------
(* The web console *)

WebSpec == WebInit /\ [][WebNext]_webVars

\* An answer is one the running console gave, with the secret it now holds.
ConsoleInv ==
    /\ console.step \in {"stopped", "opening", "serving"}
    /\ console.step # "serving" => answer = NoAnswer
    /\ OnlyTrustedOriginsMutate

\* The gate lets a request that changes something run only with the secret, from
\* a page of the console or with a header of the client's own.
LEMMA GateHolds ==
    ASSUME NEW store, NEW req, authenticate(store, req).kind = "allow", is_mutating(req.method)
    PROVE  \/ req.origin \in AllowedOrigins
           \/ req.origin = "absent" /\ req.bearer = store
<1>1. \A ok, origin_ok : Credential(ok, origin_ok, req).kind = "allow" => ok /\ origin_ok
    BY Zenon DEF Credential, unauthorized, forbidden_origin
<1>2. CASE req.bearer # NoToken
    <2>1. authenticate(store, req) = Credential(verify(store, req.bearer), bearer_origin_ok(req), req)
        BY <1>2 DEF authenticate
    <2>2. verify(store, req.bearer) /\ bearer_origin_ok(req)
        BY <1>1, <2>1
    <2> QED BY <2>2 DEF verify, bearer_origin_ok
<1>3. CASE req.bearer = NoToken /\ req.cookie # NoToken
    <2>1. authenticate(store, req) = Credential(verify(store, req.cookie), cookie_origin_ok(req), req)
        BY <1>3 DEF authenticate
    <2>2. cookie_origin_ok(req)
        BY <1>1, <2>1
    <2> QED BY <2>2 DEF cookie_origin_ok
<1>4. CASE req.bearer = NoToken /\ req.cookie = NoToken
    <2>1. authenticate(store, req) \in {Exchange, unauthorized}
        BY <1>4 DEF authenticate
    <2>2. Exchange.kind # "allow" /\ unauthorized.kind # "allow"
        BY DEF Exchange, unauthorized
    <2> QED BY <2>1, <2>2
<1> QED BY <1>2, <1>3, <1>4

\* What is not let through is not answered as done.
LEMMA RefusedStatus ==
    ASSUME NEW store, NEW req, authenticate(store, req).kind # "allow"
    PROVE  authenticate(store, req).status \notin {200, 201}
<1>1. \A ok, origin_ok : Credential(ok, origin_ok, req) \in {unauthorized, forbidden_origin, Allow}
    BY Zenon DEF Credential
<1>2. authenticate(store, req) \in {unauthorized, forbidden_origin, Allow, Exchange}
    <2>1. CASE req.bearer # NoToken
        BY <1>1, <2>1 DEF authenticate
    <2>2. CASE req.bearer = NoToken /\ req.cookie # NoToken
        BY <1>1, <2>2 DEF authenticate
    <2>3. CASE req.bearer = NoToken /\ req.cookie = NoToken
        BY <2>3 DEF authenticate
    <2> QED BY <2>1, <2>2, <2>3
<1>3. Allow.kind = "allow" /\ unauthorized.status = 401 /\ forbidden_origin.status = 403 /\ Exchange.status = 303
    BY DEF Allow, unauthorized, forbidden_origin, Exchange
<1> QED BY <1>2, <1>3

(* A request that changes anything ran on the secret the console holds, and
   came from a page of the console or from a tool with a header of its own,
   for any requests, routes and restarts.                                   *)
THEOREM TrustedOrigins == WebSpec => []OnlyTrustedOriginsMutate
<1>0. NoAnswer.status \notin {200, 201}
    BY DEF NoAnswer
<1>1. WebInit => ConsoleInv
    BY <1>0 DEF WebInit, ConsoleInv, Stopped, OnlyTrustedOriginsMutate
<1>2. ConsoleInv /\ [WebNext]_webVars => ConsoleInv'
    <2> SUFFICES ASSUME ConsoleInv, [WebNext]_webVars PROVE ConsoleInv'
        OBVIOUS
    <2>0. ASSUME answer' = NoAnswer, console'.step \in {"stopped", "opening", "serving"} PROVE ConsoleInv'
        BY <1>0, <2>0 DEF ConsoleInv, OnlyTrustedOriginsMutate
    <2>1. CASE EnsureToken
        <3>1. console'.step = "opening" /\ answer' = answer /\ console.step = "stopped"
            BY <2>1 DEF EnsureToken
        <3> QED BY <2>0, <3>1 DEF ConsoleInv
    <2>2. CASE Announce
        <3>1. console'.step = "serving" /\ answer' = answer /\ console.step = "opening"
            BY <2>2 DEF Announce
        <3> QED BY <2>0, <3>1 DEF ConsoleInv
    <2>3. CASE Stop
        BY <2>0, <2>3 DEF Stop, Stopped
    <2>4. CASE DeleteToken \/ UNCHANGED webVars
        BY <2>4 DEF DeleteToken, webVars, ConsoleInv, OnlyTrustedOriginsMutate
    <2>5. ASSUME NEW req \in Requests, handle_connection(req) PROVE ConsoleInv'
        <3>1. PICK store : store = console.store
            OBVIOUS
        <3>2. PICK status : /\ answer' = [req |-> req, status |-> status]
                            /\ IF read_request(req) # 0 THEN status = read_request(req)
                               ELSE IF authenticate(store, req).kind = "allow"
                               THEN status \in Statuses(dispatch(req))
                               ELSE status = authenticate(store, req).status
            BY <2>5, <3>1 DEF handle_connection
        <3>3. console' = console /\ console.step = "serving"
            BY <2>5 DEF handle_connection
        <3>4. read_request(req) \in {0, 400, 413}
            BY DEF read_request
        <3>5. status \in {200, 201} => authenticate(store, req).kind = "allow"
            BY <3>2, <3>4, RefusedStatus
        <3>6. answer'.status = status /\ answer'.req = req
            BY <3>2
        <3>7. OnlyTrustedOriginsMutate'
            <4> SUFFICES ASSUME status \in {200, 201}, is_mutating(req.method)
                         PROVE  \/ req.origin \in AllowedOrigins
                                \/ req.origin = "absent" /\ req.bearer = store
                BY <3>1, <3>3, <3>6 DEF OnlyTrustedOriginsMutate
            <4> QED BY <3>5, GateHolds
        <3> QED BY <3>3, <3>7 DEF ConsoleInv
    <2> QED BY <2>1, <2>2, <2>3, <2>4, <2>5 DEF WebNext
<1>3. ConsoleInv => OnlyTrustedOriginsMutate
    BY DEF ConsoleInv
<1> QED BY <1>1, <1>2, <1>3, PTL DEF WebSpec
=============================================================================
