----------------------- MODULE SessionProtocolProofs -----------------------
(* Proofs about SessionProtocol, for every value of its constants. *)
EXTENDS SessionProtocol, TLAPS

(* The MAX(seq) query: MaxOf is the greatest element of a table that has one. *)
LEMMA MaxOfIsMax ==
    ASSUME NEW S, S \subseteq Nat, HasMax(S), S # {}
    PROVE  MaxOf(S) \in S /\ \A n \in S : n =< MaxOf(S)
BY DEF HasMax, MaxOf

(* next_seq allocates beyond every row of the table and keeps its parity. *)
LEMMA NextSeqFresh ==
    ASSUME NEW S, S \subseteq Nat, HasMax(S), NEW first \in {0, 1},
           \A n \in S : n % 2 = first
    PROVE  /\ NextSeq(S, first) \in Nat
           /\ NextSeq(S, first) % 2 = first
           /\ \A n \in S : n < NextSeq(S, first)
<1>1. CASE S = {}
  BY <1>1 DEF NextSeq
<1>2. CASE S # {}
  <2>1. MaxOf(S) \in S /\ \A n \in S : n =< MaxOf(S)
    BY <1>2, MaxOfIsMax
  <2>2. NextSeq(S, first) = MaxOf(S) + 2
    BY <1>2 DEF NextSeq
  <2>3. MaxOf(S) \in Nat /\ MaxOf(S) % 2 = first
    BY <2>1
  <2>4. QED BY <2>1, <2>2, <2>3
<1>3. QED BY <1>1, <1>2

(* A table stays one with a greatest row when a row is put behind it. *)
LEMMA AppendHasMax ==
    ASSUME NEW S, S \subseteq Nat, NEW m \in Nat, \A n \in S : n < m
    PROVE  HasMax(S \cup {m})
BY DEF HasMax

(* The rows of one answer lie behind the table, odd and distinct. *)
LEMMA AnswerRows ==
    ASSUME NEW s \in Nat, NEW n \in Nat \ {0}, TypeOK, HasMax(OutSeqs)
    PROVE  /\ Answer(s, n) \subseteq OutRows
           /\ \A o \in Answer(s, n) : o.seq % 2 = 1 /\ o.in_seq = s
           /\ \A o \in Answer(s, n) : \A p \in messages_out : p.seq < o.seq
           /\ \A o, p \in Answer(s, n) : o.seq = p.seq => o = p
           /\ \A o, p \in Answer(s, n) : o.batch = p.batch
           /\ \E o \in Answer(s, n) : \A p \in Answer(s, n) : p.seq =< o.seq
<1> DEFINE first == NextSeq(OutSeqs, 1)
<1>1. /\ first \in Nat
      /\ first % 2 = 1
      /\ \A m \in OutSeqs : m < first
  <2>1. OutSeqs \subseteq Nat /\ \A m \in OutSeqs : m % 2 = 1
    BY DEF TypeOK, OutSeqs, OutRows, Seqs
  <2>2. QED BY <2>1, NextSeqFresh
<1>2. \A p \in messages_out : p.seq < first
  BY <1>1 DEF OutSeqs
<1> HIDE DEF first
<1>3. Answer(s, n) = {[seq |-> first + 2 * i, in_seq |-> s, batch |-> first] : i \in 0 .. n - 1}
  BY DEF Answer, first
<1>4. \A i \in 0 .. n - 1 : /\ first + 2 * i \in Nat
                            /\ first + 2 * i >= first
                            /\ (first + 2 * i) % 2 = 1
  BY <1>1
<1>5. Answer(s, n) \subseteq OutRows
  BY <1>1, <1>3, <1>4 DEF OutRows, Seqs
<1>6. \A o \in Answer(s, n) : o.seq % 2 = 1 /\ o.in_seq = s
  BY <1>3, <1>4
<1>7. \A o \in Answer(s, n) : \A p \in messages_out : p.seq < o.seq
  <2>1. \A p \in messages_out : p.seq \in Nat
    BY DEF TypeOK, OutRows, Seqs
  <2>2. QED BY <1>1, <1>2, <1>3, <1>4, <2>1
<1>8. \A o, p \in Answer(s, n) : o.seq = p.seq => o = p
  BY <1>3
<1>9. \A o, p \in Answer(s, n) : o.batch = p.batch
  BY <1>3
<1>10. \E o \in Answer(s, n) : \A p \in Answer(s, n) : p.seq =< o.seq
  <2>1. [seq |-> first + 2 * (n - 1), in_seq |-> s, batch |-> first] \in Answer(s, n)
    BY <1>3
  <2>2. \A p \in Answer(s, n) : p.seq =< first + 2 * (n - 1)
    BY <1>1, <1>3
  <2>3. QED BY <2>1, <2>2
<1>11. QED BY <1>5, <1>6, <1>7, <1>8, <1>9, <1>10

(***************************************************************************)
(* At-most-once delivery.  TypeOK and DeliveryInv are inductive together:  *)
(* the type of a new row needs the greatest row of its table.              *)
(***************************************************************************)
LEMMA DeliveryInit == Init => TypeOK /\ DeliveryInv
<1> SUFFICES ASSUME Init PROVE TypeOK /\ DeliveryInv
  OBVIOUS
<1>1. started \in BOOLEAN /\ container \in BOOLEAN
  BY Zenon DEF Init
<1>2. TypeOK
  BY <1>1 DEF Init, TypeOK, Seqs
<1>3. DeliveryInv
  BY DEF Init, DeliveryInv, HasMax, InSeqs, OutSeqs, SeqsOf
<1>4. QED BY <1>2, <1>3

(* The watermark of a new Host covers the delivered table. *)
LEMMA WatermarkCovers ==
    ASSUME TypeOK, DeliveryInv
    PROVE  /\ MaxDeliveredSeq \in delivered \cup {0}
           /\ \A d \in delivered : d =< MaxDeliveredSeq
<1>1. delivered \subseteq Nat /\ HasMax(delivered)
  BY DEF TypeOK, DeliveryInv, Seqs
<1>2. QED BY <1>1, MaxOfIsMax DEF MaxDeliveredSeq

(* A row put behind messages_in. *)
LEMMA InboundGrows ==
    ASSUME TypeOK, DeliveryInv, NEW k \in Keys \cup MetaKeys \cup {NoKey}, NEW b \in BOOLEAN,
           messages_in' = messages_in \cup {[seq |-> NextSeq(InSeqs, 0), key |-> k, meta |-> b]}
    PROVE  /\ messages_in' \subseteq InRows
           /\ \A r \in messages_in' : r.seq % 2 = 0
           /\ NextSeq(InSeqs, 0) \in Nat
           /\ NextSeq(InSeqs, 0) \notin InSeqs
           /\ InSeqs' = InSeqs \cup {NextSeq(InSeqs, 0)}
           /\ HasMax(InSeqs')
<1>1. InSeqs \subseteq Nat /\ \A n \in InSeqs : n % 2 = 0
  BY DEF TypeOK, InSeqs, InRows, Seqs
<1>2. HasMax(InSeqs)
  BY DEF DeliveryInv
<1>3. /\ NextSeq(InSeqs, 0) \in Nat
      /\ NextSeq(InSeqs, 0) % 2 = 0
      /\ \A n \in InSeqs : n < NextSeq(InSeqs, 0)
  BY <1>1, <1>2, NextSeqFresh
<1>4. messages_in' \subseteq InRows /\ \A r \in messages_in' : r.seq % 2 = 0
  BY <1>3 DEF TypeOK, InRows, Seqs
<1>5. InSeqs' = InSeqs \cup {NextSeq(InSeqs, 0)}
  <2> DEFINE row == [seq |-> NextSeq(InSeqs, 0), key |-> k, meta |-> b]
  <2>1. row.seq = NextSeq(InSeqs, 0) /\ messages_in' = messages_in \cup {row}
    OBVIOUS
  <2> HIDE DEF row
  <2>2. InSeqs' = InSeqs \cup {row.seq}
    BY <2>1 DEF InSeqs
  <2>3. QED BY <2>1, <2>2
<1>6. HasMax(InSeqs')
  BY <1>1, <1>3, <1>5, AppendHasMax
<1>7. NextSeq(InSeqs, 0) \notin InSeqs
  BY <1>1, <1>3
<1>8. QED BY <1>3, <1>4, <1>5, <1>6, <1>7

LEMMA DeliveryStep ==
    ASSUME TypeOK, DeliveryInv, [Next]_vars
    PROVE  TypeOK' /\ DeliveryInv'
<1> USE DEF inboundDb, outboundDb, hostVars, shimVars, history
<1>1. ASSUME NEW k \in Keys \cup {NoKey}, BeginTurn(k)
      PROVE  TypeOK' /\ DeliveryInv'
  <2>1. /\ MaxDeliveredSeq \in delivered \cup {0}
        /\ \A d \in delivered : d =< MaxDeliveredSeq
    BY WatermarkCovers
  <2>2. /\ started'
        /\ last_delivered_seq' \in delivered \cup {0}
        /\ \A d \in delivered : d =< last_delivered_seq'
    BY <1>1, <2>1 DEF BeginTurn, EnsureStarted, DeliveryInv
  <2>3. /\ messages_in' \subseteq InRows
        /\ \A r \in messages_in' : r.seq % 2 = 0
        /\ in_seq' \in Nat
        /\ HasMax(InSeqs')
    <3>1. CASE messages_in' = messages_in /\ \E r \in messages_in : in_seq' = r.seq
      BY <3>1 DEF TypeOK, DeliveryInv, InRows, Seqs, InSeqs
    <3>2. CASE /\ messages_in' = messages_in \cup
                     {[seq |-> NextSeq(InSeqs, 0), key |-> k, meta |-> FALSE]}
               /\ in_seq' = NextSeq(InSeqs, 0)
      BY <1>1, <3>2, InboundGrows
    <3>3. QED BY <1>1, <3>1, <3>2 DEF BeginTurn, EnqueueInboundKeyed
  <2>4. TypeOK'
    BY <1>1, <2>2, <2>3 DEF BeginTurn, TypeOK, Seqs
  <2>5. DeliveryInv'
    BY <1>1, <2>2, <2>3 DEF BeginTurn, DeliveryInv, SeqsOf, OutSeqs
  <2>6. QED BY <2>4, <2>5
<1>2. ASSUME NEW k \in MetaKeys, UpsertInboundMeta(k)
      PROVE  TypeOK' /\ DeliveryInv'
  <2>1. /\ messages_in' \subseteq InRows
        /\ \A r \in messages_in' : r.seq % 2 = 0
        /\ HasMax(InSeqs')
    BY <1>2, InboundGrows DEF UpsertInboundMeta
  <2>2. TypeOK'
    BY <1>2, <2>1 DEF UpsertInboundMeta, TypeOK
  <2>3. DeliveryInv'
    BY <1>2, <2>1 DEF UpsertInboundMeta, DeliveryInv, SeqsOf, OutSeqs
  <2>4. QED BY <2>2, <2>3
<1>3. CASE EnqueueFails
  <2>1. /\ MaxDeliveredSeq \in delivered \cup {0}
        /\ \A d \in delivered : d =< MaxDeliveredSeq
    BY WatermarkCovers
  <2>2. TypeOK'
    BY <1>3, <2>1 DEF EnqueueFails, EnsureStarted, Fault, TypeOK, Seqs
  <2>3. DeliveryInv'
    BY <1>3, <2>1 DEF EnqueueFails, EnsureStarted, DeliveryInv, SeqsOf, InSeqs, OutSeqs
  <2>4. QED BY <2>2, <2>3
<1>4. CASE PollReads
  <2>1. TypeOK'
    BY <1>4 DEF PollReads, Unseen, Fault, TypeOK
  <2>2. DeliveryInv'
    BY <1>4 DEF PollReads, Unseen, DeliveryInv, SeqsOf, InSeqs, OutSeqs
  <2>3. QED BY <2>1, <2>2
<1>5. CASE MarkDelivered
  <2>1. PICK o \in new :
          /\ NextToMark(o)
          /\ delivered' = delivered \cup {o.seq}
          /\ last_delivered_seq' = IF o.seq > last_delivered_seq THEN o.seq
                                                                ELSE last_delivered_seq
          /\ new' = new \ {o}
          /\ mine' = IF o.in_seq = in_seq THEN mine \cup {o} ELSE mine
    BY <1>5 DEF MarkDelivered
  <2>2. /\ hpc = "mark" /\ started
        /\ o \in messages_out /\ o \in OutRows /\ o.seq \in Nat
        /\ o.seq > last_delivered_seq /\ last_delivered_seq \in Nat
    BY <1>5 DEF MarkDelivered, TypeOK, DeliveryInv, OutRows, Seqs
  <2>3. last_delivered_seq' = o.seq
    BY <2>1, <2>2
  <2>4. TypeOK'
    BY <1>5, <2>1, <2>2, <2>3 DEF MarkDelivered, TypeOK, Seqs
  <2>5. \A p \in new' : p.seq > o.seq
    <3>1. \A p \in new : p \in messages_out /\ p.seq \in Nat /\ o.seq =< p.seq
      BY <2>1 DEF NextToMark, DeliveryInv, TypeOK, OutRows, Seqs
    <3>2. \A p \in new : p.seq = o.seq => p = o
      BY <2>2, <3>1 DEF DeliveryInv
    <3>3. QED BY <2>1, <2>2, <3>1, <3>2
  <2>6. /\ \A d \in delivered' : d =< o.seq
        /\ HasMax(delivered')
    <3>1. \A d \in delivered : d \in Nat /\ d =< last_delivered_seq
      BY <2>2 DEF DeliveryInv, TypeOK, Seqs
    <3>2. QED BY <2>1, <2>2, <3>1 DEF HasMax
  <2>7. o.seq \notin handed
    <3>1. \A d \in handed : d \in Nat /\ d =< last_delivered_seq
      BY <2>2 DEF DeliveryInv, TypeOK, Seqs
    <3>2. QED BY <2>2, <3>1
  <2>8. /\ mine' \subseteq messages_out
        /\ SeqsOf(mine)' \subseteq delivered'
        /\ SeqsOf(mine)' \cap handed = {}
        /\ \A p \in mine' : p.in_seq = in_seq
    BY <2>1, <2>2, <2>7 DEF DeliveryInv, SeqsOf
  <2>9. delivered' \subseteq OutSeqs
    BY <2>1, <2>2 DEF DeliveryInv, OutSeqs
  <2>10. UNCHANGED <<messages_in, messages_out, handed, hpc, started, in_seq>>
    BY <1>5 DEF MarkDelivered
  <2>11. DeliveryInv'
    BY <1>5, <2>1, <2>2, <2>3, <2>5, <2>6, <2>8, <2>9, <2>10
       DEF DeliveryInv, InSeqs, OutSeqs
  <2>12. QED BY <2>4, <2>11
<1>6. CASE ReturnReplies
  <2>1. TypeOK'
    BY <1>6 DEF ReturnReplies, TypeOK, SeqsOf, OutRows, Seqs
  <2>2. DeliveryInv'
    BY <1>6 DEF ReturnReplies, DeliveryInv, SeqsOf, InSeqs, OutSeqs
  <2>3. QED BY <2>1, <2>2
<1>7. ASSUME NEW n \in RowCounts, EmitBatch(n)
      PROVE  TypeOK' /\ DeliveryInv'
  <2>1. PICK s \in inbox :
          /\ messages_out' = messages_out \cup Answer(s, n)
          /\ processing_ack' = processing_ack \cup {s}
          /\ handled' = handled \cup {s}
          /\ inbox' = inbox \ {s}
    BY <1>7 DEF EmitBatch
  <2>2. s \in Nat /\ n \in Nat \ {0} /\ HasMax(OutSeqs)
    BY ConstantsAssumption DEF TypeOK, DeliveryInv, Seqs
  <2>3. /\ Answer(s, n) \subseteq OutRows
        /\ \A o \in Answer(s, n) : o.seq % 2 = 1 /\ o.in_seq = s
        /\ \A o \in Answer(s, n) : \A p \in messages_out : p.seq < o.seq
        /\ \A o, p \in Answer(s, n) : o.seq = p.seq => o = p
        /\ \E o \in Answer(s, n) : \A p \in Answer(s, n) : p.seq =< o.seq
    BY <2>2, AnswerRows
  <2>4. TypeOK'
    BY <1>7, <2>1, <2>2, <2>3 DEF EmitBatch, TypeOK, Seqs
  <2>5. \A o \in messages_out \cup Answer(s, n) : o.seq \in Nat
    BY <2>3 DEF TypeOK, OutRows, Seqs
  <2>6. HasMax(OutSeqs')
    <3>1. PICK o \in Answer(s, n) : \A p \in Answer(s, n) : p.seq =< o.seq
      BY <2>3
    <3>2. \A p \in messages_out' : p.seq =< o.seq
      BY <2>1, <2>3, <2>5, <3>1
    <3>3. o \in messages_out'
      BY <2>1
    <3>4. QED BY <3>2, <3>3 DEF HasMax, OutSeqs
  <2>7. \A o, p \in messages_out' : o.seq = p.seq => o = p
    BY <2>1, <2>3, <2>5 DEF DeliveryInv
  <2>8. OutSeqs \subseteq OutSeqs'
    BY <2>1 DEF OutSeqs
  <2>9. DeliveryInv'
    BY <1>7, <2>1, <2>6, <2>7, <2>8 DEF EmitBatch, DeliveryInv, InSeqs, SeqsOf
  <2>10. QED BY <2>4, <2>9
<1>8. CASE ReuseContainer
  <2>1. TypeOK'
    BY <1>8 DEF ReuseContainer, TypeOK
  <2>2. DeliveryInv'
    BY <1>8 DEF ReuseContainer, DeliveryInv, SeqsOf, InSeqs, OutSeqs
  <2>3. QED BY <2>1, <2>2
<1>9. CASE SpawnContainer
  <2>1. TypeOK'
    BY <1>9 DEF SpawnContainer, TypeOK
  <2>2. DeliveryInv'
    BY <1>9 DEF SpawnContainer, DeliveryInv, SeqsOf, InSeqs, OutSeqs
  <2>3. QED BY <2>1, <2>2
<1>10. CASE SpawnFails
  <2>1. TypeOK'
    BY <1>10 DEF SpawnFails, Fault, TypeOK
  <2>2. DeliveryInv'
    BY <1>10 DEF SpawnFails, Fault, DeliveryInv, SeqsOf, InSeqs, OutSeqs
  <2>3. QED BY <2>1, <2>2
<1>11. CASE PollReaps
  <2>0. container' \in BOOLEAN /\ started' \in BOOLEAN
    BY <1>11, Zenon DEF PollReaps, TypeOK
  <2>1. TypeOK'
    <3>1. /\ cpc' \in {"off", "boot", "resume", "tick", "visit", "respond"}
          /\ handled' \subseteq Seqs
          /\ inbox' \subseteq Seqs
      BY <1>11 DEF PollReaps, StopContainer, TypeOK
    <3>2. faults' \in Nat
      BY <1>11 DEF PollReaps, Fault, TypeOK
    <3>3. QED BY <1>11, <2>0, <3>1, <3>2 DEF PollReaps, TypeOK, Seqs
  <2>2. DeliveryInv'
    BY <1>11 DEF PollReaps, Fault, StopContainer, DeliveryInv, SeqsOf, InSeqs, OutSeqs
  <2>3. QED BY <2>1, <2>2
<1>12. CASE MarkFails
  <2>1. TypeOK'
    BY <1>12 DEF MarkFails, Fault, TypeOK
  <2>2. DeliveryInv'
    BY <1>12 DEF MarkFails, Fault, DeliveryInv, SeqsOf, InSeqs, OutSeqs
  <2>3. QED BY <2>1, <2>2
<1>13. CASE PollAgain
  <2>1. TypeOK'
    BY <1>13 DEF PollAgain, TypeOK
  <2>2. DeliveryInv'
    BY <1>13 DEF PollAgain, DeliveryInv, SeqsOf, InSeqs, OutSeqs
  <2>3. QED BY <2>1, <2>2
<1>14. CASE Timeout
  <2>1. TypeOK'
    BY <1>14 DEF Timeout, TypeOK
  <2>2. DeliveryInv'
    BY <1>14 DEF Timeout, DeliveryInv, SeqsOf, InSeqs, OutSeqs
  <2>3. QED BY <2>1, <2>2
<1>15. CASE Shutdown
  <2>0. container' \in BOOLEAN /\ started' \in BOOLEAN
    BY <1>15, Zenon DEF Shutdown, ForgetHost, TypeOK
  <2>1. TypeOK'
    <3>1. /\ cpc' \in {"off", "boot", "resume", "tick", "visit", "respond"}
          /\ handled' \subseteq Seqs
          /\ inbox' \subseteq Seqs
      BY <1>15 DEF Shutdown, StopContainer, TypeOK
    <3>2. faults' \in Nat
      BY <1>15 DEF Shutdown, Fault, TypeOK
    <3>3. QED BY <1>15, <2>0, <3>1, <3>2 DEF Shutdown, ForgetHost, TypeOK, Seqs
  <2>2. DeliveryInv'
    BY <1>15 DEF Shutdown, Fault, ForgetHost, StopContainer, DeliveryInv, SeqsOf, InSeqs, OutSeqs
  <2>3. QED BY <2>1, <2>2
<1>16. CASE HostCrash
  <2>0. container' \in BOOLEAN /\ started' \in BOOLEAN
    BY <1>16, Zenon DEF HostCrash, ForgetHost, TypeOK
  <2>1. TypeOK'
    BY <1>16, <2>0 DEF HostCrash, Fault, ForgetHost, TypeOK, Seqs
  <2>2. DeliveryInv'
    BY <1>16 DEF HostCrash, Fault, ForgetHost, DeliveryInv, SeqsOf, InSeqs, OutSeqs
  <2>3. QED BY <2>1, <2>2
<1>17. CASE RunnerStart
  <2>1. TypeOK'
    BY <1>17 DEF RunnerStart, TypeOK
  <2>2. DeliveryInv'
    BY <1>17 DEF RunnerStart, DeliveryInv, SeqsOf, InSeqs, OutSeqs
  <2>3. QED BY <2>1, <2>2
<1>18. CASE ResumeHandled
  <2>1. TypeOK'
    BY <1>18 DEF ResumeHandled, Fault, TypeOK
  <2>2. DeliveryInv'
    BY <1>18 DEF ResumeHandled, Fault, DeliveryInv, SeqsOf, InSeqs, OutSeqs
  <2>3. QED BY <2>1, <2>2
<1>19. CASE Tick
  <2>1. TypeOK'
    BY <1>19 DEF Tick, Fault, InSeqs, TypeOK, InRows
  <2>2. DeliveryInv'
    BY <1>19 DEF Tick, Fault, DeliveryInv, SeqsOf, InSeqs, OutSeqs
  <2>3. QED BY <2>1, <2>2
<1>20. CASE SkipMeta
  <2>1. TypeOK'
    BY <1>20 DEF SkipMeta, TypeOK
  <2>2. DeliveryInv'
    BY <1>20 DEF SkipMeta, DeliveryInv, SeqsOf, InSeqs, OutSeqs
  <2>3. QED BY <2>1, <2>2
<1>21. CASE StartTurn
  <2>1. TypeOK'
    BY <1>21 DEF StartTurn, TypeOK
  <2>2. DeliveryInv'
    BY <1>21 DEF StartTurn, DeliveryInv, SeqsOf, InSeqs, OutSeqs
  <2>3. QED BY <2>1, <2>2
<1>22. CASE EndOfTick
  <2>1. TypeOK'
    BY <1>22 DEF EndOfTick, TypeOK
  <2>2. DeliveryInv'
    BY <1>22 DEF EndOfTick, DeliveryInv, SeqsOf, InSeqs, OutSeqs
  <2>3. QED BY <2>1, <2>2
<1>23. CASE EmitFails
  <2>1. TypeOK'
    BY <1>23 DEF EmitFails, Fault, TypeOK
  <2>2. DeliveryInv'
    BY <1>23 DEF EmitFails, Fault, DeliveryInv, SeqsOf, InSeqs, OutSeqs
  <2>3. QED BY <2>1, <2>2
<1>24. CASE ContainerCrash
  <2>1. TypeOK'
    BY <1>24 DEF ContainerCrash, Fault, StopContainer, TypeOK
  <2>2. DeliveryInv'
    BY <1>24 DEF ContainerCrash, Fault, StopContainer, DeliveryInv, SeqsOf, InSeqs, OutSeqs
  <2>3. QED BY <2>1, <2>2
<1>25. CASE HeartbeatExpires
  <2>1. TypeOK'
    BY <1>25 DEF HeartbeatExpires, TypeOK
  <2>2. DeliveryInv'
    BY <1>25 DEF HeartbeatExpires, DeliveryInv, SeqsOf, InSeqs, OutSeqs
  <2>3. QED BY <2>1, <2>2
<1>26. CASE HeartbeatLags
  <2>1. TypeOK'
    BY <1>26 DEF HeartbeatLags, Fault, TypeOK
  <2>2. DeliveryInv'
    BY <1>26 DEF HeartbeatLags, Fault, DeliveryInv, SeqsOf, InSeqs, OutSeqs
  <2>3. QED BY <2>1, <2>2
<1>29. ASSUME NEW k \in Keys, Withdraw(k) PROVE TypeOK' /\ DeliveryInv'
  BY <1>29 DEF Withdraw, TypeOK, DeliveryInv, SeqsOf, InSeqs, OutSeqs
<1>27. CASE UNCHANGED vars
  BY <1>27 DEF vars, TypeOK, DeliveryInv, SeqsOf, InSeqs, OutSeqs
<1>28. QED
  BY <1>1, <1>2, <1>3, <1>4, <1>5, <1>6, <1>7, <1>8, <1>9, <1>10, <1>11, <1>12, <1>13, <1>14, <1>15, <1>16, <1>17, <1>18, <1>19, <1>20, <1>21, <1>22, <1>23, <1>24, <1>25, <1>26, <1>27, <1>29 DEF Next, HostStep, RunnerStep

(* The variables of a session keep their types and the two tables their    *)
(* parities, whatever the number of keys, rows, turns and disturbances.    *)
THEOREM TypeCorrect == Spec => []TypeOK
<1>1. Init => TypeOK /\ DeliveryInv
  BY DeliveryInit
<1>2. TypeOK /\ DeliveryInv /\ [Next]_vars => (TypeOK /\ DeliveryInv)'
  BY DeliveryStep
<1>3. QED BY <1>1, <1>2, PTL DEF Spec

(* No reply is handed to a caller twice, across any number of host         *)
(* crashes, restarts, failed marks and respawned containers.               *)
THEOREM AtMostOnceDelivery == Spec => []NoRedelivery
<1>1. Init => TypeOK /\ DeliveryInv
  BY DeliveryInit
<1>2. TypeOK /\ DeliveryInv /\ [Next]_vars => (TypeOK /\ DeliveryInv)'
  BY DeliveryStep
<1>3. TypeOK /\ DeliveryInv => NoRedelivery
  <2> SUFFICES ASSUME TypeOK, DeliveryInv, NEW o \in new \cup mine, o.seq \in handed
               PROVE  FALSE
    BY DEF NoRedelivery, SeqsOf
  <2>1. CASE o \in mine
    BY <2>1 DEF DeliveryInv, SeqsOf
  <2>2. CASE o \in new
    BY <2>2 DEF DeliveryInv, TypeOK, OutRows, Seqs
  <2>3. QED BY <2>1, <2>2
<1>4. QED BY <1>1, <1>2, <1>3, PTL DEF Spec

(***************************************************************************)
(* No reply is overtaken by the watermark.                                 *)
(***************************************************************************)
LEMMA PrefixStep ==
    ASSUME TypeOK, DeliveryInv, PrefixInv, [Next]_vars
    PROVE  PrefixInv'
<1> USE DEF inboundDb, outboundDb, hostVars, shimVars, history
<1>1. CASE PollReads
  <2>1. /\ started /\ last_delivered_seq \in delivered \cup {0}
        /\ \A o \in messages_out : o.seq \in Nat /\ o.seq # 0
    BY <1>1 DEF PollReads, DeliveryInv, TypeOK, OutRows, Seqs
  <2>2. \A o \in messages_out : o.seq =< last_delivered_seq => o.seq \in delivered
    BY <2>1 DEF PrefixInv
  <2>3. new' = Unseen \/ new' = {}
    BY <1>1 DEF PollReads
  <2>4. messages_out' = messages_out /\ delivered' = delivered
    BY <1>1 DEF PollReads
  <2>5. \A o \in messages_out, p \in new' :
           o.seq < p.seq => o.seq \in delivered \/ o \in new'
    BY <2>1, <2>2, <2>3 DEF Unseen, TypeOK, Seqs
  <2>6. QED BY <2>4, <2>5 DEF PrefixInv
<1>2. CASE MarkDelivered
  <2>1. PICK o \in new : /\ NextToMark(o)
                         /\ delivered' = delivered \cup {o.seq}
                         /\ new' = new \ {o}
    BY <1>2 DEF MarkDelivered
  <2>2. /\ hpc = "mark" /\ messages_out' = messages_out
        /\ o \in messages_out /\ \A q \in messages_out : q.seq \in Nat
        /\ \A q \in messages_out : q.seq = o.seq => q = o
    BY <1>2 DEF MarkDelivered, DeliveryInv, TypeOK, OutRows, Seqs
  <2>3. \A q \in messages_out : q.seq < o.seq => q.seq \in delivered
    BY <2>1, <2>2 DEF PrefixInv, NextToMark
  <2>4. \A q \in messages_out, d \in delivered' : q.seq =< d => q.seq \in delivered'
    BY <2>1, <2>2, <2>3 DEF PrefixInv
  <2>5. \A q \in messages_out, p \in new' : q.seq < p.seq => q.seq \in delivered' \/ q \in new'
    BY <2>1, <2>2 DEF PrefixInv
  <2>6. QED BY <2>2, <2>4, <2>5 DEF PrefixInv
<1>3. ASSUME NEW n \in RowCounts, EmitBatch(n)
      PROVE  PrefixInv'
  <2>1. PICK s \in inbox : messages_out' = messages_out \cup Answer(s, n)
    BY <1>3 DEF EmitBatch
  <2>2. s \in Nat /\ n \in Nat \ {0} /\ HasMax(OutSeqs)
    BY ConstantsAssumption DEF TypeOK, DeliveryInv, Seqs
  <2>3. /\ Answer(s, n) \subseteq OutRows
        /\ \A o \in Answer(s, n) : \A p \in messages_out : p.seq < o.seq
    BY <2>2, AnswerRows
  <2>4. /\ delivered' = delivered /\ new' = new /\ hpc' = hpc
        /\ \A d \in delivered : \E p \in messages_out : p.seq = d
        /\ new \subseteq messages_out
        /\ \A o \in messages_out \cup Answer(s, n) : o.seq \in Nat
    BY <1>3, <2>3 DEF EmitBatch, DeliveryInv, OutSeqs, TypeOK, OutRows, Seqs
  <2>5. \A o \in messages_out', d \in delivered' : o.seq =< d => o.seq \in delivered'
    BY <2>1, <2>3, <2>4 DEF PrefixInv
  <2>6. hpc' = "mark" => \A o \in messages_out', p \in new' :
           o.seq < p.seq => o.seq \in delivered' \/ o \in new'
    BY <2>1, <2>3, <2>4 DEF PrefixInv
  <2>7. QED BY <2>5, <2>6 DEF PrefixInv
<1>4. ASSUME NEW k \in Keys \cup {NoKey}, BeginTurn(k)
      PROVE  PrefixInv'
  BY <1>4 DEF BeginTurn, PrefixInv
<1>5. ASSUME NEW k \in MetaKeys, UpsertInboundMeta(k)
      PROVE  PrefixInv'
  BY <1>5 DEF UpsertInboundMeta, PrefixInv
<1>6. CASE EnqueueFails
  BY <1>6 DEF EnqueueFails, PrefixInv
<1>7. CASE ReuseContainer
  BY <1>7 DEF ReuseContainer, PrefixInv
<1>8. CASE SpawnContainer
  BY <1>8 DEF SpawnContainer, PrefixInv
<1>9. CASE SpawnFails
  BY <1>9 DEF SpawnFails, PrefixInv
<1>10. CASE PollReaps
  BY <1>10 DEF PollReaps, PrefixInv
<1>11. CASE MarkFails
  BY <1>11 DEF MarkFails, PrefixInv
<1>12. CASE ReturnReplies
  BY <1>12 DEF ReturnReplies, PrefixInv
<1>13. CASE PollAgain
  BY <1>13 DEF PollAgain, PrefixInv
<1>14. CASE Timeout
  BY <1>14 DEF Timeout, PrefixInv
<1>15. CASE Shutdown
  BY <1>15 DEF Shutdown, ForgetHost, PrefixInv
<1>16. CASE HostCrash
  BY <1>16 DEF HostCrash, ForgetHost, PrefixInv
<1>17. CASE RunnerStart
  BY <1>17 DEF RunnerStart, PrefixInv
<1>18. CASE ResumeHandled
  BY <1>18 DEF ResumeHandled, PrefixInv
<1>19. CASE Tick
  BY <1>19 DEF Tick, PrefixInv
<1>20. CASE SkipMeta
  BY <1>20 DEF SkipMeta, PrefixInv
<1>21. CASE StartTurn
  BY <1>21 DEF StartTurn, PrefixInv
<1>22. CASE EndOfTick
  BY <1>22 DEF EndOfTick, PrefixInv
<1>23. CASE EmitFails
  BY <1>23 DEF EmitFails, PrefixInv
<1>24. CASE ContainerCrash
  BY <1>24 DEF ContainerCrash, PrefixInv
<1>25. CASE HeartbeatExpires
  BY <1>25 DEF HeartbeatExpires, PrefixInv
<1>26. CASE HeartbeatLags
  BY <1>26 DEF HeartbeatLags, PrefixInv
<1>29. ASSUME NEW k \in Keys, Withdraw(k) PROVE PrefixInv'
  BY <1>29 DEF Withdraw, PrefixInv
<1>27. CASE UNCHANGED vars
  BY <1>27 DEF vars, PrefixInv
<1>28. QED
  BY <1>1, <1>2, <1>3, <1>4, <1>5, <1>6, <1>7, <1>8, <1>9, <1>10, <1>11, <1>12, <1>13, <1>14, <1>15, <1>16, <1>17, <1>18, <1>19, <1>20, <1>21, <1>22, <1>23, <1>24, <1>25, <1>26, <1>27, <1>29 DEF Next, HostStep, RunnerStep

(* The watermark overtakes no reply: a committed row is marked delivered   *)
(* itself or visible to the next poll.                                     *)
THEOREM NoReplyOvertaken == Spec => []NoReplySkipped
<1>1. Init => TypeOK /\ DeliveryInv /\ PrefixInv
  BY DeliveryInit DEF Init, PrefixInv
<1>2. TypeOK /\ DeliveryInv /\ PrefixInv /\ [Next]_vars => (TypeOK /\ DeliveryInv /\ PrefixInv)'
  BY DeliveryStep, PrefixStep
<1>3. TypeOK /\ DeliveryInv /\ PrefixInv => NoReplySkipped
  <2> SUFFICES ASSUME TypeOK, DeliveryInv, PrefixInv,
                      NEW o \in messages_out, o.seq =< MaxDeliveredSeq
               PROVE  o.seq \in delivered
    BY DEF NoReplySkipped
  <2>1. MaxDeliveredSeq \in delivered \cup {0}
    BY WatermarkCovers
  <2>2. o.seq \in Nat /\ o.seq # 0
    BY DEF TypeOK, OutRows, Seqs
  <2>3. QED BY <2>1, <2>2 DEF PrefixInv
<1>4. QED BY <1>1, <1>2, <1>3, PTL DEF Spec

(***************************************************************************)
(* Every inbound is answered by one batch, acked with it.  Without the     *)
(* resume error, which empties the handled set of a new container, the     *)
(* handled set and the ack table agree.                                    *)
(***************************************************************************)
SingleAnswer == AckIffAnswered /\ AnsweredOnce /\ AnswerInv

LEMMA AnswerInit == Init => SingleAnswer
BY DEF Init, SingleAnswer, AckIffAnswered, AnsweredOnce, AnswerInv, DedupMarkersAgree,
       InSeqs, TurnSeqs

(* A row put behind messages_in joins no acked or handled seq. *)
LEMMA AnswerEnqueue ==
    ASSUME TypeOK, DeliveryInv, SingleAnswer, UNCHANGED <<outboundDb, shimVars>>,
           NEW k \in Keys \cup MetaKeys \cup {NoKey}, NEW b \in BOOLEAN,
           messages_in' = messages_in \cup {[seq |-> NextSeq(InSeqs, 0), key |-> k, meta |-> b]}
    PROVE  SingleAnswer'
<1> DEFINE m == NextSeq(InSeqs, 0)
<1>1. m \notin InSeqs /\ InSeqs' = InSeqs \cup {m}
  BY InboundGrows
<1>2. TurnSeqs' = TurnSeqs \/ TurnSeqs' = TurnSeqs \cup {m}
  <2> DEFINE row == [seq |-> m, key |-> k, meta |-> b]
  <2>1. row.seq = m /\ messages_in' = messages_in \cup {row}
    OBVIOUS
  <2> HIDE DEF row, m
  <2>2. CASE row.meta
    BY <2>1, <2>2 DEF TurnSeqs
  <2>3. CASE ~row.meta
    BY <2>1, <2>3 DEF TurnSeqs
  <2>4. QED BY <2>2, <2>3
<1> HIDE DEF m
<1>3. UNCHANGED <<messages_out, processing_ack, cpc, handled, inbox>>
  BY DEF outboundDb, shimVars
<1>4. (handled \cap TurnSeqs)' = handled \cap TurnSeqs
  BY <1>1, <1>2, <1>3 DEF SingleAnswer, AnswerInv
<1>5. AnswerInv'
  BY <1>1, <1>2, <1>3, <1>4 DEF SingleAnswer, AnswerInv, DedupMarkersAgree, Least
<1>6. (AckIffAnswered /\ AnsweredOnce)'
  BY <1>3 DEF SingleAnswer, AckIffAnswered, AnsweredOnce
<1>7. QED BY <1>5, <1>6 DEF SingleAnswer

LEMMA AnswerStep ==
    ASSUME "resume_error" \notin Faults, TypeOK, DeliveryInv, SingleAnswer, [Next]_vars
    PROVE  SingleAnswer'
<1> USE DEF inboundDb, outboundDb, hostVars, shimVars, history
<1>1. ASSUME NEW k \in Keys \cup {NoKey}, BeginTurn(k)
      PROVE  SingleAnswer'
  <2>1. CASE messages_in' = messages_in
    BY <1>1, <2>1 DEF BeginTurn, SingleAnswer, AckIffAnswered, AnsweredOnce, AnswerInv,
                      DedupMarkersAgree, InSeqs, TurnSeqs
  <2>2. CASE messages_in' = messages_in \cup
                {[seq |-> NextSeq(InSeqs, 0), key |-> k, meta |-> FALSE]}
    BY <1>1, <2>2, AnswerEnqueue DEF BeginTurn
  <2>3. QED BY <1>1, <2>1, <2>2 DEF BeginTurn, EnqueueInboundKeyed
<1>2. ASSUME NEW k \in MetaKeys, UpsertInboundMeta(k)
      PROVE  SingleAnswer'
  BY <1>2, AnswerEnqueue DEF UpsertInboundMeta
<1>3. CASE ResumeHandled
  <2>1. handled' = processing_ack /\ processing_ack \subseteq TurnSeqs
    BY <1>3 DEF ResumeHandled, Fault, SingleAnswer, AnswerInv
  <2>2. TurnSeqs \subseteq InSeqs /\ TurnSeqs' = TurnSeqs /\ InSeqs' = InSeqs
    BY <1>3 DEF ResumeHandled, TurnSeqs, InSeqs
  <2>3. cpc = "resume" /\ inbox' = inbox /\ inbox = {} /\ cpc' = "tick"
    BY <1>3 DEF ResumeHandled, SingleAnswer, AnswerInv
  <2>4. AnswerInv'
    BY <1>3, <2>1, <2>2, <2>3 DEF ResumeHandled, AnswerInv, DedupMarkersAgree
  <2>5. QED BY <1>3, <2>4 DEF ResumeHandled, SingleAnswer, AckIffAnswered, AnsweredOnce
<1>4. CASE Tick
  <2>1. inbox' = InSeqs \ handled \/ inbox' = {}
    BY <1>4 DEF Tick
  <2>2. AnswerInv'
    BY <1>4, <2>1 DEF Tick, SingleAnswer, AnswerInv, DedupMarkersAgree, InSeqs, TurnSeqs
  <2>3. QED BY <1>4, <2>2 DEF Tick, SingleAnswer, AckIffAnswered, AnsweredOnce
<1>5. CASE SkipMeta
  <2>1. PICK s \in inbox : /\ s \notin TurnSeqs
                           /\ handled' = handled \cup {s}
                           /\ inbox' = inbox \ {s}
    BY <1>5 DEF SkipMeta
  <2>2. InSeqs' = InSeqs /\ TurnSeqs' = TurnSeqs /\ processing_ack' = processing_ack
        /\ cpc = "visit" /\ cpc' = "visit"
    BY <1>5 DEF SkipMeta, InSeqs, TurnSeqs
  <2>3. AnswerInv'
    BY <2>1, <2>2 DEF SingleAnswer, AnswerInv, DedupMarkersAgree
  <2>4. QED BY <1>5, <2>3 DEF SkipMeta, SingleAnswer, AckIffAnswered, AnsweredOnce
<1>6. CASE StartTurn
  <2>1. PICK s \in inbox : Least(s, inbox) /\ s \in TurnSeqs
    BY <1>6 DEF StartTurn
  <2>2. \A t \in inbox : Least(t, inbox) => t = s
    BY <2>1 DEF Least, TypeOK, Seqs
  <2>3. InSeqs' = InSeqs /\ TurnSeqs' = TurnSeqs
    BY <1>6 DEF StartTurn, InSeqs, TurnSeqs
  <2>4. AnswerInv'
    BY <1>6, <2>1, <2>2, <2>3 DEF StartTurn, SingleAnswer, AnswerInv, DedupMarkersAgree
  <2>5. QED BY <1>6, <2>4 DEF StartTurn, SingleAnswer, AckIffAnswered, AnsweredOnce
<1>7. ASSUME NEW n \in RowCounts, EmitBatch(n)
      PROVE  SingleAnswer'
  <2>1. PICK s \in inbox :
          /\ Least(s, inbox)
          /\ messages_out' = messages_out \cup Answer(s, n)
          /\ processing_ack' = processing_ack \cup {s}
          /\ handled' = handled \cup {s}
          /\ inbox' = inbox \ {s}
    BY <1>7 DEF EmitBatch
  <2>2. s \in Nat /\ n \in Nat \ {0} /\ HasMax(OutSeqs)
    BY ConstantsAssumption DEF TypeOK, DeliveryInv, Seqs
  <2>3. /\ \A o \in Answer(s, n) : o.in_seq = s
        /\ \A o, p \in Answer(s, n) : o.batch = p.batch
        /\ \E o \in Answer(s, n) : TRUE
    BY <2>2, AnswerRows
  <2>4. /\ s \in TurnSeqs /\ s \notin handled /\ s \in InSeqs
        /\ s \notin processing_ack
    BY <1>7, <2>1 DEF EmitBatch, SingleAnswer, AnswerInv, DedupMarkersAgree
  <2>5. InSeqs' = InSeqs /\ TurnSeqs' = TurnSeqs /\ cpc = "respond" /\ cpc' = "visit"
    BY <1>7 DEF EmitBatch, InSeqs, TurnSeqs
  <2>6. \A o \in messages_out : o.in_seq # s
    BY <2>4 DEF SingleAnswer, AckIffAnswered
  <2>7. AckIffAnswered'
    BY <2>1, <2>3 DEF SingleAnswer, AckIffAnswered
  <2>8. AnsweredOnce'
    BY <2>1, <2>3, <2>6 DEF SingleAnswer, AnsweredOnce
  <2>9. AnswerInv'
    BY <2>1, <2>4, <2>5 DEF SingleAnswer, AnswerInv, DedupMarkersAgree
  <2>10. QED BY <2>7, <2>8, <2>9 DEF SingleAnswer
<1>8. CASE EnqueueFails
  BY <1>8 DEF EnqueueFails, SingleAnswer, AckIffAnswered, AnsweredOnce, AnswerInv,
             DedupMarkersAgree, Least, InSeqs, TurnSeqs
<1>9. CASE ReuseContainer
  BY <1>9 DEF ReuseContainer, SingleAnswer, AckIffAnswered, AnsweredOnce, AnswerInv,
             DedupMarkersAgree, Least, InSeqs, TurnSeqs
<1>10. CASE SpawnContainer
  BY <1>10 DEF SpawnContainer, SingleAnswer, AckIffAnswered, AnsweredOnce, AnswerInv,
             DedupMarkersAgree, Least, InSeqs, TurnSeqs
<1>11. CASE SpawnFails
  BY <1>11 DEF SpawnFails, SingleAnswer, AckIffAnswered, AnsweredOnce, AnswerInv,
             DedupMarkersAgree, Least, InSeqs, TurnSeqs
<1>12. CASE PollReaps
  BY <1>12 DEF PollReaps, StopContainer, SingleAnswer, AckIffAnswered, AnsweredOnce, AnswerInv,
             DedupMarkersAgree, Least, InSeqs, TurnSeqs
<1>13. CASE PollReads
  BY <1>13 DEF PollReads, SingleAnswer, AckIffAnswered, AnsweredOnce, AnswerInv,
             DedupMarkersAgree, Least, InSeqs, TurnSeqs
<1>14. CASE MarkDelivered
  BY <1>14 DEF MarkDelivered, SingleAnswer, AckIffAnswered, AnsweredOnce, AnswerInv,
             DedupMarkersAgree, Least, InSeqs, TurnSeqs
<1>15. CASE MarkFails
  BY <1>15 DEF MarkFails, SingleAnswer, AckIffAnswered, AnsweredOnce, AnswerInv,
             DedupMarkersAgree, Least, InSeqs, TurnSeqs
<1>16. CASE ReturnReplies
  BY <1>16 DEF ReturnReplies, SingleAnswer, AckIffAnswered, AnsweredOnce, AnswerInv,
             DedupMarkersAgree, Least, InSeqs, TurnSeqs
<1>17. CASE PollAgain
  BY <1>17 DEF PollAgain, SingleAnswer, AckIffAnswered, AnsweredOnce, AnswerInv,
             DedupMarkersAgree, Least, InSeqs, TurnSeqs
<1>18. CASE Timeout
  BY <1>18 DEF Timeout, SingleAnswer, AckIffAnswered, AnsweredOnce, AnswerInv,
             DedupMarkersAgree, Least, InSeqs, TurnSeqs
<1>19. CASE Shutdown
  BY <1>19 DEF Shutdown, StopContainer, SingleAnswer, AckIffAnswered, AnsweredOnce, AnswerInv,
             DedupMarkersAgree, Least, InSeqs, TurnSeqs
<1>20. CASE HostCrash
  BY <1>20 DEF HostCrash, SingleAnswer, AckIffAnswered, AnsweredOnce, AnswerInv,
             DedupMarkersAgree, Least, InSeqs, TurnSeqs
<1>21. CASE RunnerStart
  BY <1>21 DEF RunnerStart, SingleAnswer, AckIffAnswered, AnsweredOnce, AnswerInv,
             DedupMarkersAgree, Least, InSeqs, TurnSeqs
<1>22. CASE EndOfTick
  BY <1>22 DEF EndOfTick, SingleAnswer, AckIffAnswered, AnsweredOnce, AnswerInv,
             DedupMarkersAgree, Least, InSeqs, TurnSeqs
<1>23. CASE EmitFails
  BY <1>23 DEF EmitFails, SingleAnswer, AckIffAnswered, AnsweredOnce, AnswerInv,
             DedupMarkersAgree, Least, InSeqs, TurnSeqs
<1>24. CASE ContainerCrash
  BY <1>24 DEF ContainerCrash, StopContainer, SingleAnswer, AckIffAnswered, AnsweredOnce, AnswerInv,
             DedupMarkersAgree, Least, InSeqs, TurnSeqs
<1>25. CASE HeartbeatExpires
  BY <1>25 DEF HeartbeatExpires, SingleAnswer, AckIffAnswered, AnsweredOnce, AnswerInv,
             DedupMarkersAgree, Least, InSeqs, TurnSeqs
<1>26. CASE HeartbeatLags
  BY <1>26 DEF HeartbeatLags, SingleAnswer, AckIffAnswered, AnsweredOnce, AnswerInv,
             DedupMarkersAgree, Least, InSeqs, TurnSeqs
<1>29. ASSUME NEW k \in Keys, Withdraw(k) PROVE SingleAnswer'
  BY <1>29 DEF Withdraw, SingleAnswer, AckIffAnswered, AnsweredOnce, AnswerInv,
             DedupMarkersAgree, Least, InSeqs, TurnSeqs
<1>27. CASE UNCHANGED vars
  BY <1>27 DEF vars, SingleAnswer, AckIffAnswered, AnsweredOnce, AnswerInv,
             DedupMarkersAgree, Least, InSeqs, TurnSeqs
<1>28. QED
  BY <1>1, <1>2, <1>3, <1>4, <1>5, <1>6, <1>7, <1>8, <1>9, <1>10, <1>11, <1>12, <1>13, <1>14, <1>15, <1>16, <1>17, <1>18, <1>19, <1>20, <1>21, <1>22, <1>23, <1>24, <1>25, <1>26, <1>27, <1>29 DEF Next, HostStep, RunnerStep

(* While containers can read their ack table on start, an inbound is acked *)
(* exactly when it is answered and answered by a single batch, however     *)
(* many containers die and are respawned.                                  *)
THEOREM SingleAnswerPerInbound ==
    ASSUME "resume_error" \notin Faults
    PROVE  Spec => [](AckIffAnswered /\ AnsweredOnce /\ DedupMarkersAgree)
<1>1. Init => TypeOK /\ DeliveryInv /\ SingleAnswer
  BY DeliveryInit, AnswerInit
<1>2. TypeOK /\ DeliveryInv /\ SingleAnswer /\ [Next]_vars
         => (TypeOK /\ DeliveryInv /\ SingleAnswer)'
  BY DeliveryStep, AnswerStep
<1>3. SingleAnswer => AckIffAnswered /\ AnsweredOnce /\ DedupMarkersAgree
  BY DEF SingleAnswer, AnswerInv
<1>4. QED BY <1>1, <1>2, <1>3, PTL DEF Spec

(***************************************************************************)
(* The session implements the mailbox.                                     *)
(***************************************************************************)
FullInv == TypeOK /\ DeliveryInv /\ PrefixInv /\ SingleAnswer

(* Every reply answers a question that was asked. *)
LEMMA RepliesAnswerTurns ==
    ASSUME FullInv, NEW o \in messages_out
    PROVE  o.in_seq \in TurnSeqs
BY DEF FullInv, SingleAnswer, AckIffAnswered, AnswerInv

LEMMA MailboxStep ==
    ASSUME FullInv, [Next]_vars
    PROVE  [Mailbox!Next]_(Mailbox!vars)
<1> USE DEF inboundDb, outboundDb, hostVars, shimVars, history
<1>1. ASSUME NEW k \in Keys \cup {NoKey}, BeginTurn(k)
      PROVE  [Mailbox!Next]_(Mailbox!vars)
  <2>1. /\ mine = {} /\ SeqsOf(mine)' = SeqsOf(mine)
        /\ UNCHANGED <<messages_out, delivered, handed>>
    BY <1>1 DEF BeginTurn, FullInv, DeliveryInv, SeqsOf
  <2>2. CASE messages_in' = messages_in
    BY <2>1, <2>2 DEF Mailbox!vars, TurnSeqs
  <2>3. CASE messages_in' = messages_in \cup
                {[seq |-> NextSeq(InSeqs, 0), key |-> k, meta |-> FALSE]}
    <3> DEFINE m == NextSeq(InSeqs, 0)
               row == [seq |-> m, key |-> k, meta |-> FALSE]
    <3>1. m \notin InSeqs
      BY <2>3, InboundGrows DEF FullInv
    <3>2. m \notin TurnSeqs
      BY <3>1 DEF InSeqs, TurnSeqs
    <3>3. row.seq = m /\ ~row.meta /\ messages_in' = messages_in \cup {row}
      BY <2>3
    <3> HIDE DEF row, m
    <3>4. TurnSeqs' = TurnSeqs \cup {m}
      BY <3>3 DEF TurnSeqs
    <3>5. Mailbox!Ask
      BY <2>1, <3>2, <3>4 DEF Mailbox!Ask
    <3>6. QED BY <3>5 DEF Mailbox!Next
  <2>4. QED BY <1>1, <2>2, <2>3 DEF BeginTurn, EnqueueInboundKeyed
<1>2. ASSUME NEW k \in MetaKeys, UpsertInboundMeta(k)
      PROVE  [Mailbox!Next]_(Mailbox!vars)
  <2> DEFINE row == [seq |-> NextSeq(InSeqs, 0), key |-> k, meta |-> TRUE]
  <2>1. row.meta /\ messages_in' = messages_in \cup {row}
    BY <1>2 DEF UpsertInboundMeta
  <2> HIDE DEF row
  <2>2. TurnSeqs' = TurnSeqs
    BY <2>1 DEF TurnSeqs
  <2>3. QED BY <1>2, <2>2 DEF UpsertInboundMeta, Mailbox!vars, SeqsOf
<1>3. CASE MarkDelivered
  <2>1. PICK o \in new :
          /\ NextToMark(o)
          /\ delivered' = delivered \cup {o.seq}
          /\ mine' = IF o.in_seq = in_seq THEN mine \cup {o} ELSE mine
    BY <1>3 DEF MarkDelivered
  <2>2. /\ hpc = "mark" /\ started /\ o \in messages_out
        /\ \A p \in messages_out : p.seq \in Nat
        /\ o.seq > last_delivered_seq /\ last_delivered_seq \in Nat
        /\ \A d \in delivered : d \in Nat /\ d =< last_delivered_seq
        /\ \A p \in messages_out : p.seq = o.seq => p = o
    BY <1>3 DEF MarkDelivered, FullInv, TypeOK, DeliveryInv, OutRows, Seqs
  <2>3. o.seq \notin delivered
    BY <2>2
  <2>4. \A p \in messages_out : p.seq < o.seq => p.seq \in delivered
    BY <2>1, <2>2 DEF FullInv, PrefixInv, NextToMark
  <2>5. SeqsOf(mine)' \in {SeqsOf(mine), SeqsOf(mine) \cup {o.seq}}
    BY <2>1 DEF SeqsOf
  <2>6. \E s \in TurnSeqs : \A q \in SeqsOf(mine)' :
           \E p \in messages_out : p.seq = q /\ p.in_seq = s
    <3>1. mine' \subseteq messages_out /\ \A p \in mine' : p.in_seq = in_seq
      BY <2>1, <2>2 DEF FullInv, DeliveryInv
    <3>2. CASE mine' = {}
      BY <2>2, <3>2, RepliesAnswerTurns DEF SeqsOf
    <3>3. CASE mine' # {}
      <4>1. PICK p \in mine' : p.in_seq = in_seq
        BY <3>1, <3>3
      <4>2. in_seq \in TurnSeqs
        BY <3>1, <4>1, RepliesAnswerTurns
      <4>3. QED BY <3>1, <4>2 DEF SeqsOf
    <3>4. QED BY <3>2, <3>3
  <2>7. UNCHANGED <<messages_in, messages_out, handed>>
    BY <1>3 DEF MarkDelivered
  <2>8. TurnSeqs' = TurnSeqs
    BY <2>7 DEF TurnSeqs
  <2>9. Mailbox!Consume
    BY <2>1, <2>2, <2>3, <2>4, <2>5, <2>6, <2>7, <2>8 DEF Mailbox!Consume
  <2>10. QED BY <2>9 DEF Mailbox!Next
<1>4. CASE ReturnReplies
  <2>1. SeqsOf(mine) # {} /\ SeqsOf(mine)' = {} /\ TurnSeqs' = TurnSeqs
    BY <1>4 DEF ReturnReplies, SeqsOf, TurnSeqs
  <2>2. SeqsOf(mine) \cap handed = {}
    BY DEF FullInv, DeliveryInv
  <2>3. Mailbox!Hand
    BY <1>4, <2>1, <2>2 DEF ReturnReplies, Mailbox!Hand
  <2>4. QED BY <2>3 DEF Mailbox!Next
<1>5. ASSUME NEW n \in RowCounts, EmitBatch(n)
      PROVE  [Mailbox!Next]_(Mailbox!vars)
  <2>1. PICK s \in inbox : Least(s, inbox) /\ messages_out' = messages_out \cup Answer(s, n)
    BY <1>5 DEF EmitBatch
  <2>2. s \in Nat /\ n \in Nat \ {0} /\ HasMax(OutSeqs)
    BY ConstantsAssumption DEF FullInv, TypeOK, DeliveryInv, Seqs
  <2>3. /\ \A o \in Answer(s, n) : o.in_seq = s
        /\ \A o \in Answer(s, n) : \A p \in messages_out : p.seq < o.seq
    BY <2>2, AnswerRows DEF FullInv
  <2>4. /\ s \in TurnSeqs /\ s \notin processing_ack
    BY <1>5, <2>1 DEF EmitBatch, FullInv, SingleAnswer, AnswerInv, DedupMarkersAgree
  <2>5. \A o \in messages_out : o.in_seq # s
    BY <2>4 DEF FullInv, SingleAnswer, AckIffAnswered
  <2>6. UNCHANGED <<messages_in, delivered, handed, mine>>
    BY <1>5 DEF EmitBatch
  <2>7. TurnSeqs' = TurnSeqs /\ SeqsOf(mine)' = SeqsOf(mine)
    BY <2>6 DEF TurnSeqs, SeqsOf
  <2>8. Mailbox!Reply
    BY <2>1, <2>3, <2>4, <2>5, <2>6, <2>7 DEF Mailbox!Reply
  <2>9. QED BY <2>8 DEF Mailbox!Next
<1>6. ASSUME UNCHANGED <<messages_in, messages_out, delivered, handed>>, mine' \in {mine, {}}
      PROVE  [Mailbox!Next]_(Mailbox!vars)
  <2>1. TurnSeqs' = TurnSeqs
    BY <1>6 DEF TurnSeqs
  <2>2. CASE mine' = mine
    BY <1>6, <2>1, <2>2 DEF Mailbox!vars, SeqsOf
  <2>3. CASE mine' = {} /\ mine # {}
    <3>1. SeqsOf(mine) # {} /\ SeqsOf(mine)' = {}
      BY <2>3 DEF SeqsOf
    <3>2. Mailbox!Lose
      BY <1>6, <2>1, <3>1 DEF Mailbox!Lose
    <3>3. QED BY <3>2 DEF Mailbox!Next
  <2>4. QED BY <1>6, <2>2, <2>3
<1>7. CASE EnqueueFails
  BY <1>6, <1>7 DEF EnqueueFails
<1>8. CASE ReuseContainer
  BY <1>6, <1>8 DEF ReuseContainer
<1>9. CASE SpawnContainer
  BY <1>6, <1>9 DEF SpawnContainer
<1>10. CASE SpawnFails
  BY <1>6, <1>10 DEF SpawnFails
<1>11. CASE PollReaps
  BY <1>6, <1>11 DEF PollReaps
<1>12. CASE PollReads
  BY <1>6, <1>12 DEF PollReads
<1>13. CASE MarkFails
  BY <1>6, <1>13 DEF MarkFails
<1>14. CASE PollAgain
  BY <1>6, <1>14 DEF PollAgain
<1>15. CASE Timeout
  BY <1>6, <1>15 DEF Timeout
<1>16. CASE Shutdown
  BY <1>6, <1>16 DEF Shutdown, ForgetHost
<1>17. CASE HostCrash
  BY <1>6, <1>17 DEF HostCrash, ForgetHost
<1>18. CASE RunnerStart
  BY <1>6, <1>18 DEF RunnerStart
<1>19. CASE ResumeHandled
  BY <1>6, <1>19 DEF ResumeHandled
<1>20. CASE Tick
  BY <1>6, <1>20 DEF Tick
<1>21. CASE SkipMeta
  BY <1>6, <1>21 DEF SkipMeta
<1>22. CASE StartTurn
  BY <1>6, <1>22 DEF StartTurn
<1>23. CASE EndOfTick
  BY <1>6, <1>23 DEF EndOfTick
<1>24. CASE EmitFails
  BY <1>6, <1>24 DEF EmitFails
<1>25. CASE ContainerCrash
  BY <1>6, <1>25 DEF ContainerCrash
<1>26. CASE HeartbeatExpires
  BY <1>6, <1>26 DEF HeartbeatExpires
<1>27. CASE HeartbeatLags
  BY <1>6, <1>27 DEF HeartbeatLags
<1>30. ASSUME NEW k \in Keys, Withdraw(k)
       PROVE  [Mailbox!Next]_(Mailbox!vars)
  BY <1>6, <1>30 DEF Withdraw
<1>28. CASE UNCHANGED vars
  BY <1>6, <1>28 DEF vars
<1>29. QED
  BY <1>1, <1>2, <1>3, <1>4, <1>5, <1>7, <1>8, <1>9, <1>10, <1>11, <1>12, <1>13, <1>14, <1>15, <1>16, <1>17, <1>18, <1>19, <1>20, <1>21, <1>22, <1>23, <1>24, <1>25, <1>26, <1>27, <1>28, <1>30 DEF Next, HostStep, RunnerStep

(* The session implements the mailbox of TurnMailbox: each question        *)
(* answered at most once, replies consumed in order, each handed to its    *)
(* own caller at most once.                                                *)
THEOREM SessionImplementsMailbox ==
    ASSUME "resume_error" \notin Faults
    PROVE  Spec => ImplementsMailbox
<1>1. Init => FullInv /\ Mailbox!Init
  <2>1. Init => Mailbox!Init
    BY DEF Init, Mailbox!Init, TurnSeqs, SeqsOf
  <2>2. Init => PrefixInv
    BY DEF Init, PrefixInv
  <2>3. QED BY <2>1, <2>2, DeliveryInit, AnswerInit DEF FullInv
<1>2. FullInv /\ [Next]_vars => FullInv'
  BY DeliveryStep, PrefixStep, AnswerStep DEF FullInv
<1>3. FullInv /\ [Next]_vars => [Mailbox!Next]_(Mailbox!vars)
  BY MailboxStep
<1>4. QED BY <1>1, <1>2, <1>3, PTL DEF Spec, ImplementsMailbox, Mailbox!Spec

(***************************************************************************)
(* One row per key: the table of inbound rows is written by two actions    *)
(* only, and both look their key up first.                                 *)
(***************************************************************************)
LEMMA FreshRow ==
    ASSUME TypeOK, DeliveryInv, OneRowPerKey,
           NEW k \in Keys \cup MetaKeys \cup {NoKey}, NEW b \in BOOLEAN,
           k = NoKey \/ \A r \in messages_in : r.key # k,
           messages_in' = messages_in \cup {[seq |-> NextSeq(InSeqs, 0), key |-> k, meta |-> b]}
    PROVE  OneRowPerKey'
<1> DEFINE row == [seq |-> NextSeq(InSeqs, 0), key |-> k, meta |-> b]
<1>1. \A r \in messages_in : r.seq # NextSeq(InSeqs, 0)
  BY InboundGrows DEF InSeqs
<1>2. row.seq = NextSeq(InSeqs, 0) /\ row.key = k /\ messages_in' = messages_in \cup {row}
  OBVIOUS
<1> HIDE DEF row
<1>3. \A r \in messages_in : r.seq # row.seq /\ (r.key = row.key => r.key = NoKey)
  BY <1>1, <1>2
<1>4. QED BY <1>2, <1>3 DEF OneRowPerKey

LEMMA OneRowStep ==
    ASSUME TypeOK, DeliveryInv, OneRowPerKey, [Next]_vars
    PROVE  OneRowPerKey'
<1>1. ASSUME NEW k \in Keys \cup {NoKey}, BeginTurn(k)
      PROVE  OneRowPerKey'
  <2>1. \/ UNCHANGED messages_in
        \/ /\ k = NoKey \/ \A r \in messages_in : r.key # k
           /\ messages_in' = messages_in \cup {[seq |-> NextSeq(InSeqs, 0), key |-> k, meta |-> FALSE]}
    BY <1>1 DEF BeginTurn, EnqueueInboundKeyed
  <2>2. CASE UNCHANGED messages_in
    BY <2>2 DEF OneRowPerKey
  <2>3. QED BY <1>1, <2>1, <2>2, FreshRow
<1>2. ASSUME NEW k \in MetaKeys, UpsertInboundMeta(k)
      PROVE  OneRowPerKey'
  <2>1. /\ \A r \in messages_in : r.key # k
        /\ messages_in' = messages_in \cup {[seq |-> NextSeq(InSeqs, 0), key |-> k, meta |-> TRUE]}
    BY <1>2 DEF UpsertInboundMeta
  <2>2. QED BY <1>2, <2>1, FreshRow
<1>3. ASSUME UNCHANGED messages_in PROVE OneRowPerKey'
  BY <1>3 DEF OneRowPerKey
<1>4. \/ \E k \in Keys \cup {NoKey} : BeginTurn(k)
      \/ \E k \in MetaKeys : UpsertInboundMeta(k)
      \/ UNCHANGED messages_in
  BY DEF Next, HostStep, RunnerStep, vars, inboundDb, EnqueueFails, ReuseContainer, SpawnContainer,
         SpawnFails, PollReaps, PollReads, MarkDelivered, MarkFails, ReturnReplies, PollAgain,
         Timeout, Shutdown, HostCrash, Withdraw, RunnerStart, ResumeHandled, Tick, SkipMeta, StartTurn,
         EndOfTick, EmitBatch, EmitFails, ContainerCrash, HeartbeatExpires, HeartbeatLags
<1>5. QED BY <1>1, <1>2, <1>3, <1>4

(* OneRowPerKey: however often the scheduler retries an occurrence and      *)
(* whatever crashes in between, enqueue_inbound_keyed and                   *)
(* upsert_inbound_meta leave at most one row for a key, and no two rows     *)
(* with one sequence number.                                                *)
THEOREM RetriesReuseTheirRow == Spec => []OneRowPerKey
<1>1. Init => TypeOK /\ DeliveryInv /\ OneRowPerKey
  BY DeliveryInit DEF Init, OneRowPerKey
<1>2. TypeOK /\ DeliveryInv /\ OneRowPerKey /\ [Next]_vars => (TypeOK /\ DeliveryInv /\ OneRowPerKey)'
  BY DeliveryStep, OneRowStep
<1>3. QED BY <1>1, <1>2, PTL DEF Spec
=============================================================================
