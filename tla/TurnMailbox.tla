---------------------------- MODULE TurnMailbox ----------------------------
(***************************************************************************)
(* What a session promises to the callers of Host::run_turn, without any   *)
(* mention of processes, files or polls: every question is answered at     *)
(* most once, answers are consumed in the order they were given, and each  *)
(* reply reaches a caller at most once and only together with replies to   *)
(* the same question.                                                      *)
(***************************************************************************)
EXTENDS Integers

VARIABLES
    asked,     \* the questions (inbound sequence numbers)
    answers,   \* the replies: records with fields seq and in_seq
    consumed,  \* seqs of the replies some turn has consumed
    taken,     \* consumed by the turn in progress, for its caller
    handed     \* handed to a caller

vars == <<asked, answers, consumed, taken, handed>>

Init == /\ asked = {} /\ answers = {}
        /\ consumed = {} /\ taken = {} /\ handed = {}

Ask ==
    /\ \E s \in asked' : s \notin asked /\ asked' = asked \cup {s}
    /\ UNCHANGED <<answers, consumed, taken, handed>>

(* All the replies to one question appear at once, behind the earlier ones. *)
Reply ==
    /\ answers \subseteq answers'
    /\ \E s \in asked :
          /\ \A o \in answers : o.in_seq # s
          /\ \A o \in answers' \ answers : o.in_seq = s
    /\ \A o \in answers : \A p \in answers' \ answers : o.seq < p.seq
    /\ UNCHANGED <<asked, consumed, taken, handed>>

(* The oldest reply not yet consumed: taken for the caller if it answers   *)
(* the caller's question, dropped if it does not.                          *)
Consume ==
    /\ \E o \in answers :
          /\ o.seq \notin consumed
          /\ \A p \in answers : p.seq < o.seq => p.seq \in consumed
          /\ consumed' = consumed \cup {o.seq}
          /\ taken' \in {taken, taken \cup {o.seq}}
    /\ \E s \in asked :
          \A q \in taken' : \E o \in answers : o.seq = q /\ o.in_seq = s
    /\ UNCHANGED <<asked, answers, handed>>

(* The turn returns: what it took was never handed out before. *)
Hand ==
    /\ taken # {}
    /\ taken \cap handed = {}
    /\ handed' = handed \cup taken
    /\ taken' = {}
    /\ UNCHANGED <<asked, answers, consumed>>

(* The turn fails half-way, or its process dies: what it took is lost. *)
Lose ==
    /\ taken # {}
    /\ taken' = {}
    /\ UNCHANGED <<asked, answers, consumed, handed>>

Next == Ask \/ Reply \/ Consume \/ Hand \/ Lose

Spec == Init /\ [][Next]_vars
=============================================================================
