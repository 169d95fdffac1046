------------------------------ MODULE JobBoard ------------------------------
(***************************************************************************)
(* What delegation promises, without statements or sessions: a job is      *)
(* posted once, no hand takes it up twice, it is answered (succeeded or    *)
(* partial) only after it was taken up, and no profile has more open jobs  *)
(* than Bound[p].  A hand that is alone moves a job from where it is, so   *)
(* it runs once and its end is final; one of several moves it from where   *)
(* it has been seen, which may be long ago.                                *)
(***************************************************************************)
EXTENDS Naturals, FiniteSets

CONSTANTS
    Jobs,       \* the jobs that can be posted
    Hands,      \* those who move them
    Profiles,   \* the profiles a job can be of
    Bound       \* Bound[p]: how many jobs of p may be open together

VARIABLE board  \* board[j]: [profile, stage, takers] of a job

Posted == {"queued", "running"}
Answered == {"succeeded", "partial_result"}
Stopped == {"cancelled", "timed_out", "failed"}
Blank == [profile: Profiles, stage: {"absent"}, takers: {{}}]

Alone == Cardinality(Hands) = 1

\* The stages a hand may act on: the one the job is in, and for one of several
\* every open stage the job has been in.
Seen(c) ==
    {s \in Posted :
        \/ s = c.stage
        \/ ~Alone /\ c.stage # "absent" /\ (s = "running" => c.takers # {})}

\* Nobody has asked for anything.
Init == board \in [Jobs -> Blank]

OpenJobs(b, p) == {j \in Jobs : b[j].profile = p /\ b[j].stage \in Posted}

\* A job of a profile appears, within the profile's bound.
Post(j, p) ==
    /\ board[j].stage = "absent"
    /\ board' = [board EXCEPT ![j] = [profile |-> p, stage |-> "queued", takers |-> {}]]
    /\ Cardinality(OpenJobs(board', p)) <= Bound[p]

\* A hand takes it up, once, and within the bound.
Run(j, w) ==
    /\ "queued" \in Seen(board[j])
    /\ w \notin board[j].takers
    /\ board' = [board EXCEPT ![j] =
           [profile |-> @.profile, stage |-> "running", takers |-> @.takers \cup {w}]]
    /\ Cardinality(OpenJobs(board', board[j].profile)) <= Bound[board[j].profile]

\* It ends with an answer, which only work produces.
Answer(j, s) ==
    /\ "running" \in Seen(board[j])
    /\ s \in Answered
    /\ board' = [board EXCEPT ![j].stage = s]

\* It ends without one.
Stop(j, s) ==
    /\ Seen(board[j]) # {}
    /\ s \in Stopped
    /\ board' = [board EXCEPT ![j].stage = s]

Next ==
    \E j \in Jobs :
        \/ \E p \in Profiles : Post(j, p)
        \/ \E w \in Hands : Run(j, w)
        \/ \E s \in Answered \cup Stopped : Answer(j, s) \/ Stop(j, s)

Spec == Init /\ [][Next]_board
=============================================================================
