----------------------------- MODULE Delegation -----------------------------
(***************************************************************************)
(* assistant-agent-graph: specialist groups and jobs in the central        *)
(* database (handoffs between groups are in Handoff).                      *)
(*                                                                         *)
(* Hosts are processes that call the library over one database.  Each      *)
(* statement commits by itself, so a call that counts and then inserts, or *)
(* loads and then updates, is two steps.  Nothing ties a job to a host: any  *)
(* of them may move it, from what it loaded.  The audit events, which      *)
(* nothing reads, are left out.                                            *)
(***************************************************************************)
EXTENDS Naturals, FiniteSets

CONSTANTS
    Hosts,
    Profiles,              \* every profile id a caller may name
    Registered,            \* those in the registry
    SpecialistProfiles,    \* the registered ones of kind "specialist"
    max_specialists,       \* per registered profile
    max_concurrent_jobs,
    GroupSlugs,            \* names of specialist groups
    Jobs,
    None,
    Events,                \* the job events the hosts make use of
    MaxFaults,             \* host crashes in a behaviour
    MaxMarks               \* run links and cancel requests in a behaviour

ASSUME DelegationAssumption ==
    /\ SpecialistProfiles \subseteq Registered /\ Registered \subseteq Profiles
    /\ max_specialists \in [Registered -> Nat]
    /\ max_concurrent_jobs \in [Registered -> Nat]
    /\ None \notin Profiles \cup GroupSlugs \cup Jobs
    /\ Events \subseteq {"start", "complete", "complete_partial", "cancel", "timeout", "fail"}
    /\ MaxFaults \in Nat /\ MaxMarks \in Nat
    /\ Hosts # {} /\ IsFiniteSet(Hosts) /\ IsFiniteSet(Jobs) /\ IsFiniteSet(GroupSlugs)

VARIABLES
    agent_groups,      \* agent_groups[g]: the profile of the group's row, or None
    specialist_jobs,   \* specialist_jobs[j]: the job's row, or NoRow
    specialist_job_runs, \* the jobs with a linked container run
    calls,             \* what each host is in the middle of
    crashes,           \* host crashes so far
    takers             \* history: the hosts that moved each job to running

db == <<agent_groups, specialist_jobs, specialist_job_runs>>
delegationVars == <<db, calls, crashes, takers>>

-----------------------------------------------------------------------------
(* The job state machine *)

JobStatus == {"queued", "running", "cancelled", "timed_out", "succeeded", "partial_result", "failed"}
InFlight == {"queued", "running"}
Terminal == JobStatus \ InFlight

(* Mutant: a job that failed can be started again. *)
MutantRetry ==
    ({"queued", "failed"} \X {"start"} \X {"running"})
    \cup (InFlight \X {"cancel"} \X {"cancelled"})
    \cup (InFlight \X {"timeout"} \X {"timed_out"})
    \cup (InFlight \X {"fail"} \X {"failed"})
    \cup {<<"running", "complete", "succeeded">>,
          <<"running", "complete_partial", "partial_result">>}

\* The table: <<from, event, to>>.
transition ==
    {<<"queued", "start", "running">>}
    \cup (InFlight \X {"cancel"} \X {"cancelled"})
    \cup (InFlight \X {"timeout"} \X {"timed_out"})
    \cup (InFlight \X {"fail"} \X {"failed"})
    \cup {<<"running", "complete", "succeeded">>,
          <<"running", "complete_partial", "partial_result">>}

\* The row of a job.  The events that end one for its time or a request are
\* the callers' to send: nothing here checks the flag or the clock.
JobRow == [profile_id: Registered, status: JobStatus,
           started_at: BOOLEAN, ended_at: BOOLEAN, cancel_requested: BOOLEAN]

NoRow == [profile_id |-> None]

Exists(j) == specialist_jobs[j] # NoRow

(* Mutant: only the jobs that wait are counted. *)
MutantOnlyQueued(p) ==
    {j \in Jobs : Exists(j) /\ specialist_jobs[j].profile_id = p /\ specialist_jobs[j].status = "queued"}

running_or_queued(p) ==
    {j \in Jobs : Exists(j) /\ specialist_jobs[j].profile_id = p /\ specialist_jobs[j].status \in InFlight}

specialist_groups(p) == {g \in GroupSlugs : agent_groups[g] = p}

-----------------------------------------------------------------------------
(* Calls *)

NoCall == [pc |-> "idle", profile |-> None, slug |-> None, job |-> None, status |-> None]

Call == [pc: {"idle", "create", "start", "update"},
         profile: Profiles \cup {None}, slug: GroupSlugs \cup {None}, job: Jobs \cup {None},
         status: JobStatus \cup {None}]

Goto(h, call) == calls' = [calls EXCEPT ![h] = call]

DelegationInit ==
    /\ agent_groups = [g \in GroupSlugs |-> None]
    /\ specialist_jobs = [j \in Jobs |-> NoRow]
    /\ specialist_job_runs = {}
    /\ calls = [h \in Hosts |-> NoCall]
    /\ crashes = 0
    /\ takers = [j \in Jobs |-> {}]

\* A group is only for a registered specialist profile with room for one more.
authorize_create(p, existing) == p \in SpecialistProfiles /\ existing < max_specialists[p]

authorize_job_start(p, in_flight) == in_flight < max_concurrent_jobs[p]

\* create_specialist: count the groups of the profile and authorize.
CreateSpecialist(h, p, g) ==
    /\ calls[h] = NoCall
    /\ authorize_create(p, Cardinality(specialist_groups(p)))
    /\ Goto(h, [NoCall EXCEPT !.pc = "create", !.profile = p, !.slug = g])
    /\ UNCHANGED <<db, crashes, takers>>

\* create_specialist_group; the slug is unique, so a second insert is an error.
InsertGroup(h) ==
    /\ calls[h].pc = "create"
    /\ \/ /\ agent_groups[calls[h].slug] = None
          /\ agent_groups' = [agent_groups EXCEPT ![calls[h].slug] = calls[h].profile]
       \/ /\ agent_groups[calls[h].slug] # None
          /\ UNCHANGED agent_groups
    /\ Goto(h, NoCall)
    /\ UNCHANGED <<specialist_jobs, specialist_job_runs, crashes, takers>>

\* start_job: the profile is registered and has room.
StartJob(h, j, p) ==
    /\ calls[h] = NoCall
    /\ p \in Registered
    /\ authorize_job_start(p, Cardinality(running_or_queued(p)))
    /\ Goto(h, [NoCall EXCEPT !.pc = "start", !.profile = p, !.job = j])
    /\ UNCHANGED <<db, crashes, takers>>

(* Mutant: an insert over a job that is there replaces it. *)
MutantReplaceJob(h) ==
    /\ calls[h].pc = "start"
    /\ specialist_jobs' = [specialist_jobs EXCEPT ![calls[h].job] =
           [profile_id |-> calls[h].profile, status |-> "queued", started_at |-> FALSE, ended_at |-> FALSE,
            cancel_requested |-> FALSE]]
    /\ Goto(h, NoCall)
    /\ UNCHANGED <<agent_groups, specialist_job_runs, crashes, takers>>

\* insert_job; the job id is the primary key.
InsertJob(h) ==
    /\ calls[h].pc = "start"
    /\ \/ /\ ~ Exists(calls[h].job)
          /\ specialist_jobs' = [specialist_jobs EXCEPT ![calls[h].job] =
                 [profile_id |-> calls[h].profile, status |-> "queued", started_at |-> FALSE, ended_at |-> FALSE,
                  cancel_requested |-> FALSE]]
       \/ /\ Exists(calls[h].job)
          /\ UNCHANGED specialist_jobs
    /\ Goto(h, NoCall)
    /\ UNCHANGED <<agent_groups, specialist_job_runs, crashes, takers>>

\* transition_job: load the job, whoever started it, and look the event up; an
\* event the table does not have is an error and changes nothing.
TransitionJob(h, j, event) ==
    /\ calls[h] = NoCall
    /\ Exists(j)
    /\ \E next \in JobStatus :
        /\ <<specialist_jobs[j].status, event, next>> \in transition
        /\ Goto(h, [NoCall EXCEPT !.pc = "update", !.job = j, !.status = next])
    /\ UNCHANGED <<db, crashes, takers>>

\* update_status: whatever the row says by now, the status that was computed is
\* written over it; the stamps follow it.
UpdateStatus(h) ==
    /\ calls[h].pc = "update"
    /\ LET j == calls[h].job
           next == calls[h].status
       IN  /\ specialist_jobs' = [specialist_jobs EXCEPT
                  ![j].status = next,
                  ![j].started_at = @ \/ next = "running",
                  ![j].ended_at = @ \/ next \in Terminal]
           /\ takers' = [takers EXCEPT ![j] = IF next = "running" THEN @ \cup {h} ELSE @]
           /\ Goto(h, NoCall)
    /\ UNCHANGED <<agent_groups, specialist_job_runs, crashes>>

\* A bound of the model: no guard reads a link or a flag.
MayMark ==
    Cardinality(specialist_job_runs)
        + Cardinality({j \in Jobs : Exists(j) /\ specialist_jobs[j].cancel_requested}) < MaxMarks

\* request_cancel and set_cancel_requested: a flag, whatever the status.
RequestCancel(h, j) ==
    /\ calls[h] = NoCall /\ MayMark
    /\ Exists(j)
    /\ specialist_jobs' = [specialist_jobs EXCEPT ![j].cancel_requested = TRUE]
    /\ UNCHANGED <<agent_groups, specialist_job_runs, calls, crashes, takers>>

\* add_run_link, for whatever job id the caller gives; idempotent.
AddRunLink(h, j) ==
    /\ calls[h] = NoCall /\ MayMark
    /\ specialist_job_runs' = specialist_job_runs \cup {j}
    /\ UNCHANGED <<agent_groups, specialist_jobs, calls, crashes, takers>>

\* A host dies and starts again: what it was in the middle of is forgotten.
HostCrash(h) ==
    /\ crashes < MaxFaults
    /\ calls[h] # NoCall
    /\ crashes' = crashes + 1
    /\ Goto(h, NoCall)
    /\ UNCHANGED <<db, takers>>

\* Groups and jobs do not meet, but for the host that does the one or the other.
GroupNext ==
    \E h \in Hosts :
        \/ \E p \in Profiles, g \in GroupSlugs : CreateSpecialist(h, p, g)
        \/ InsertGroup(h) \/ HostCrash(h)

JobNext ==
    \E h \in Hosts :
        \/ InsertJob(h) \/ UpdateStatus(h) \/ HostCrash(h)
        \/ \E j \in Jobs :
            \/ \E p \in Profiles : StartJob(h, j, p)
            \/ \E event \in Events : TransitionJob(h, j, event)
            \/ RequestCancel(h, j) \/ AddRunLink(h, j)

DelegationNext == GroupNext \/ JobNext

DelegationSpec == DelegationInit /\ [][DelegationNext]_delegationVars

-----------------------------------------------------------------------------
(* Properties *)

DelegationTypeOK ==
    /\ agent_groups \in [GroupSlugs -> SpecialistProfiles \cup {None}]
    /\ specialist_jobs \in [Jobs -> JobRow \cup {NoRow}]
    /\ specialist_job_runs \subseteq Jobs
    /\ calls \in [Hosts -> Call]
    /\ crashes \in 0 .. MaxFaults
    /\ takers \in [Jobs -> SUBSET Hosts]

\* The limits of a profile are counted and then used, in two statements.  With
\* one process they hold; each further process can take a profile one over, by
\* an insert after a count that is old or by an update that opens a job again
\* that ended since it was loaded, and no more than that (create_specialist,
\* start_job, transition_job).
LimitsBounded ==
    LET others == Cardinality(Hosts) - 1 IN
    \A p \in Registered :
        /\ Cardinality({j \in Jobs : specialist_jobs[j].profile_id = p
                                     /\ specialist_jobs[j].status \in InFlight})
              <= max_concurrent_jobs[p] + others
        /\ Cardinality(specialist_groups(p)) <= max_specialists[p] + others

Stage(j) == IF Exists(j) THEN specialist_jobs[j].status ELSE "absent"

\* "Terminal states accept no further transitions" (job.rs): what a job ended
\* as, it stays.  The table has no way out, but transition_job looks at it with
\* a status that may be old, so this is one process's only.
EndedIsFinal == [][\A j \in Jobs : Stage(j) \in Terminal => Stage(j)' = Stage(j)]_delegationVars

Board == INSTANCE JobBoard WITH
    Hands <- Hosts,
    Profiles <- Registered \cup {None},
    Bound <- [p \in Registered |-> max_concurrent_jobs[p] + Cardinality(Hosts) - 1],
    board <- [j \in Jobs |-> [profile |-> specialist_jobs[j].profile_id, stage |-> Stage(j),
                              takers |-> takers[j]]]

\* Hosts over one database implement the job board.  With one host a job runs
\* once and its end is final; with more a move may come from a row that was
\* loaded before (transition_job), so an ended job can be opened again or end
\* otherwise, but no host takes a job up twice, no job is answered that nobody
\* took up, and the profile stays within the bound.
ImplementsJobBoard == Board!Spec
=============================================================================
