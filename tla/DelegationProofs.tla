-------------------------- MODULE DelegationProofs --------------------------
(***************************************************************************)
(* What is proved of Delegation for every set of hosts, profiles, groups   *)
(* and jobs, every limit and number of crashes: its types, what a host may *)
(* rely on in the middle of a call, how far the limits of a profile can be *)
(* overrun, and that it implements JobBoard.                               *)
(***************************************************************************)
EXTENDS Delegation, FiniteSetTheorems, TLAPS

-----------------------------------------------------------------------------
(* Types, and what a host may rely on in the middle of a call *)

\* The stages a host may have loaded: the one of the row, and when there are
\* other hosts every open one the job has been in.
Loaded(j) ==
    {s \in InFlight :
        \/ s = specialist_jobs[j].status
        \/ Cardinality(Hosts) # 1 /\ (s = "running" => takers[j] # {})}

\* A host in the middle of transition_job holds what the table gave for a stage
\* it may have loaded.  What it is about to start was queued when it looked, so
\* it has not taken it up before.
CallOK(h) ==
    /\ calls[h].pc = "create" => calls[h].profile \in SpecialistProfiles /\ calls[h].slug \in GroupSlugs
    /\ calls[h].pc = "start" => calls[h].profile \in Registered /\ calls[h].job \in Jobs
    /\ calls[h].pc = "update" =>
         /\ calls[h].job \in Jobs /\ Exists(calls[h].job)
         /\ \E s \in Loaded(calls[h].job), event \in Events : <<s, event, calls[h].status>> \in transition
         /\ calls[h].status = "running" => h \notin takers[calls[h].job]

\* A job that nobody posted, or that waits, was never taken up.
TakersOK ==
    \A j \in Jobs :
        Exists(j) =>  (specialist_jobs[j].status = "queued" => takers[j] = {})
                   /\ (specialist_jobs[j].status = "running" => takers[j] # {})

AbsentOK == \A j \in Jobs : ~Exists(j) => takers[j] = {}

CallsOK == \A h \in Hosts : CallOK(h)

TypeInv == DelegationTypeOK /\ CallsOK /\ TakersOK /\ AbsentOK

(* The table only leads from one status to another, and never out of a      *)
(* terminal one.                                                            *)
LEMMA TransitionTyped ==
    ASSUME NEW s, NEW e, NEW t, <<s, e, t>> \in transition
    PROVE  /\ s \in InFlight /\ t \in JobStatus
           /\ t = "queued" \/ t = "running" => s = "queued" /\ t = "running"
           /\ t \in {"succeeded", "partial_result"} => s = "running"
  BY DEF transition, InFlight, JobStatus, Terminal

LEMMA NoCallTyped ==
    /\ NoCall \in Call
    /\ NoCall.pc = "idle"
  BY DEF NoCall, Call

(* A row is not the absence of one. *)
LEMMA RowExists ==
    ASSUME NEW row \in JobRow PROVE row # NoRow
  BY DelegationAssumption DEF JobRow, NoRow

LEMMA ExistsRow ==
    ASSUME DelegationTypeOK, NEW j \in Jobs
    PROVE  /\ Exists(j) => specialist_jobs[j] \in JobRow
           /\ ~Exists(j) => specialist_jobs[j] = NoRow
  BY DEF DelegationTypeOK, Exists

(* What other hosts may have loaded, they may have loaded still. *)
LEMMA LoadedGrows ==
    ASSUME TypeInv, NEW h \in Hosts, NEW g \in Hosts, g # h, NEW j \in Jobs, Exists(j),
           takers[j] \subseteq takers'[j]
    PROVE  Loaded(j) \subseteq Loaded(j)'
PROOF
  <1>1. Cardinality(Hosts) # 1
    BY FS_Singleton, DelegationAssumption
  <1>2. specialist_jobs[j].status = "running" => takers[j] # {}
    BY DEF TypeInv, TakersOK
  <1> QED BY <1>1, <1>2 DEF Loaded, InFlight

(* The host that goes from one call to another leaves the others' as they   *)
(* are, as long as no row goes away and nobody but it takes a job up.       *)
LEMMA OtherCalls ==
    ASSUME TypeInv, NEW h \in Hosts, NEW call \in Call, Goto(h, call), CallOK(h)',
           \A j \in Jobs : Exists(j) =>
               Exists(j)' /\ takers[j] \subseteq takers'[j] /\ takers'[j] \subseteq takers[j] \cup {h}
    PROVE  CallsOK' /\ calls' \in [Hosts -> Call]
PROOF
  <1>1. calls' \in [Hosts -> Call] /\ \A g \in Hosts : g # h => calls'[g] = calls[g]
    BY DEF TypeInv, DelegationTypeOK, Goto
  <1>2. ASSUME NEW g \in Hosts, g # h PROVE CallOK(g)'
    <2>1. CallOK(g) /\ calls'[g] = calls[g]
      BY <1>1, <1>2 DEF TypeInv, CallsOK
    <2>2. CASE calls[g].pc = "update"
      <3>1. PICK j \in Jobs : calls[g].job = j /\ Exists(j)
        BY <2>1, <2>2 DEF CallOK
      <3>2. Loaded(j) \subseteq Loaded(j)' /\ takers'[j] \subseteq takers[j] \cup {h} /\ Exists(j)'
        BY <1>2, <3>1, LoadedGrows
      <3>3. calls'[g].job = j /\ calls'[g].status = calls[g].status /\ calls'[g].pc = "update"
        BY <2>1, <2>2, <3>1
      <3>4. \E s \in Loaded(j)', event \in Events : <<s, event, calls'[g].status>> \in transition
        BY <2>1, <2>2, <3>1, <3>2, <3>3 DEF CallOK
      <3>5. calls'[g].status = "running" => g \notin takers'[j]
        BY <1>2, <2>1, <2>2, <3>1, <3>2, <3>3 DEF CallOK
      <3> HIDE DEF Loaded, Exists
      <3>6. Loaded(calls[g].job)' = Loaded(j)' /\ Exists(calls[g].job)' = Exists(j)'
        BY <3>3 DEF Loaded, Exists
      <3> QED BY <3>2, <3>3, <3>4, <3>5, <3>6 DEF CallOK
    <2>3. CASE calls[g].pc # "update"
      BY <2>1, <2>3 DEF CallOK
    <2> QED BY <2>2, <2>3
  <1> QED BY <1>1, <1>2 DEF CallsOK

LEMMA TypeInvInit == DelegationInit => TypeInv
PROOF
  <1> SUFFICES ASSUME DelegationInit PROVE TypeInv
    OBVIOUS
  <1>1. DelegationTypeOK
    BY DelegationAssumption, NoCallTyped DEF DelegationInit, DelegationTypeOK
  <1>2. CallsOK
    BY NoCallTyped DEF DelegationInit, CallsOK, CallOK
  <1>3. TakersOK /\ AbsentOK
    BY DEF DelegationInit, TakersOK, AbsentOK, Exists
  <1> QED BY <1>1, <1>2, <1>3 DEF TypeInv

(* Steps that touch no job. *)
LEMMA TakersKept ==
    ASSUME TypeInv, UNCHANGED <<specialist_jobs, takers>>
    PROVE  TakersOK' /\ AbsentOK'
  BY DEF TypeInv, TakersOK, AbsentOK, Exists

LEMMA TypeInvCreateSpecialist ==
    ASSUME TypeInv, NEW h \in Hosts, NEW p \in Profiles, NEW g \in GroupSlugs, CreateSpecialist(h, p, g)
    PROVE  TypeInv'
PROOF
  <1> DEFINE call == [NoCall EXCEPT !.pc = "create", !.profile = p, !.slug = g]
  <1>1. call \in Call /\ call.pc = "create" /\ call.profile = p /\ call.slug = g
    BY DEF NoCall, Call
  <1>2. Goto(h, call) /\ UNCHANGED <<db, crashes, takers>> /\ p \in SpecialistProfiles
    BY DEF CreateSpecialist, authorize_create
  <1>3. calls'[h] = call
    BY <1>2 DEF Goto, TypeInv, DelegationTypeOK
  <1> HIDE DEF call
  <1>4. CallOK(h)'
    BY <1>1, <1>2, <1>3 DEF CallOK
  <1>5. CallsOK' /\ calls' \in [Hosts -> Call]
    BY <1>1, <1>2, <1>4, OtherCalls DEF db, Exists
  <1> QED BY <1>2, <1>5, TakersKept DEF TypeInv, DelegationTypeOK, db

LEMMA TypeInvInsertGroup ==
    ASSUME TypeInv, NEW h \in Hosts, InsertGroup(h)
    PROVE  TypeInv'
PROOF
  <1>1. calls[h].profile \in SpecialistProfiles /\ calls[h].slug \in GroupSlugs
    BY DEF TypeInv, CallsOK, CallOK, InsertGroup
  <1>2. agent_groups' \in [GroupSlugs -> SpecialistProfiles \cup {None}]
    BY <1>1 DEF InsertGroup, TypeInv, DelegationTypeOK
  <1>3. Goto(h, NoCall) /\ UNCHANGED <<specialist_jobs, specialist_job_runs, crashes, takers>>
    BY DEF InsertGroup
  <1>4. CallOK(h)'
    BY <1>3, NoCallTyped DEF Goto, TypeInv, DelegationTypeOK, CallOK
  <1>5. CallsOK' /\ calls' \in [Hosts -> Call]
    BY <1>3, <1>4, NoCallTyped, OtherCalls DEF Exists
  <1> QED BY <1>2, <1>3, <1>5, TakersKept DEF TypeInv, DelegationTypeOK

LEMMA TypeInvStartJob ==
    ASSUME TypeInv, NEW h \in Hosts, NEW j \in Jobs, NEW p \in Profiles, StartJob(h, j, p)
    PROVE  TypeInv'
PROOF
  <1> DEFINE call == [NoCall EXCEPT !.pc = "start", !.profile = p, !.job = j]
  <1>1. call \in Call /\ call.pc = "start" /\ call.profile = p /\ call.job = j
    BY DEF NoCall, Call
  <1>2. Goto(h, call) /\ UNCHANGED <<db, crashes, takers>> /\ p \in Registered
    BY DEF StartJob
  <1>3. calls'[h] = call
    BY <1>2 DEF Goto, TypeInv, DelegationTypeOK
  <1> HIDE DEF call
  <1>4. CallOK(h)'
    BY <1>1, <1>2, <1>3 DEF CallOK
  <1>5. CallsOK' /\ calls' \in [Hosts -> Call]
    BY <1>1, <1>2, <1>4, OtherCalls DEF db, Exists
  <1> QED BY <1>2, <1>5, TakersKept DEF TypeInv, DelegationTypeOK, db

NewRow(h) ==
    [profile_id |-> calls[h].profile, status |-> "queued", started_at |-> FALSE, ended_at |-> FALSE,
     cancel_requested |-> FALSE]

(* insert_job, as a step of the table alone: a new row, or none. *)
LEMMA InsertJobStep ==
    ASSUME TypeInv, NEW h \in Hosts, InsertJob(h)
    PROVE  /\ calls[h].pc = "start" /\ calls[h].profile \in Registered /\ calls[h].job \in Jobs
           /\ Goto(h, NoCall) /\ UNCHANGED <<agent_groups, specialist_job_runs, crashes, takers>>
           /\ NewRow(h) \in JobRow /\ NewRow(h).status = "queued"
           /\ NewRow(h).profile_id = calls[h].profile
           /\ \/ /\ ~Exists(calls[h].job)
                 /\ specialist_jobs' = [specialist_jobs EXCEPT ![calls[h].job] = NewRow(h)]
              \/ UNCHANGED specialist_jobs
PROOF
  <1>1. calls[h].pc = "start" /\ calls[h].profile \in Registered /\ calls[h].job \in Jobs
    BY DEF TypeInv, CallsOK, CallOK, InsertJob
  <1>2. NewRow(h) \in JobRow /\ NewRow(h).status = "queued" /\ NewRow(h).profile_id = calls[h].profile
    BY <1>1, DelegationAssumption DEF NewRow, JobRow, JobStatus
  <1> QED BY <1>1, <1>2 DEF InsertJob, NewRow

LEMMA TypeInvInsertJob ==
    ASSUME TypeInv, NEW h \in Hosts, InsertJob(h)
    PROVE  TypeInv'
PROOF
  <1> DEFINE j == calls[h].job
             row == NewRow(h)
  <1>1. /\ j \in Jobs /\ row \in JobRow /\ row.status = "queued" /\ Goto(h, NoCall)
        /\ UNCHANGED <<agent_groups, specialist_job_runs, crashes, takers>>
        /\ \/ ~Exists(j) /\ specialist_jobs' = [specialist_jobs EXCEPT ![j] = row]
           \/ UNCHANGED specialist_jobs
    BY InsertJobStep
  <1> HIDE DEF j, row
  <1>2. specialist_jobs' \in [Jobs -> JobRow \cup {NoRow}]
    BY <1>1 DEF TypeInv, DelegationTypeOK
  <1>3. \A i \in Jobs : Exists(i) => specialist_jobs'[i] = specialist_jobs[i]
    BY <1>1 DEF TypeInv, DelegationTypeOK
  <1>4. CallOK(h)'
    BY <1>1, NoCallTyped DEF Goto, TypeInv, DelegationTypeOK, CallOK
  <1>5. CallsOK' /\ calls' \in [Hosts -> Call]
    BY <1>1, <1>3, <1>4, NoCallTyped, OtherCalls DEF Exists
  <1>6. TakersOK' /\ AbsentOK'
    <2>1. ~Exists(j) => takers[j] = {}
      BY <1>1 DEF TypeInv, AbsentOK
    <2>2. row.status = "queued" /\ row # NoRow
      BY <1>1, RowExists
    <2>3. CASE ~Exists(j) /\ specialist_jobs' = [specialist_jobs EXCEPT ![j] = row]
      <3>1. \A i \in Jobs : i # j => specialist_jobs'[i] = specialist_jobs[i]
        BY <2>3 DEF TypeInv, DelegationTypeOK
      <3>2. specialist_jobs'[j] = row
        BY <1>1, <2>3 DEF TypeInv, DelegationTypeOK
      <3> QED BY <1>1, <2>1, <2>2, <2>3, <3>1, <3>2 DEF TypeInv, TakersOK, AbsentOK, Exists
    <2>4. CASE UNCHANGED specialist_jobs
      BY <1>1, <2>4, TakersKept
    <2> QED BY <1>1, <2>3, <2>4
  <1> QED BY <1>1, <1>2, <1>5, <1>6 DEF TypeInv, DelegationTypeOK

LEMMA TypeInvTransitionJob ==
    ASSUME TypeInv, NEW h \in Hosts, NEW j \in Jobs, NEW event \in Events, TransitionJob(h, j, event)
    PROVE  TypeInv'
PROOF
  <1>1. PICK next \in JobStatus :
          /\ <<specialist_jobs[j].status, event, next>> \in transition
          /\ Goto(h, [NoCall EXCEPT !.pc = "update", !.job = j, !.status = next])
    BY DEF TransitionJob
  <1> DEFINE call == [NoCall EXCEPT !.pc = "update", !.job = j, !.status = next]
  <1>2. call \in Call /\ call.pc = "update" /\ call.job = j /\ call.status = next
    BY DEF NoCall, Call
  <1>3. Goto(h, call) /\ UNCHANGED <<db, crashes, takers>> /\ Exists(j)
    BY <1>1 DEF TransitionJob
  <1>4. calls'[h] = call
    BY <1>3 DEF Goto, TypeInv, DelegationTypeOK
  <1> HIDE DEF call
  <1>a. specialist_jobs[j].status \in Loaded(j) /\ (next = "running" => takers[j] = {})
    BY <1>1, <1>3, TransitionTyped DEF Loaded, TypeInv, TakersOK
  <1>5. CallOK(h)'
    BY <1>1, <1>2, <1>3, <1>4, <1>a DEF CallOK, db, Exists, Loaded
  <1>6. CallsOK' /\ calls' \in [Hosts -> Call]
    BY <1>2, <1>3, <1>5, OtherCalls DEF db, Exists
  <1> QED BY <1>3, <1>6, TakersKept DEF TypeInv, DelegationTypeOK, db

(* The row that update_status writes: the status it was given, and the rest *)
(* but for the stamps as it was.                                            *)
UpdatedRow(row, next) ==
    [row EXCEPT !.status = next,
                !.started_at = @ \/ next = "running",
                !.ended_at = @ \/ next \in Terminal]

LEMMA UpdatedRowTyped ==
    ASSUME NEW row \in JobRow, NEW next \in JobStatus
    PROVE  /\ UpdatedRow(row, next) \in JobRow
           /\ UpdatedRow(row, next).status = next
           /\ UpdatedRow(row, next).profile_id = row.profile_id
  BY DEF UpdatedRow, JobRow

(* update_status, as a step of the table alone: the row of the job moves    *)
(* along the table from a stage the host may have loaded.                   *)
Moves(h, j, s, next, event, row) ==
    /\ calls[h].pc = "update" /\ calls[h].job = j /\ calls[h].status = next
    /\ Exists(j) /\ specialist_jobs[j] \in JobRow
    /\ s \in Loaded(j) /\ <<s, event, next>> \in transition
    /\ row.status = next /\ row.profile_id = specialist_jobs[j].profile_id
    /\ specialist_jobs' = [specialist_jobs EXCEPT ![j] = row]
    /\ next = "running" => h \notin takers[j]
    /\ takers' = [takers EXCEPT ![j] = IF next = "running" THEN @ \cup {h} ELSE @]
    /\ Goto(h, NoCall) /\ calls'[h] = NoCall
    /\ UNCHANGED <<agent_groups, specialist_job_runs, crashes>>

LEMMA UpdateStatusStep ==
    ASSUME TypeInv, NEW h \in Hosts, UpdateStatus(h)
    PROVE  \E j \in Jobs, s \in InFlight, next \in JobStatus, event \in Events, row \in JobRow :
             Moves(h, j, s, next, event, row)
PROOF
  <1> DEFINE j == calls[h].job
             next == calls[h].status
             row == UpdatedRow(specialist_jobs[j], next)
  <1>1. /\ calls[h].pc = "update" /\ j \in Jobs /\ Exists(j)
        /\ next = "running" => h \notin takers[j]
    BY DEF TypeInv, CallsOK, CallOK, UpdateStatus
  <1>2. PICK s \in Loaded(j), event \in Events : <<s, event, next>> \in transition
    BY DEF TypeInv, CallsOK, CallOK, UpdateStatus
  <1>3. specialist_jobs[j] \in JobRow
    BY <1>1, ExistsRow DEF TypeInv
  <1>4. next \in JobStatus /\ s \in InFlight
    BY <1>2, TransitionTyped
  <1>5. row \in JobRow /\ row.status = next /\ row.profile_id = specialist_jobs[j].profile_id
    BY <1>1, <1>3, <1>4, UpdatedRowTyped
  <1>6. specialist_jobs' = [specialist_jobs EXCEPT ![j] = row]
    BY <1>1, <1>3 DEF UpdateStatus, UpdatedRow, TypeInv, DelegationTypeOK, JobRow
  <1>7. /\ Goto(h, NoCall) /\ UNCHANGED <<agent_groups, specialist_job_runs, crashes>>
        /\ takers' = [takers EXCEPT ![j] = IF next = "running" THEN @ \cup {h} ELSE @]
    BY DEF UpdateStatus
  <1>8. calls'[h] = NoCall
    BY <1>7 DEF Goto, TypeInv, DelegationTypeOK
  <1> HIDE DEF row
  <1>9. Moves(h, j, s, next, event, row)
    BY <1>1, <1>2, <1>3, <1>5, <1>6, <1>7, <1>8 DEF Moves
  <1> HIDE DEF j, next
  <1> QED BY <1>1, <1>4, <1>5, <1>9

LEMMA TypeInvUpdateStatus ==
    ASSUME TypeInv, NEW h \in Hosts, UpdateStatus(h)
    PROVE  TypeInv'
PROOF
  <1>1. PICK j \in Jobs, s \in InFlight, next \in JobStatus, event \in Events, row \in JobRow :
             Moves(h, j, s, next, event, row)
    BY UpdateStatusStep
  <1>2. specialist_jobs' \in [Jobs -> JobRow \cup {NoRow}] /\ takers' \in [Jobs -> SUBSET Hosts]
    BY <1>1 DEF Moves, TypeInv, DelegationTypeOK
  <1>3. /\ \A i \in Jobs : i # j => specialist_jobs'[i] = specialist_jobs[i] /\ takers'[i] = takers[i]
        /\ specialist_jobs'[j] = row /\ Exists(j)
        /\ takers'[j] = IF next = "running" THEN takers[j] \cup {h} ELSE takers[j]
    BY <1>1 DEF Moves, TypeInv, DelegationTypeOK
  <1>4. CallOK(h)'
    BY <1>1, NoCallTyped DEF Moves, CallOK
  <1>5. CallsOK' /\ calls' \in [Hosts -> Call]
    BY <1>1, <1>3, <1>4, RowExists, NoCallTyped, OtherCalls DEF Moves, Exists
  <1>6. TakersOK'
    <2>1. row.status = next /\ next # "queued"
      BY <1>1, TransitionTyped DEF Moves
    <2>2. next = "running" => takers'[j] # {}
      BY <1>3
    <2> QED BY <1>3, <2>1, <2>2 DEF TypeInv, TakersOK, Exists
  <1>7. AbsentOK'
    BY <1>3, RowExists DEF TypeInv, AbsentOK, Exists
  <1> QED BY <1>1, <1>2, <1>5, <1>6, <1>7 DEF Moves, TypeInv, DelegationTypeOK

(* request_cancel, as a step of the table alone. *)
LEMMA RequestCancelStep ==
    ASSUME TypeInv, NEW h \in Hosts, NEW j \in Jobs, RequestCancel(h, j)
    PROVE  \E row \in JobRow :
             /\ Exists(j) /\ specialist_jobs[j] \in JobRow
             /\ row.status = specialist_jobs[j].status
             /\ row.profile_id = specialist_jobs[j].profile_id
             /\ specialist_jobs' = [specialist_jobs EXCEPT ![j] = row]
             /\ UNCHANGED <<agent_groups, specialist_job_runs, calls, crashes, takers>>
PROOF
  <1> DEFINE row == [specialist_jobs[j] EXCEPT !.cancel_requested = TRUE]
  <1>1. Exists(j) /\ specialist_jobs[j] \in JobRow
    BY ExistsRow DEF TypeInv, RequestCancel
  <1>2. /\ row \in JobRow
        /\ row.status = specialist_jobs[j].status /\ row.profile_id = specialist_jobs[j].profile_id
    BY <1>1 DEF JobRow
  <1>3. /\ specialist_jobs' = [specialist_jobs EXCEPT ![j] = row]
        /\ UNCHANGED <<agent_groups, specialist_job_runs, calls, crashes, takers>>
    BY DEF RequestCancel
  <1> HIDE DEF row
  <1> QED BY <1>1, <1>2, <1>3

LEMMA TypeInvRequestCancel ==
    ASSUME TypeInv, NEW h \in Hosts, NEW j \in Jobs, RequestCancel(h, j)
    PROVE  TypeInv'
PROOF
  <1>1. PICK row \in JobRow :
             /\ Exists(j) /\ specialist_jobs[j] \in JobRow
             /\ row.status = specialist_jobs[j].status
             /\ row.profile_id = specialist_jobs[j].profile_id
             /\ specialist_jobs' = [specialist_jobs EXCEPT ![j] = row]
             /\ UNCHANGED <<agent_groups, specialist_job_runs, calls, crashes, takers>>
    BY RequestCancelStep
  <1>2. /\ specialist_jobs' \in [Jobs -> JobRow \cup {NoRow}]
        /\ specialist_jobs'[j] = row
        /\ \A i \in Jobs : i # j => specialist_jobs'[i] = specialist_jobs[i]
    BY <1>1 DEF TypeInv, DelegationTypeOK
  <1>3. \A i \in Jobs : Exists(i)' = Exists(i) /\ Loaded(i)' = Loaded(i)
    BY <1>1, <1>2, RowExists DEF Exists, Loaded
  <1>4. CallsOK'
    BY <1>1, <1>3 DEF TypeInv, CallsOK, CallOK
  <1>5. TakersOK' /\ AbsentOK'
    BY <1>1, <1>2, <1>3 DEF TypeInv, TakersOK, AbsentOK
  <1> QED BY <1>1, <1>2, <1>4, <1>5 DEF TypeInv, DelegationTypeOK

LEMMA TypeInvHostCrash ==
    ASSUME TypeInv, NEW h \in Hosts, HostCrash(h)
    PROVE  TypeInv'
PROOF
  <1>1. Goto(h, NoCall) /\ UNCHANGED <<db, takers>>
    BY DEF HostCrash
  <1>2. crashes' \in 0 .. MaxFaults
    BY DelegationAssumption DEF HostCrash, TypeInv, DelegationTypeOK
  <1>3. CallOK(h)'
    BY <1>1, NoCallTyped DEF Goto, TypeInv, DelegationTypeOK, CallOK
  <1>4. CallsOK' /\ calls' \in [Hosts -> Call]
    BY <1>1, <1>3, NoCallTyped, OtherCalls DEF Exists, db
  <1> QED BY <1>1, <1>2, <1>4, TakersKept DEF TypeInv, DelegationTypeOK, db

LEMMA TypeInvStep == TypeInv /\ [DelegationNext]_delegationVars => TypeInv'
PROOF
  <1> SUFFICES ASSUME TypeInv, [DelegationNext]_delegationVars PROVE TypeInv'
    OBVIOUS
  <1>1. ASSUME NEW h \in Hosts, NEW p \in Profiles, NEW g \in GroupSlugs, CreateSpecialist(h, p, g)
        PROVE TypeInv'
    BY <1>1, TypeInvCreateSpecialist
  <1>2. ASSUME NEW h \in Hosts, NEW p \in Profiles, NEW j \in Jobs, StartJob(h, j, p) PROVE TypeInv'
    BY <1>2, TypeInvStartJob
  <1>3. ASSUME NEW h \in Hosts, InsertGroup(h) PROVE TypeInv'
    BY <1>3, TypeInvInsertGroup
  <1>4. ASSUME NEW h \in Hosts, InsertJob(h) PROVE TypeInv'
    BY <1>4, TypeInvInsertJob
  <1>5. ASSUME NEW h \in Hosts, UpdateStatus(h) PROVE TypeInv'
    BY <1>5, TypeInvUpdateStatus
  <1>7. ASSUME NEW h \in Hosts, HostCrash(h) PROVE TypeInv'
    BY <1>7, TypeInvHostCrash
  <1>8. ASSUME NEW h \in Hosts, NEW j \in Jobs, NEW event \in Events, TransitionJob(h, j, event)
        PROVE TypeInv'
    BY <1>8, TypeInvTransitionJob
  <1>9. ASSUME NEW h \in Hosts, NEW j \in Jobs, RequestCancel(h, j) PROVE TypeInv'
    BY <1>9, TypeInvRequestCancel
  <1>6. ASSUME UNCHANGED <<specialist_jobs, calls, takers>> PROVE CallsOK' /\ TakersOK' /\ AbsentOK'
    BY <1>6, TakersKept DEF TypeInv, CallsOK, CallOK, Exists, Loaded
  <1>10. ASSUME NEW h \in Hosts, NEW j \in Jobs, AddRunLink(h, j) PROVE TypeInv'
    BY <1>6, <1>10 DEF AddRunLink, TypeInv, DelegationTypeOK
  <1>11. CASE UNCHANGED delegationVars
    BY <1>6, <1>11 DEF delegationVars, db, TypeInv, DelegationTypeOK
  <1> QED
    BY <1>1, <1>2, <1>3, <1>4, <1>5, <1>7, <1>8, <1>9, <1>10, <1>11 DEF DelegationNext, GroupNext, JobNext

(* In every state the database and the calls have their types, and a host   *)
(* in the middle of transition_job holds what the table gives for a stage   *)
(* it may have loaded: with one host the stage the job is in, with more an  *)
(* open stage the job has been in.  One that is about to start the job has  *)
(* not started it before.                                                   *)
THEOREM MovesAreFromLoadedStages == DelegationSpec => []TypeInv
PROOF
  <1>1. DelegationInit => TypeInv
    BY TypeInvInit
  <1>2. TypeInv /\ [DelegationNext]_delegationVars => TypeInv'
    BY TypeInvStep
  <1> QED BY <1>1, <1>2, PTL DEF DelegationSpec

-----------------------------------------------------------------------------
(* How far the limits can be overrun *)

\* The hosts that have counted and not yet inserted.
Starting(p) == {h \in Hosts : calls[h].pc = "start" /\ calls[h].profile = p}

Creating(p) == {h \in Hosts : calls[h].pc = "create" /\ calls[h].profile = p}

\* The hosts that are about to say that a job runs,
Resuming == {h \in Hosts : calls[h].pc = "update" /\ calls[h].status = "running"}

\* and the jobs of a profile that are open or that such a host opens again.
Live(p) ==
    {j \in Jobs :
        /\ Exists(j) /\ specialist_jobs[j].profile_id = p
        /\ \/ specialist_jobs[j].status \in InFlight
           \/ \E h \in Resuming : calls[h].job = j}

\* LimitsBounded is not inductive: a host that has counted may insert when the
\* profile is at the bound, and one that has loaded a job before it ended may
\* open it again.  What is open and what is on its way there are bounded
\* together.
JobRoom(p) ==
    Cardinality(Live(p)) + Cardinality(Starting(p))
        <= max_concurrent_jobs[p] + Cardinality(Hosts) - 1

GroupRoom(p) ==
    Cardinality(specialist_groups(p)) + Cardinality(Creating(p))
        <= max_specialists[p] + Cardinality(Hosts) - 1

RoomInv == \A p \in Registered : JobRoom(p) /\ GroupRoom(p)

LEMMA SumShrinks ==
    ASSUME NEW A, NEW B, IsFiniteSet(A), IsFiniteSet(B), NEW A2 \in SUBSET A, NEW B2 \in SUBSET B,
           NEW n \in Int, Cardinality(A) + Cardinality(B) <= n
    PROVE  Cardinality(A2) + Cardinality(B2) <= n
PROOF
  <1>1. /\ IsFiniteSet(A2) /\ Cardinality(A2) <= Cardinality(A)
        /\ IsFiniteSet(B2) /\ Cardinality(B2) <= Cardinality(B)
    BY FS_Subset
  <1> QED BY <1>1, FS_CardinalityType

LEMMA SumShifts ==
    ASSUME NEW A, NEW B, IsFiniteSet(A), IsFiniteSet(B), NEW y, NEW x \in B,
           NEW A2 \in SUBSET (A \cup {y}), NEW B2 \in SUBSET (B \ {x}),
           NEW n \in Int, Cardinality(A) + Cardinality(B) <= n
    PROVE  Cardinality(A2) + Cardinality(B2) <= n
PROOF
  <1>1. IsFiniteSet(A \cup {y}) /\ Cardinality(A \cup {y}) <= Cardinality(A) + 1
    <2>1. Cardinality(A) \in Nat
      BY FS_CardinalityType
    <2>2. /\ IsFiniteSet(A \cup {y})
          /\ Cardinality(A \cup {y}) = IF y \in A THEN Cardinality(A) ELSE Cardinality(A) + 1
      BY FS_AddElement, Zenon
    <2> QED BY <2>1, <2>2
  <1>2. IsFiniteSet(B \ {x}) /\ Cardinality(B \ {x}) = Cardinality(B) - 1
    BY FS_RemoveElement
  <1>3. /\ IsFiniteSet(A2) /\ Cardinality(A2) <= Cardinality(A \cup {y})
        /\ IsFiniteSet(B2) /\ Cardinality(B2) <= Cardinality(B \ {x})
    BY <1>1, <1>2, FS_Subset
  <1> QED BY <1>1, <1>2, <1>3, FS_CardinalityType

LEMMA FiniteCounts ==
    ASSUME NEW p \in Registered
    PROVE  /\ IsFiniteSet(running_or_queued(p)) /\ IsFiniteSet(Live(p)) /\ IsFiniteSet(Starting(p))
           /\ IsFiniteSet(Resuming)
           /\ IsFiniteSet(specialist_groups(p)) /\ IsFiniteSet(Creating(p))
           /\ max_concurrent_jobs[p] + Cardinality(Hosts) - 1 \in Int
           /\ max_specialists[p] + Cardinality(Hosts) - 1 \in Int
PROOF
  <1>1. /\ running_or_queued(p) \subseteq Jobs /\ Live(p) \subseteq Jobs /\ Starting(p) \subseteq Hosts
        /\ specialist_groups(p) \subseteq GroupSlugs /\ Creating(p) \subseteq Hosts
        /\ Resuming \subseteq Hosts
    BY DEF running_or_queued, Live, Starting, specialist_groups, Creating, Resuming
  <1>2. Cardinality(Hosts) \in Nat
    BY DelegationAssumption, FS_CardinalityType
  <1> QED BY <1>1, <1>2, FS_Subset, DelegationAssumption

(* Room is kept by what adds nothing, *)
LEMMA JobRoomShrinks ==
    ASSUME NEW p \in Registered, JobRoom(p), Live(p)' \subseteq Live(p),
           Starting(p)' \subseteq Starting(p)
    PROVE  JobRoom(p)'
  BY SumShrinks, FiniteCounts DEF JobRoom

LEMMA GroupRoomShrinks ==
    ASSUME NEW p \in Registered, GroupRoom(p), specialist_groups(p)' \subseteq specialist_groups(p),
           Creating(p)' \subseteq Creating(p)
    PROVE  GroupRoom(p)'
  BY SumShrinks, FiniteCounts DEF GroupRoom

(* and by what moves one from the hosts to the table. *)
LEMMA JobRoomShifts ==
    ASSUME NEW p \in Registered, JobRoom(p), NEW j, NEW h \in Starting(p),
           Live(p)' \subseteq Live(p) \cup {j},
           Starting(p)' \subseteq Starting(p) \ {h}
    PROVE  JobRoom(p)'
PROOF
  <1> DEFINE A == Live(p)
             B == Starting(p)
             A2 == A'
             B2 == B'
             n == max_concurrent_jobs[p] + Cardinality(Hosts) - 1
  <1>1. /\ IsFiniteSet(A) /\ IsFiniteSet(B) /\ n \in Int /\ h \in B
        /\ A2 \in SUBSET (A \cup {j}) /\ B2 \in SUBSET (B \ {h})
        /\ Cardinality(A) + Cardinality(B) <= n
    BY FiniteCounts DEF JobRoom
  <1> HIDE DEF A, B, A2, B2, n
  <1>2. Cardinality(A2) + Cardinality(B2) <= n
    BY <1>1, SumShifts
  <1> QED BY <1>2 DEF JobRoom, A, B, A2, B2, n

LEMMA GroupRoomShifts ==
    ASSUME NEW p \in Registered, GroupRoom(p), NEW g, NEW h \in Creating(p),
           specialist_groups(p)' \subseteq specialist_groups(p) \cup {g},
           Creating(p)' \subseteq Creating(p) \ {h}
    PROVE  GroupRoom(p)'
PROOF
  <1> DEFINE A == specialist_groups(p)
             B == Creating(p)
             A2 == A'
             B2 == B'
             n == max_specialists[p] + Cardinality(Hosts) - 1
  <1>1. /\ IsFiniteSet(A) /\ IsFiniteSet(B) /\ n \in Int /\ h \in B
        /\ A2 \in SUBSET (A \cup {g}) /\ B2 \in SUBSET (B \ {h})
        /\ Cardinality(A) + Cardinality(B) <= n
    BY FiniteCounts DEF GroupRoom
  <1> HIDE DEF A, B, A2, B2, n
  <1>2. Cardinality(A2) + Cardinality(B2) <= n
    BY <1>1, SumShifts
  <1> QED BY <1>2 DEF GroupRoom, A, B, A2, B2, n

(* A host that counts finds room for one more; the others may be as far. *)
LEMMA RoomCounted ==
    ASSUME NEW S \in SUBSET Hosts, NEW c \in Nat, NEW limit \in Nat, c < limit
    PROVE  c + Cardinality(S) <= limit + Cardinality(Hosts) - 1
  BY FS_Subset, FS_CardinalityType, DelegationAssumption

(* Who is on the way to an insert after a host has gone on. *)
LEMMA OnTheWay ==
    ASSUME TypeInv, NEW h \in Hosts, NEW call, Goto(h, call), NEW p \in Registered
    PROVE  /\ calls'[h] = call
           /\ call.pc # "start" => Starting(p)' \subseteq Starting(p) \ {h}
           /\ call.pc # "create" => Creating(p)' \subseteq Creating(p) \ {h}
           /\ call.profile # p => Starting(p)' \subseteq Starting(p) /\ Creating(p)' \subseteq Creating(p)
           /\ Starting(p)' \subseteq Hosts /\ Creating(p)' \subseteq Hosts
PROOF
  <1>1. calls'[h] = call /\ \A g \in Hosts : g # h => calls'[g] = calls[g]
    BY DEF Goto, TypeInv, DelegationTypeOK
  <1> QED BY <1>1 DEF Starting, Creating

(* A host that counts the open jobs does not see those that are about to be *)
(* opened again, but each of them has a host that does so.                  *)
LEMMA LiveCounted ==
    ASSUME TypeInv, NEW p \in Registered
    PROVE  Cardinality(Live(p)) <= Cardinality(running_or_queued(p)) + Cardinality(Resuming)
PROOF
  <1> DEFINE stale == Live(p) \ running_or_queued(p)
             f == [j \in stale |-> CHOOSE h \in Resuming : calls[h].job = j]
  <1>1. /\ IsFiniteSet(running_or_queued(p)) /\ IsFiniteSet(Live(p)) /\ IsFiniteSet(Resuming)
        /\ running_or_queued(p) \subseteq Live(p)
    BY FiniteCounts DEF running_or_queued, Live
  <1>2. IsFiniteSet(stale)
    BY <1>1, FS_Subset
  <1>3. \A j \in stale : f[j] \in Resuming /\ calls[f[j]].job = j
    BY DEF Live, running_or_queued
  <1>4. f \in [stale -> Resuming]
    BY <1>3
  <1>5. Cardinality(stale) <= Cardinality(Resuming)
    <2>1. SUFFICES ASSUME Cardinality(Resuming) < Cardinality(stale) PROVE FALSE
      BY <1>1, <1>2, FS_CardinalityType
    <2> HIDE DEF f, stale
    <2>2. \E x, y \in stale : x # y /\ f[x] = f[y]
      BY <1>1, <1>2, <1>4, <2>1, FS_PigeonHole
    <2> QED BY <1>3, <2>2
  <1>6. Live(p) = running_or_queued(p) \cup stale /\ running_or_queued(p) \cap stale = {}
    BY <1>1
  <1> HIDE DEF stale, f
  <1>7. Cardinality(Live(p)) = Cardinality(running_or_queued(p)) + Cardinality(stale) - Cardinality(running_or_queued(p) \cap stale)
    BY <1>1, <1>2, <1>6, FS_Union
  <1>8. Cardinality(running_or_queued(p) \cap stale) = 0
    BY <1>6, FS_EmptySet
  <1> QED BY <1>1, <1>2, <1>5, <1>7, <1>8, FS_CardinalityType

(* Steps that leave the rows alone and make nobody say that a closed job    *)
(* runs.                                                                    *)
LEMMA LiveKept ==
    ASSUME TypeInv, NEW h \in Hosts, NEW call, Goto(h, call), UNCHANGED specialist_jobs,
           call.pc = "update" /\ call.status = "running" => specialist_jobs[call.job].status \in InFlight,
           NEW p \in Registered
    PROVE  Live(p)' \subseteq Live(p)
PROOF
  <1>1. calls'[h] = call /\ \A g \in Hosts : g # h => calls'[g] = calls[g]
    BY DEF Goto, TypeInv, DelegationTypeOK
  <1>2. \A j \in Jobs : Exists(j)' = Exists(j)
    BY DEF Exists
  <1> QED BY <1>1, <1>2 DEF Live, Resuming

LEMMA RoomInit == DelegationInit => RoomInv
PROOF
  <1> SUFFICES ASSUME DelegationInit, NEW p \in Registered PROVE JobRoom(p) /\ GroupRoom(p)
    BY DEF RoomInv
  <1> DEFINE none == {}
  <1>1. none = {} /\ Cardinality(none) = 0
    BY FS_EmptySet
  <1> HIDE DEF none
  <1>2. Live(p) = none /\ Starting(p) = none /\ Creating(p) = none
    BY <1>1, NoCallTyped DEF DelegationInit, Live, Exists, Starting, Creating
  <1>3. specialist_groups(p) = none
    BY <1>1, DelegationAssumption DEF DelegationInit, specialist_groups
  <1>4. Cardinality(Hosts) \in Nat /\ Cardinality(Hosts) # 0
    BY DelegationAssumption, FS_CardinalityType, FS_EmptySet
  <1>5. max_concurrent_jobs[p] \in Nat /\ max_specialists[p] \in Nat
    BY DelegationAssumption
  <1> QED BY <1>1, <1>2, <1>3, <1>4, <1>5 DEF JobRoom, GroupRoom

LEMMA RoomStep == TypeInv /\ RoomInv /\ [DelegationNext]_delegationVars => RoomInv'
PROOF
  <1> SUFFICES ASSUME TypeInv, RoomInv, [DelegationNext]_delegationVars, NEW q \in Registered
               PROVE  JobRoom(q)' /\ GroupRoom(q)'
    BY DEF RoomInv
  <1>0. JobRoom(q) /\ GroupRoom(q)
    BY DEF RoomInv
  <1>a. /\ IsFiniteSet(running_or_queued(q)) /\ IsFiniteSet(specialist_groups(q))
        /\ max_concurrent_jobs[q] \in Nat /\ max_specialists[q] \in Nat
    BY FiniteCounts, DelegationAssumption
  <1>1. ASSUME NEW h \in Hosts, NEW p \in Profiles, NEW g \in GroupSlugs, CreateSpecialist(h, p, g)
        PROVE  JobRoom(q)' /\ GroupRoom(q)'
    <2> DEFINE call == [NoCall EXCEPT !.pc = "create", !.profile = p, !.slug = g]
    <2>1. call.pc = "create" /\ call.profile = p
      BY DEF NoCall
    <2>2. /\ Goto(h, call) /\ UNCHANGED <<agent_groups, specialist_jobs>>
          /\ Cardinality(specialist_groups(p)) < max_specialists[p]
      BY <1>1 DEF CreateSpecialist, authorize_create, db
    <2>3. specialist_groups(q)' = specialist_groups(q)
      BY <2>2 DEF specialist_groups
    <2> HIDE DEF call
    <2>b. Live(q)' \subseteq Live(q)
      BY <2>1, <2>2, LiveKept
    <2>4. JobRoom(q)'
      BY <1>0, <2>1, <2>2, <2>b, OnTheWay, JobRoomShrinks
    <2>5. CASE p # q
      BY <1>0, <2>1, <2>2, <2>3, <2>4, <2>5, OnTheWay, GroupRoomShrinks
    <2>6. CASE p = q
      <3>1. Creating(q)' \in SUBSET Hosts /\ Cardinality(specialist_groups(q)) \in Nat
        BY <1>a, <2>2, OnTheWay, FS_CardinalityType
      <3>2. Cardinality(specialist_groups(q)) + Cardinality(Creating(q)') <= max_specialists[q] + Cardinality(Hosts) - 1
        BY <1>a, <2>2, <2>6, <3>1, RoomCounted
      <3> QED BY <2>3, <2>4, <3>2 DEF GroupRoom
    <2> QED BY <2>5, <2>6
  <1>2. ASSUME NEW h \in Hosts, NEW p \in Profiles, NEW j \in Jobs, StartJob(h, j, p)
        PROVE  JobRoom(q)' /\ GroupRoom(q)'
    <2> DEFINE call == [NoCall EXCEPT !.pc = "start", !.profile = p, !.job = j]
    <2>1. call.pc = "start" /\ call.profile = p
      BY DEF NoCall
    <2>2. /\ Goto(h, call) /\ UNCHANGED <<agent_groups, specialist_jobs>>
          /\ Cardinality(running_or_queued(p)) < max_concurrent_jobs[p]
      BY <1>2 DEF StartJob, authorize_job_start, db
    <2>3. specialist_groups(q)' = specialist_groups(q)
      BY <2>2 DEF specialist_groups
    <2> HIDE DEF call
    <2>b. Live(q)' \subseteq Live(q)
      BY <2>1, <2>2, LiveKept
    <2>4. GroupRoom(q)'
      BY <1>0, <2>1, <2>2, <2>3, OnTheWay, GroupRoomShrinks
    <2>5. CASE p # q
      BY <1>0, <2>1, <2>2, <2>b, <2>4, <2>5, OnTheWay, JobRoomShrinks
    <2>6. CASE p = q
      <3>1. Starting(q)' \cup Resuming \in SUBSET Hosts /\ Starting(q)' \cap Resuming = {}
        <4>1. \A g \in Hosts : calls'[g].pc = "start" => calls[g].pc # "update"
          <5>1. calls'[h] = call /\ \A g \in Hosts : g # h => calls'[g] = calls[g]
            BY <2>2 DEF Goto, TypeInv, DelegationTypeOK
          <5>2. calls[h].pc = "idle"
            BY <1>2, NoCallTyped DEF StartJob
          <5> QED BY <5>1, <5>2
        <4> QED BY <4>1 DEF Starting, Resuming
      <3>2. Cardinality(Starting(q)' \cup Resuming) = Cardinality(Starting(q)') + Cardinality(Resuming)
        <4>1. IsFiniteSet(Starting(q)') /\ IsFiniteSet(Resuming)
          BY <3>1, FS_Subset, DelegationAssumption
        <4>2. Cardinality(Starting(q)' \cap Resuming) = 0
          BY <3>1, FS_EmptySet
        <4>3. Cardinality(Starting(q)' \cup Resuming)
                = Cardinality(Starting(q)') + Cardinality(Resuming) - Cardinality(Starting(q)' \cap Resuming)
          BY <4>1, FS_Union
        <4> QED BY <4>1, <4>2, <4>3, FS_CardinalityType
      <3>3. Cardinality(running_or_queued(q)) + Cardinality(Starting(q)' \cup Resuming)
              <= max_concurrent_jobs[q] + Cardinality(Hosts) - 1
        BY <1>a, <2>2, <2>6, <3>1, RoomCounted, FS_CardinalityType
      <3>4. Cardinality(Live(q)) <= Cardinality(running_or_queued(q)) + Cardinality(Resuming)
        BY LiveCounted
      <3>5. Live(q)' \in SUBSET Live(q) /\ IsFiniteSet(Live(q))
        BY <2>b, FiniteCounts
      <3>6. Cardinality(Live(q)') <= Cardinality(Live(q)) /\ IsFiniteSet(Live(q)')
        BY <3>5, FS_Subset
      <3>7. /\ Cardinality(Live(q)) \in Nat /\ Cardinality(Live(q)') \in Nat /\ Cardinality(Resuming) \in Nat
            /\ Cardinality(Starting(q)') \in Nat /\ Cardinality(running_or_queued(q)) \in Nat
            /\ Cardinality(Hosts) \in Nat
        <4>1. IsFiniteSet(Starting(q)') /\ IsFiniteSet(Resuming)
          BY <3>1, FS_Subset, DelegationAssumption
        <4> QED BY <1>a, <3>5, <3>6, <4>1, FS_CardinalityType, DelegationAssumption
      <3>8. Cardinality(Live(q)') + Cardinality(Starting(q)') <= max_concurrent_jobs[q] + Cardinality(Hosts) - 1
        BY <1>a, <3>2, <3>3, <3>4, <3>6, <3>7
      <3> QED BY <2>4, <3>8 DEF JobRoom
    <2> QED BY <2>5, <2>6
  <1>3. ASSUME NEW h \in Hosts, InsertGroup(h) PROVE JobRoom(q)' /\ GroupRoom(q)'
    <2> DEFINE g == calls[h].slug
               p == calls[h].profile
    <2>1. /\ Goto(h, NoCall) /\ UNCHANGED specialist_jobs /\ calls[h].pc = "create" /\ g \in GroupSlugs
          /\ \/ agent_groups[g] = None /\ agent_groups' = [agent_groups EXCEPT ![g] = p]
             \/ UNCHANGED agent_groups
      BY <1>3 DEF InsertGroup, TypeInv, CallsOK, CallOK
    <2>2. Starting(q)' \subseteq Starting(q) /\ Creating(q)' \subseteq Creating(q) \ {h}
      BY <2>1, OnTheWay, NoCallTyped
    <2>3. Live(q)' \subseteq Live(q)
      BY <2>1, NoCallTyped, LiveKept
    <2>4. JobRoom(q)'
      BY <1>0, <2>2, <2>3, JobRoomShrinks
    <2>5. CASE p = q
      <3>1. h \in Creating(q) /\ specialist_groups(q)' \subseteq specialist_groups(q) \cup {g}
        BY <2>1, <2>5 DEF Creating, specialist_groups, TypeInv, DelegationTypeOK
      <3> HIDE DEF g, p
      <3> QED BY <1>0, <2>2, <2>4, <3>1, GroupRoomShifts
    <2>6. CASE p # q
      <3>1. specialist_groups(q)' \subseteq specialist_groups(q)
        BY <2>1, <2>6 DEF specialist_groups, TypeInv, DelegationTypeOK
      <3> QED BY <1>0, <2>2, <2>4, <3>1, GroupRoomShrinks
    <2> QED BY <2>5, <2>6
  <1>4. ASSUME NEW h \in Hosts, InsertJob(h) PROVE JobRoom(q)' /\ GroupRoom(q)'
    <2> DEFINE j == calls[h].job
               p == calls[h].profile
               row == NewRow(h)
    <2>1. /\ Goto(h, NoCall) /\ UNCHANGED agent_groups /\ calls[h].pc = "start" /\ j \in Jobs
          /\ row.profile_id = p
          /\ \/ specialist_jobs' = [specialist_jobs EXCEPT ![j] = row]
             \/ UNCHANGED specialist_jobs
      BY <1>4, InsertJobStep
    <2>2. Creating(q)' \subseteq Creating(q) /\ Starting(q)' \subseteq Starting(q) \ {h}
      BY <2>1, OnTheWay, NoCallTyped
    <2>3. specialist_groups(q)' = specialist_groups(q)
      BY <2>1 DEF specialist_groups
    <2>4. GroupRoom(q)'
      BY <1>0, <2>2, <2>3, GroupRoomShrinks
    <2>a. \A i \in Jobs : \/ specialist_jobs'[i] = specialist_jobs[i]
                          \/ i = j /\ specialist_jobs'[i].profile_id = p
      <3> HIDE DEF j, p, row
      <3> QED BY <2>1 DEF TypeInv, DelegationTypeOK
    <2>c. \A g \in Resuming' : g \in Resuming /\ calls'[g] = calls[g]
      BY <2>1, NoCallTyped DEF Resuming, Goto, TypeInv, DelegationTypeOK
    <2>5. CASE p = q
      <3>1. h \in Starting(q)
        BY <2>1, <2>5 DEF Starting
      <3> HIDE DEF j, p, row
      <3>2. Live(q)' \subseteq Live(q) \cup {j}
        BY <2>a, <2>c DEF Live, Exists
      <3> QED BY <1>0, <2>2, <2>4, <3>1, <3>2, JobRoomShifts
    <2>6. CASE p # q
      <3> HIDE DEF j, p, row
      <3>1. Live(q)' \subseteq Live(q)
        BY <2>a, <2>c, <2>6 DEF Live, Exists
      <3> QED BY <1>0, <2>2, <2>4, <3>1, JobRoomShrinks
    <2> QED BY <2>5, <2>6
  <1>5. ASSUME NEW h \in Hosts, UpdateStatus(h) PROVE JobRoom(q)' /\ GroupRoom(q)'
    <2>1. PICK j \in Jobs, s \in InFlight, next \in JobStatus, event \in Events, row \in JobRow :
             Moves(h, j, s, next, event, row)
      BY <1>5, UpdateStatusStep
    <2>2. Starting(q)' \subseteq Starting(q) /\ Creating(q)' \subseteq Creating(q)
      BY <2>1, OnTheWay, NoCallTyped DEF Moves
    <2>3. Live(q)' \subseteq Live(q)
      <3>1. \A g \in Resuming' : g \in Resuming /\ calls'[g] = calls[g]
        BY <2>1, NoCallTyped DEF Moves, Resuming, Goto, TypeInv, DelegationTypeOK
      <3>2. next \in InFlight => h \in Resuming /\ calls[h].job = j
        BY <2>1, TransitionTyped DEF Moves, Resuming, InFlight
      <3>3. \A i \in Jobs : \/ specialist_jobs'[i] = specialist_jobs[i]
                             \/ /\ i = j /\ specialist_jobs'[i] = row /\ Exists(i)
                                /\ row.profile_id = specialist_jobs[i].profile_id /\ row.status = next
        BY <2>1 DEF Moves, TypeInv, DelegationTypeOK
      <3> QED BY <3>1, <3>2, <3>3 DEF Live, Exists
    <2>4. specialist_groups(q)' = specialist_groups(q)
      BY <2>1 DEF Moves, specialist_groups
    <2> QED BY <1>0, <2>2, <2>3, <2>4, JobRoomShrinks, GroupRoomShrinks
  <1>6. ASSUME NEW h \in Hosts, NEW j \in Jobs, RequestCancel(h, j) PROVE JobRoom(q)' /\ GroupRoom(q)'
    <2>1. PICK row \in JobRow :
             /\ Exists(j)
             /\ row.status = specialist_jobs[j].status
             /\ row.profile_id = specialist_jobs[j].profile_id
             /\ specialist_jobs' = [specialist_jobs EXCEPT ![j] = row]
             /\ UNCHANGED <<agent_groups, calls>>
      BY <1>6, RequestCancelStep
    <2>2. Starting(q)' = Starting(q) /\ Creating(q)' = Creating(q) /\ specialist_groups(q)' = specialist_groups(q)
      BY <2>1 DEF Starting, Creating, specialist_groups
    <2>3. Live(q)' \subseteq Live(q)
      <3>1. specialist_jobs'[j] = row /\ \A i \in Jobs : i # j => specialist_jobs'[i] = specialist_jobs[i]
        BY <2>1 DEF TypeInv, DelegationTypeOK
      <3>2. Resuming' = Resuming /\ calls' = calls
        BY <2>1 DEF Resuming
      <3> QED BY <2>1, <3>1, <3>2 DEF Live, Exists
    <2> QED BY <1>0, <2>2, <2>3, JobRoomShrinks, GroupRoomShrinks
  <1>7. ASSUME UNCHANGED <<agent_groups, specialist_jobs>>, UNCHANGED calls
        PROVE  JobRoom(q)' /\ GroupRoom(q)'
    <2>1. Live(q)' = Live(q) /\ specialist_groups(q)' = specialist_groups(q)
      BY <1>7 DEF Live, Resuming, specialist_groups, Exists
    <2>2. Starting(q)' = Starting(q) /\ Creating(q)' = Creating(q)
      BY <1>7 DEF Starting, Creating
    <2> QED BY <1>0, <2>1, <2>2, JobRoomShrinks, GroupRoomShrinks
  <1>8. ASSUME NEW h \in Hosts, NEW call, Goto(h, call), UNCHANGED <<agent_groups, specialist_jobs>>,
               call.pc \notin {"start", "create"},
               call.pc = "update" /\ call.status = "running" => specialist_jobs[call.job].status \in InFlight
        PROVE  JobRoom(q)' /\ GroupRoom(q)'
    <2>1. Live(q)' \subseteq Live(q)
      BY <1>8, LiveKept
    <2>2. Starting(q)' \subseteq Starting(q) /\ Creating(q)' \subseteq Creating(q)
      BY <1>8, OnTheWay
    <2>3. specialist_groups(q)' = specialist_groups(q)
      BY <1>8 DEF specialist_groups
    <2> QED BY <1>0, <2>1, <2>2, <2>3, JobRoomShrinks, GroupRoomShrinks
  <1>b. ASSUME NEW h \in Hosts, HostCrash(h) PROVE JobRoom(q)' /\ GroupRoom(q)'
    BY <1>8, <1>b, NoCallTyped DEF HostCrash, db
  <1>9. ASSUME NEW h \in Hosts, NEW j \in Jobs, NEW event \in Events, TransitionJob(h, j, event)
        PROVE  JobRoom(q)' /\ GroupRoom(q)'
    <2>1. PICK next \in JobStatus :
            /\ Goto(h, [NoCall EXCEPT !.pc = "update", !.job = j, !.status = next])
            /\ <<specialist_jobs[j].status, event, next>> \in transition
      BY <1>9 DEF TransitionJob
    <2> DEFINE call == [NoCall EXCEPT !.pc = "update", !.job = j, !.status = next]
    <2>2. call.pc = "update" /\ call.job = j
      BY DEF NoCall
    <2>3. UNCHANGED <<agent_groups, specialist_jobs>> /\ Goto(h, call)
      BY <1>9, <2>1 DEF TransitionJob, db
    <2>4. specialist_jobs[j].status \in InFlight
      BY <2>1, TransitionTyped
    <2> HIDE DEF call
    <2> QED BY <1>8, <2>2, <2>3, <2>4
  <1>10. ASSUME NEW h \in Hosts, NEW j \in Jobs, AddRunLink(h, j) PROVE JobRoom(q)' /\ GroupRoom(q)'
    BY <1>7, <1>10 DEF AddRunLink
  <1>11. CASE UNCHANGED delegationVars
    BY <1>7, <1>11 DEF delegationVars, db
  <1> QED
    BY <1>1, <1>2, <1>3, <1>4, <1>5, <1>6, <1>b, <1>9, <1>10, <1>11 DEF DelegationNext, GroupNext, JobNext

(* What LimitsBounded counts is what start_job counts. *)
LEMMA RoomBounds == TypeInv /\ RoomInv => LimitsBounded
PROOF
  <1> DEFINE open(p) == {j \in Jobs : specialist_jobs[j].profile_id = p
                                     /\ specialist_jobs[j].status \in InFlight}
  <1> SUFFICES ASSUME TypeInv, RoomInv, NEW p \in Registered
               PROVE  /\ Cardinality(open(p)) <= max_concurrent_jobs[p] + (Cardinality(Hosts) - 1)
                      /\ Cardinality(specialist_groups(p)) <= max_specialists[p] + (Cardinality(Hosts) - 1)
    BY DEF LimitsBounded
  <1>1. open(p) \in SUBSET Live(p)
    <2>1. \A j \in Jobs : specialist_jobs[j].profile_id = p => Exists(j)
      BY ExistsRow, DelegationAssumption DEF TypeInv, NoRow
    <2> QED BY <2>1 DEF Live
  <1> HIDE DEF open
  <1>a. Cardinality(open(p)) <= Cardinality(Live(p)) /\ IsFiniteSet(open(p))
    BY <1>1, FiniteCounts, FS_Subset
  <1>2. JobRoom(p) /\ GroupRoom(p)
    BY DEF RoomInv
  <1>3. /\ Cardinality(Starting(p)) \in Nat /\ Cardinality(Creating(p)) \in Nat
        /\ Cardinality(Live(p)) \in Nat /\ Cardinality(specialist_groups(p)) \in Nat
        /\ Cardinality(Hosts) \in Nat /\ Cardinality(open(p)) \in Nat
        /\ max_concurrent_jobs[p] \in Nat /\ max_specialists[p] \in Nat
    BY <1>a, FiniteCounts, FS_CardinalityType, DelegationAssumption
  <1> QED BY <1>a, <1>2, <1>3 DEF JobRoom, GroupRoom

(* LimitsBounded in every state of every behaviour: however the hosts       *)
(* interleave their counts and inserts, their loads and updates, a profile  *)
(* is over its limit of jobs or groups by at most one for each host but one.*)
THEOREM LimitsOverrunBounded == DelegationSpec => []LimitsBounded
PROOF
  <1>1. DelegationInit => TypeInv /\ RoomInv
    BY TypeInvInit, RoomInit
  <1>2. TypeInv /\ RoomInv /\ [DelegationNext]_delegationVars => (TypeInv /\ RoomInv)'
    BY TypeInvStep, RoomStep
  <1>3. TypeInv /\ RoomInv => LimitsBounded
    BY RoomBounds
  <1> QED BY <1>1, <1>2, <1>3, PTL DEF DelegationSpec

-----------------------------------------------------------------------------
(* Refinement of the job board *)

\* What the board shows of the table.
CardOf(j) == [profile |-> specialist_jobs[j].profile_id, stage |-> Stage(j), takers |-> takers[j]]

Cards == [j \in Jobs |-> CardOf(j)]

(* A rewritten row is a rewritten card. *)
LEMMA CardRewritten ==
    ASSUME TypeInv, NEW j \in Jobs, NEW row \in JobRow, NEW who,
           specialist_jobs' = [specialist_jobs EXCEPT ![j] = row], takers' = [takers EXCEPT ![j] = who]
    PROVE  Cards' = [Cards EXCEPT ![j] = [profile |-> row.profile_id, stage |-> row.status, takers |-> who]]
PROOF
  <1>1. /\ specialist_jobs'[j] = row /\ \A i \in Jobs : i # j => specialist_jobs'[i] = specialist_jobs[i]
        /\ takers'[j] = who /\ \A i \in Jobs : i # j => takers'[i] = takers[i]
    BY DEF TypeInv, DelegationTypeOK
  <1>2. CardOf(j)' = [profile |-> row.profile_id, stage |-> row.status, takers |-> who]
    BY <1>1, RowExists DEF CardOf, Stage, Exists
  <1>3. \A i \in Jobs : i # j => CardOf(i)' = CardOf(i)
    BY <1>1 DEF CardOf, Stage, Exists
  <1> HIDE DEF CardOf
  <1> QED BY <1>2, <1>3 DEF Cards

(* The board has within its bound what the table has. *)
LEMMA BoardRoom ==
    ASSUME TypeInv', RoomInv', NEW p \in Registered
    PROVE  Board!Cardinality(Board!OpenJobs(Cards', p))
              <= [q \in Registered |-> max_concurrent_jobs[q] + Cardinality(Hosts) - 1][p]
PROOF
  <1>1. Board!OpenJobs(Cards', p) \in SUBSET (Live(p)')
    <2>1. \A i \in Jobs : (CardOf(i)').stage \in {"queued", "running"} =>
                            Exists(i)' /\ specialist_jobs'[i].status \in InFlight
      BY DEF CardOf, Stage, InFlight
    <2>2. \A i \in Jobs : (CardOf(i)').profile = specialist_jobs'[i].profile_id
      BY DEF CardOf
    <2>3. \A i \in Jobs : Cards'[i] = CardOf(i)'
      BY DEF Cards
    <2>4. Board!OpenJobs(Cards', p) =
            {i \in Jobs : (CardOf(i)').profile = p /\ (CardOf(i)').stage \in {"queued", "running"}}
      BY <2>3 DEF Board!OpenJobs, Board!Posted
    <2> QED BY <2>1, <2>2, <2>4 DEF Live
  <1>2. IsFiniteSet(Live(p)') /\ IsFiniteSet(Starting(p)')
    <2>1. Live(p)' \subseteq Jobs /\ Starting(p)' \subseteq Hosts
      BY DEF Live, Starting
    <2> QED BY <2>1, FS_Subset, DelegationAssumption
  <1>3. Cardinality(Board!OpenJobs(Cards', p)) <= Cardinality(Live(p)') /\ IsFiniteSet(Board!OpenJobs(Cards', p))
    BY <1>1, <1>2, FS_Subset
  <1>4. /\ Cardinality(Live(p)') \in Nat /\ Cardinality(Starting(p)') \in Nat
        /\ Cardinality(Board!OpenJobs(Cards', p)) \in Nat
        /\ Cardinality(Hosts) \in Nat /\ max_concurrent_jobs[p] \in Nat
    BY <1>2, <1>3, FS_CardinalityType, DelegationAssumption
  <1>5. Cardinality(Live(p)') + Cardinality(Starting(p)') <= max_concurrent_jobs[p] + Cardinality(Hosts) - 1
    BY DEF RoomInv, JobRoom
  <1>6. Board!Cardinality(Board!OpenJobs(Cards', p)) = Cardinality(Board!OpenJobs(Cards', p))
    BY DEF Board!Cardinality, Cardinality
  <1> QED BY <1>3, <1>4, <1>5, <1>6

LEMMA BoardInit == DelegationInit => Board!Init
PROOF
  <1> SUFFICES ASSUME DelegationInit PROVE Board!Init
    OBVIOUS
  <1>1. \A j \in Jobs : CardOf(j) = [profile |-> None, stage |-> "absent", takers |-> {}]
    BY DEF DelegationInit, CardOf, Stage, Exists, NoRow
  <1>2. Cards \in [Jobs -> Board!Blank]
    BY <1>1 DEF Cards, Board!Blank
  <1> QED BY <1>2 DEF Board!Init, Cards, CardOf

LEMMA BoardInsertJob ==
    ASSUME TypeInv, TypeInv', RoomInv', NEW h \in Hosts, InsertJob(h)
    PROVE  [Board!Next]_(Cards)
PROOF
  <1>1. PICK j \in Jobs, p \in Registered, row \in JobRow :
          /\ row.status = "queued" /\ row.profile_id = p /\ UNCHANGED takers
          /\ \/ ~Exists(j) /\ specialist_jobs' = [specialist_jobs EXCEPT ![j] = row]
             \/ UNCHANGED specialist_jobs
    BY InsertJobStep
  <1>2. CASE UNCHANGED specialist_jobs
    BY <1>1, <1>2 DEF Cards, CardOf, Stage, Exists
  <1>3. CASE ~Exists(j) /\ specialist_jobs' = [specialist_jobs EXCEPT ![j] = row]
    <2>1. Cards[j].stage = "absent" /\ takers[j] = {}
      BY <1>1, <1>3 DEF Cards, CardOf, Stage, TypeInv, AbsentOK
    <2>2. Cards' = [Cards EXCEPT ![j] = [profile |-> p, stage |-> "queued", takers |-> {}]]
      <3>1. takers' = [takers EXCEPT ![j] = {}]
        BY <1>1, <2>1 DEF TypeInv, DelegationTypeOK
      <3> QED BY <1>1, <1>3, <3>1, CardRewritten
    <2>3. Board!Post(j, p)
      <3>1. [i \in Jobs |-> [profile |-> specialist_jobs[i].profile_id, stage |-> Stage(i), takers |-> takers[i]]] = Cards
        BY DEF Cards, CardOf
      <3>2. [i \in Jobs |-> [profile |-> specialist_jobs[i].profile_id, stage |-> Stage(i), takers |-> takers[i]]]' = Cards'
        BY DEF Cards, CardOf
      <3> QED BY <2>1, <2>2, <3>1, <3>2, BoardRoom, Zenon DEF Board!Post
    <2>4. p \in Registered \cup {None}
      OBVIOUS
    <2> QED BY <2>3, <2>4 DEF Board!Next
  <1> QED BY <1>1, <1>2, <1>3

(* What a host may have loaded is what the board says it may have seen. *)
LEMMA LoadedIsSeen ==
    ASSUME TypeInv, NEW j \in Jobs, Exists(j), NEW s \in Loaded(j)
    PROVE  s \in Board!Seen(Cards[j])
PROOF
  <1>1. Cards[j] = [profile |-> specialist_jobs[j].profile_id, stage |-> specialist_jobs[j].status, takers |-> takers[j]]
    BY DEF Cards, CardOf, Stage
  <1>2. specialist_jobs[j].status \in JobStatus /\ "absent" \notin JobStatus
    BY ExistsRow DEF TypeInv, JobRow, JobStatus
  <1>3. Board!Cardinality(Hosts) = Cardinality(Hosts)
    BY DEF Board!Cardinality, Cardinality
  <1> QED BY <1>1, <1>2, <1>3 DEF Loaded, Board!Seen, Board!Posted, Board!Alone, InFlight

LEMMA BoardUpdateStatus ==
    ASSUME TypeInv, TypeInv', RoomInv', NEW h \in Hosts, UpdateStatus(h)
    PROVE  [Board!Next]_(Cards)
PROOF
  <1>1. PICK j \in Jobs, s \in InFlight, next \in JobStatus, event \in Events, row \in JobRow :
             Moves(h, j, s, next, event, row)
    BY UpdateStatusStep
  <1> DEFINE who == IF next = "running" THEN takers[j] \cup {h} ELSE takers[j]
             p == specialist_jobs[j].profile_id
  <1>2. Cards' = [Cards EXCEPT ![j] = [profile |-> p, stage |-> next, takers |-> who]]
    <2>1. takers' = [takers EXCEPT ![j] = who]
      BY <1>1 DEF Moves
    <2>2. row.status = next /\ row.profile_id = p
      BY <1>1 DEF Moves
    <2>3. specialist_jobs' = [specialist_jobs EXCEPT ![j] = row]
      BY <1>1 DEF Moves
    <2> HIDE DEF who, p
    <2>4. Cards' = [Cards EXCEPT ![j] = [profile |-> row.profile_id, stage |-> row.status, takers |-> who]]
      BY <2>1, <2>3, CardRewritten
    <2> QED BY <2>2, <2>4
  <1>3. Cards[j] = [profile |-> p, stage |-> specialist_jobs[j].status, takers |-> takers[j]] /\ p \in Registered
    BY <1>1 DEF Moves, Cards, CardOf, Stage, JobRow
  <1>4. s \in Board!Seen(Cards[j])
    BY <1>1, LoadedIsSeen DEF Moves
  <1>5. /\ next # "queued"
        /\ next = "running" => s = "queued" /\ h \notin takers[j]
        /\ next \in {"succeeded", "partial_result"} => s = "running"
    BY <1>1, TransitionTyped DEF Moves
  <1>a. [i \in Jobs |-> [profile |-> specialist_jobs[i].profile_id, stage |-> Stage(i), takers |-> takers[i]]] = Cards
    BY DEF Cards, CardOf
  <1>b. [i \in Jobs |-> [profile |-> specialist_jobs[i].profile_id, stage |-> Stage(i), takers |-> takers[i]]]' = Cards'
    BY DEF Cards, CardOf
  <1> HIDE DEF p
  <1>6. CASE next = "running"
    <2>1. Cards' = [Cards EXCEPT ![j] = [profile |-> @.profile, stage |-> "running", takers |-> @.takers \cup {h}]]
      <3>1. Cards[j].profile = p /\ Cards[j].takers \cup {h} = who
        BY <1>3, <1>6
      <3> HIDE DEF who
      <3> QED BY <1>2, <1>6, <3>1, Zenon
    <2>2. Board!Cardinality(Board!OpenJobs(Cards', Cards[j].profile))
            <= [q \in Registered |-> max_concurrent_jobs[q] + Cardinality(Hosts) - 1][Cards[j].profile]
      BY <1>3, BoardRoom
    <2>3. h \notin Cards[j].takers /\ "queued" \in Board!Seen(Cards[j])
      BY <1>3, <1>4, <1>5, <1>6
    <2>4. Board!Run(j, h)
      BY <1>a, <1>b, <2>1, <2>2, <2>3, Zenon DEF Board!Run
    <2> QED BY <2>4 DEF Board!Next
  <1>7. CASE next # "running"
    <2>1. Cards' = [Cards EXCEPT ![j].stage = next]
      <3>1. [Cards[j] EXCEPT !.stage = next] = [profile |-> p, stage |-> next, takers |-> who]
        BY <1>3, <1>7
      <3>2. [Cards EXCEPT ![j].stage = next] = [Cards EXCEPT ![j] = [Cards[j] EXCEPT !.stage = next]]
        BY Zenon
      <3> QED BY <1>2, <3>1, <3>2, Zenon
    <2>2. CASE next \in {"succeeded", "partial_result"}
      <3>1. Board!Answer(j, next)
        BY <1>4, <1>5, <1>a, <1>b, <2>1, <2>2, Zenon DEF Board!Answer, Board!Answered
      <3> QED BY <2>2, <3>1 DEF Board!Next, Board!Answered
    <2>3. CASE next \in {"cancelled", "timed_out", "failed"}
      <3>1. Board!Seen(Cards[j]) # {}
        BY <1>4
      <3>2. Board!Stop(j, next)
        BY <1>a, <1>b, <2>1, <2>3, <3>1, Zenon DEF Board!Stop, Board!Stopped
      <3> QED BY <2>3, <3>2 DEF Board!Next, Board!Stopped
    <2> QED BY <1>5, <1>7, <2>2, <2>3 DEF JobStatus
  <1> QED BY <1>6, <1>7

LEMMA BoardRequestCancel ==
    ASSUME TypeInv, NEW h \in Hosts, NEW j \in Jobs, RequestCancel(h, j)
    PROVE  Cards' = Cards
PROOF
  <1>1. PICK row \in JobRow :
             /\ Exists(j) /\ specialist_jobs[j] \in JobRow
             /\ row.status = specialist_jobs[j].status
             /\ row.profile_id = specialist_jobs[j].profile_id
             /\ specialist_jobs' = [specialist_jobs EXCEPT ![j] = row]
             /\ UNCHANGED <<agent_groups, specialist_job_runs, calls, crashes, takers>>
    BY RequestCancelStep
  <1>2. Cards' = [Cards EXCEPT ![j] = [profile |-> row.profile_id, stage |-> row.status, takers |-> takers[j]]]
    <2>1. takers' = [takers EXCEPT ![j] = takers[j]]
      BY <1>1 DEF TypeInv, DelegationTypeOK
    <2> QED BY <1>1, <2>1, CardRewritten
  <1>3. Cards[j] = [profile |-> row.profile_id, stage |-> row.status, takers |-> takers[j]]
    BY <1>1 DEF Cards, CardOf, Stage
  <1>4. Cards \in [Jobs -> {Cards[i] : i \in Jobs}]
    BY DEF Cards
  <1> QED BY <1>2, <1>3, <1>4

LEMMA BoardStep ==
    TypeInv /\ RoomInv /\ TypeInv' /\ RoomInv' /\ [DelegationNext]_delegationVars => [Board!Next]_(Cards)
PROOF
  <1> SUFFICES ASSUME TypeInv, RoomInv, TypeInv', RoomInv', [DelegationNext]_delegationVars
               PROVE  [Board!Next]_(Cards)
    OBVIOUS
  <1>1. ASSUME NEW h \in Hosts, InsertJob(h) PROVE [Board!Next]_(Cards)
    BY <1>1, BoardInsertJob
  <1>2. ASSUME NEW h \in Hosts, UpdateStatus(h) PROVE [Board!Next]_(Cards)
    BY <1>2, BoardUpdateStatus
  <1>3. ASSUME NEW h \in Hosts, NEW j \in Jobs, RequestCancel(h, j) PROVE [Board!Next]_(Cards)
    BY <1>3, BoardRequestCancel
  <1>4. ASSUME UNCHANGED <<specialist_jobs, takers>> PROVE [Board!Next]_(Cards)
    BY <1>4 DEF Cards, CardOf, Stage, Exists
  <1>5. \/ \E h \in Hosts : InsertJob(h) \/ UpdateStatus(h) \/ \E j \in Jobs : RequestCancel(h, j)
        \/ UNCHANGED <<specialist_jobs, takers>>
    BY DEF DelegationNext, GroupNext, JobNext, CreateSpecialist, StartJob, InsertGroup, HostCrash,
           TransitionJob, AddRunLink, delegationVars, db
  <1> QED BY <1>1, <1>2, <1>3, <1>4, <1>5

(* ImplementsJobBoard: hosts that load, update and crash over one database, *)
(* in any number, implement the job board.  A job is posted once and within *)
(* the overrun bound, is taken up at most once by each host, and is         *)
(* answered only after it was taken up.  A host that is alone ends it once  *)
(* and for good.                                                            *)
THEOREM JobBoardImplemented == DelegationSpec => ImplementsJobBoard
PROOF
  <1>1. DelegationInit => TypeInv /\ RoomInv /\ Board!Init
    BY TypeInvInit, RoomInit, BoardInit
  <1>2. TypeInv /\ RoomInv /\ [DelegationNext]_delegationVars => (TypeInv /\ RoomInv)'
    BY TypeInvStep, RoomStep
  <1>3. TypeInv /\ RoomInv /\ TypeInv' /\ RoomInv' /\ [DelegationNext]_delegationVars
          => [Board!Next]_(Cards)
    BY BoardStep
  <1> QED
    BY <1>1, <1>2, <1>3, PTL DEF DelegationSpec, ImplementsJobBoard, Board!Spec, Cards, CardOf

-----------------------------------------------------------------------------
(* EndedIsFinal for a host that is alone: what it loaded is what it writes  *)
(* over, so no job that ended moves again.                                  *)
THEOREM AloneEndsForGood ==
    ASSUME Cardinality(Hosts) = 1
    PROVE  DelegationSpec => EndedIsFinal
PROOF
  <1> DEFINE Final == \A j \in Jobs : Stage(j) \in Terminal => Stage(j)' = Stage(j)
  <1>1. DelegationInit => TypeInv
    BY TypeInvInit
  <1>2. TypeInv /\ [DelegationNext]_delegationVars => TypeInv'
    BY TypeInvStep
  <1>3. TypeInv /\ [DelegationNext]_delegationVars => Final
    <2> SUFFICES ASSUME TypeInv, [DelegationNext]_delegationVars PROVE Final
      OBVIOUS
    <2>1. ASSUME NEW h \in Hosts, UpdateStatus(h) PROVE Final
      <3>1. PICK j \in Jobs, s \in InFlight, next \in JobStatus, event \in Events, row \in JobRow :
               Moves(h, j, s, next, event, row)
        BY <2>1, UpdateStatusStep
      <3>2. Stage(j) \notin Terminal
        BY <3>1 DEF Moves, Loaded, Stage, Terminal, InFlight
      <3>3. \A i \in Jobs : i # j => specialist_jobs'[i] = specialist_jobs[i]
        BY <3>1 DEF Moves, TypeInv, DelegationTypeOK
      <3> QED BY <3>2, <3>3 DEF Stage, Exists
    <2>2. ASSUME NEW h \in Hosts, InsertJob(h) PROVE Final
      <3>1. PICK j \in Jobs, row \in JobRow :
              \/ ~Exists(j) /\ specialist_jobs' = [specialist_jobs EXCEPT ![j] = row]
              \/ UNCHANGED specialist_jobs
        BY <2>2, InsertJobStep
      <3>2. ~Exists(j) => Stage(j) \notin Terminal
        BY DEF Stage, Terminal, JobStatus
      <3>3. \A i \in Jobs : specialist_jobs'[i] = specialist_jobs[i] \/ (i = j /\ ~Exists(j))
        BY <3>1 DEF TypeInv, DelegationTypeOK
      <3> QED BY <3>2, <3>3 DEF Stage, Exists
    <2>3. ASSUME NEW h \in Hosts, NEW j \in Jobs, RequestCancel(h, j) PROVE Final
      <3>1. PICK row \in JobRow :
              /\ Exists(j) /\ row.status = specialist_jobs[j].status
              /\ specialist_jobs' = [specialist_jobs EXCEPT ![j] = row]
        BY <2>3, RequestCancelStep
      <3>2. specialist_jobs'[j] = row /\ \A i \in Jobs : i # j => specialist_jobs'[i] = specialist_jobs[i]
        BY <3>1 DEF TypeInv, DelegationTypeOK
      <3> QED BY <3>1, <3>2, RowExists DEF Stage, Exists
    <2>4. ASSUME UNCHANGED specialist_jobs PROVE Final
      BY <2>4 DEF Stage, Exists
    <2>5. \/ \E h \in Hosts : InsertJob(h) \/ UpdateStatus(h) \/ \E j \in Jobs : RequestCancel(h, j)
          \/ UNCHANGED specialist_jobs
      BY DEF DelegationNext, GroupNext, JobNext, CreateSpecialist, StartJob, InsertGroup, HostCrash,
             TransitionJob, AddRunLink, delegationVars, db
    <2> QED BY <2>1, <2>2, <2>3, <2>4, <2>5
  <1> QED BY <1>1, <1>2, <1>3, PTL DEF DelegationSpec, EndedIsFinal
=============================================================================
