------------------------------ MODULE Observe -------------------------------
(***************************************************************************)
(* Observed and backfilled messages on their way into memory: the gate     *)
(* every one passes and the watermark of a job, which sees a message again *)
(* whenever its batch is retried.  It is a library: the job that runs it   *)
(* is its caller.                                                          *)
(***************************************************************************)
EXTENDS MemoryNotes

CONSTANTS Sources,                  \* provenances: see check_provenance, with chat and user
          Bodies,                   \* sets of markers
          Contexts,                 \* the chats a prompt is put together for
          MaxStored                 \* bound on the notes stored

VARIABLES committed,                \* the watermark
          stored                    \* history: [write, source, text] of what was stored

observeVars == <<committed, stored>>

\* One message of a batch: refused by the gate, or ingested; storing may fail,
\* and the message is then retried.
Ingest(p, source_type, body) ==
    /\ Len(stored) < MaxStored
    /\ \E write \in prepare_observed_write("orchestrator", p, source_type, "medium", body), ok \in BOOLEAN :
       LET done == ingest(committed, write, ok) IN
         /\ committed' = done.committed
         /\ stored' = IF done.outcome = "committed"
                      THEN Append(stored, [write |-> write, source |-> p, text |-> body]) ELSE stored

ObserveInit == committed = {} /\ stored = <<>>

ObserveNext ==
    \E p \in Sources, source_type \in SourceType, body \in Bodies : Ingest(p, source_type, body)

-----------------------------------------------------------------------------
(* Properties *)

\* Whatever is retried and whatever failed before, a version of a message is
\* stored once, and a prompt is given it only in the chat it came from: in its
\* thread if it has one, else its channel, else for its author; never when it
\* reads like an instruction (prepare_observed_write, default_observed_scope,
\* Watermark::ingest, is_eligible).
ObservedStaysHome ==
    /\ \A i, j \in DOMAIN stored :
         stored[i].source = stored[j].source /\ stored[i].text = stored[j].text => i = j
    /\ \A i \in DOMAIN stored : \A ctx \in Contexts :
         is_eligible(stored[i].write.front_matter, ctx) =>
           LET p == stored[i].source IN
             /\ stored[i].text \intersect (HardMarkers \union {"instruction"}) = {}
             /\ p.thread_id # Absent => p.thread_id = ctx.thread_id
             /\ p.chat_id # Absent => p.chat_id = ctx.chat_id /\ p.channel = ctx.channel
             /\ p.source_user_id # Absent /\ p.chat_id = Absent => p.source_user_id = ctx.user_id
=============================================================================
