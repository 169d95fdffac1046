---------------------------- MODULE MemoryNotes -----------------------------
(***************************************************************************)
(* The operators assistant-memory is built from: the markdown note and its *)
(* front matter, the roots that keep agents apart, the taxonomy and the    *)
(* journal, the filter between the catalog and a prompt, the gate in front *)
(* of observed notes, and what the search sidecar answers.  A text is what *)
(* the code tells apart in it; a hash is an injection, a tuple of what it  *)
(* is taken over.                                                          *)
(***************************************************************************)
EXTENDS Naturals, Sequences, FiniteSets, SequencesExt

Absent == "none"                    \* an absent field

-----------------------------------------------------------------------------
(* Notes *)

Scope == {"all_chats", "channel", "thread", "user", "owner_admin", "no_rag"}
SourceType == {"user_said", "observed", "backfilled", "inferred", "imported",
               "specialist_derived", "manual"}
SourceChannel == {"slack", "telegram", "cli", "agent", "system"}
Confidence == {"high", "medium", "low", "unknown"}
ReusePolicy == {"same_scope", "broader_ok", "cite_only", "no_rag"}
Retention == {"normal", "ephemeral", "archive_only"}

NoSource == [channel |-> Absent, chat_id |-> Absent, thread_id |-> Absent]

\* The memory id is stable for a text and apart for every owner.
generate_memory_id(owner, basis) == <<owner, basis>>

\* The front matter a hand-written file is given: never injected.
manual(owner, body) ==
    [memory_id |-> generate_memory_id(owner, body), owner |-> owner,
     scope |-> "no_rag", source_type |-> "manual", source_ref |-> NoSource,
     source_user_id |-> Absent, confidence |-> "unknown", reuse_policy |-> "no_rag",
     retention |-> "normal"]

\* A file is [yaml, body]: yaml holds the front matter, if the file opens a
\* fence, closes it, and what is between them parses.
split_front_matter(raw) == <<raw.yaml, raw.body>>

parse(raw) ==
    {[front_matter |-> fm, body |-> split_front_matter(raw)[2]] : fm \in split_front_matter(raw)[1]}

normalize(raw, owner) ==
    IF parse(raw) # {} THEN CHOOSE d \in parse(raw) : TRUE
    ELSE [front_matter |-> manual(owner, raw.body), body |-> raw.body]

to_markdown(doc) == [yaml |-> {doc.front_matter}, body |-> doc.body]

\* An archived note leaves a pointer of the same id that is never injected.
archive_pointer(original, target) ==
    [front_matter |-> [original EXCEPT !.scope = "no_rag", !.reuse_policy = "no_rag",
                                       !.retention = "archive_only"],
     body |-> target]

read_archive_pointer(doc) ==
    IF doc.front_matter.retention # "archive_only" THEN Absent ELSE doc.body

-----------------------------------------------------------------------------
(* Roots, taxonomy, journal: a path is [absolute, segs]. *)

is_safe_segment(s) == s \notin {"", "..", "."}

lexically_contained(p) ==
    ~p.absolute /\ p.segs # <<>> /\ \A i \in DOMAIN p.segs : p.segs[i] # ".."

orchestrator_root == <<"groups", "orchestrator", "memory">>

specialist_root(folder) ==
    IF is_safe_segment(folder) THEN <<"groups", "specialists", folder, "memory">> ELSE Absent

resolve(root, p) == IF lexically_contained(p) THEN root \o p.segs ELSE Absent

confine(root, full) == IsPrefix(root, full) /\ \A i \in DOMAIN full : full[i] # ".."

authorize_owner(root_owner, entry_owner) == root_owner = entry_owner

INDEX_FILE == "INDEX.md"

\* Taxonomy::new: the first bad or repeated category refuses the whole list.
Taxonomy(categories) ==
    LET bad(i) == ~is_safe_segment(categories[i]) \/ categories[i] = INDEX_FILE
        again(i) == \E j \in 1 .. i - 1 : categories[j] = categories[i]
        wrong == {i \in DOMAIN categories : bad(i) \/ again(i)}
    IN IF wrong = {} THEN categories ELSE Absent

scaffold(dirs, taxonomy) == dirs \union {<<taxonomy[i]>> : i \in DOMAIN taxonomy}

\* A journal's lines are blank, date, heading, bullet, empty_bullet or other.
validate_journal_bullet(line) == line = "bullet"

validate_journal(lines) ==
    LET text == SelectSeq(lines, LAMBDA l : l # "blank")
    IN IF text = <<>> THEN "missing_date_heading"
       ELSE IF text[1] # "date" THEN "invalid_date_heading"
       ELSE IF \A i \in 2 .. Len(text) : validate_journal_bullet(text[i]) THEN "valid"
       ELSE "bad_line"

-----------------------------------------------------------------------------
(* Retrieval: an entry is a catalog row, a context the chat a turn runs in. *)

same_channel(e, ctx) ==
    /\ e.source_ref.channel # Absent /\ e.source_ref.channel = ctx.channel
    /\ e.source_ref.chat_id # Absent /\ e.source_ref.chat_id = ctx.chat_id

same_thread(e, ctx) ==
    /\ same_channel(e, ctx)
    /\ e.source_ref.thread_id # Absent /\ e.source_ref.thread_id = ctx.thread_id

same_user(e, ctx) == e.source_user_id # Absent /\ e.source_user_id = ctx.user_id

scope_matches(e, ctx) ==
    CASE e.scope = "all_chats" -> TRUE
      [] e.scope = "channel" -> same_channel(e, ctx)
      [] e.scope = "thread" -> same_thread(e, ctx)
      [] e.scope = "user" -> same_user(e, ctx)
      [] e.scope = "owner_admin" -> ctx.is_owner_admin
      [] OTHER -> FALSE

\* Notes for the owner stay with the owner, whatever their reuse policy.
is_eligible(e, ctx) ==
    /\ e.scope # "no_rag" /\ e.reuse_policy # "no_rag"
    /\ IF e.scope = "owner_admin" THEN ctx.is_owner_admin
       ELSE e.reuse_policy = "broader_ok" \/ scope_matches(e, ctx)

\* The context every turn of the host uses: it matches entries for all chats.
DefaultContext == [channel |-> Absent, chat_id |-> Absent, thread_id |-> Absent,
                   user_id |-> Absent, is_owner_admin |-> FALSE]

ProvenanceLabel(source_type) ==
    IF source_type \in {"observed", "backfilled", "inferred"} THEN source_type ELSE "direct"

from_entry(e) ==
    [memory_id |-> e.memory_id, path |-> e.path, label |-> ProvenanceLabel(e.source_type),
     cite_only |-> e.reuse_policy = "cite_only", snippet |-> Absent]

with_snippet(envelope, snippet) == [envelope EXCEPT !.snippet = snippet]

Smaller(a, b) == IF a < b THEN a ELSE b

\* The limit is taken after the filter.
select_for_injection(candidates, ctx, limit) ==
    LET eligible == SelectSeq(candidates, LAMBDA e : is_eligible(e, ctx))
    IN [i \in 1 .. Smaller(limit, Len(eligible)) |-> from_entry(eligible[i])]

\* Hits in the order of the search, those with an eligible row among a set of
\* candidates and no others.
inject_from_search(candidates, hits, ctx, limit) ==
    LET rows(h) == {e \in candidates : e.memory_id = h.memory_id /\ is_eligible(e, ctx)}
        known == SelectSeq(hits, LAMBDA h : rows(h) # {})
    IN [i \in 1 .. Smaller(limit, Len(known)) |->
          with_snippet(from_entry(CHOOSE e \in rows(known[i]) : TRUE), known[i].snippet)]

\* There is no block when there is nothing to say.
render_memory_block(envelopes, degraded) == envelopes # <<>> \/ degraded

-----------------------------------------------------------------------------
(* The search sidecar *)

\* A file of the corpus is named by the hex of its id, which survives qmd's
\* normalisation; any other file name decodes to nothing.
corpus_stem_for_memory_id(id) == <<"hex", id>>

memory_id_from_stem(stem) == IF stem[1] = "hex" THEN {stem[2]} ELSE {}

\* What is printed: empty, malformed, an error, no hits field, or the hits as
\* <<stem, snippet>>.
parse_qmd_response(out) ==
    IF out.kind # "hits" THEN [degraded |-> TRUE, hits |-> <<>>]
    ELSE LET usable == SelectSeq(out.hits, LAMBDA h : memory_id_from_stem(h[1]) # {})
         IN [degraded |-> FALSE,
             hits |-> [i \in DOMAIN usable |->
                         [memory_id |-> CHOOSE m \in memory_id_from_stem(usable[i][1]) : TRUE,
                          snippet |-> usable[i][2]]]]

\* The answer to embed and to status: a count of notes, or a reason.
parse_status_response(out) ==
    IF out.kind = "indexed" /\ out.count > 0 THEN "healthy" ELSE "degraded"

-----------------------------------------------------------------------------
(* Observed and backfilled notes: a body is the set of markers found in it. *)

HardMarkers == {"credential", "action", "channel_send", "approval"}

check_provenance(p) == \A f \in {"job_id", "version", "message_id", "captured_at"} : p[f] # Absent

observe_dedupe_key(p, body) ==
    <<p.channel, p.chat_id, p.thread_id, p.message_id, p.version, body>>

(* Mutant: a note from a thread is reused in the whole channel. *)
MutantThreadWide(p) ==
    IF p.chat_id # Absent THEN "channel"
    ELSE IF p.source_user_id # Absent THEN "user" ELSE "all_chats"

default_observed_scope(p) ==
    IF p.thread_id # Absent THEN "thread"
    ELSE IF p.chat_id # Absent THEN "channel"
    ELSE IF p.source_user_id # Absent THEN "user" ELSE "all_chats"

quote_as_evidence(body) == body \union {"quoted"}

\* The accepted write, if any: text shaped like an instruction is quoted and
\* kept out of every prompt.
prepare_observed_write(owner, p, source_type, confidence, body) ==
    LET coerced == "instruction" \in body
        key == observe_dedupe_key(p, body)
    IN IF \/ source_type \notin {"observed", "backfilled"}
          \/ ~check_provenance(p)
          \/ body \intersect HardMarkers # {}
       THEN {}
       ELSE {[front_matter |->
                [memory_id |-> generate_memory_id(owner, key), owner |-> owner,
                 scope |-> IF coerced THEN "no_rag" ELSE default_observed_scope(p),
                 source_type |-> source_type,
                 source_ref |-> [channel |-> p.channel, chat_id |-> p.chat_id,
                                 thread_id |-> p.thread_id],
                 source_user_id |-> p.source_user_id,
                 confidence |-> IF coerced THEN "low" ELSE confidence,
                 reuse_policy |-> IF coerced THEN "cite_only" ELSE "same_scope",
                 retention |-> "normal"],
              body |-> IF coerced THEN quote_as_evidence(body) ELSE body,
              dedupe_key |-> key]}

\* The watermark moves only when the note was stored.
ingest(committed, write, stored_ok) ==
    IF write.dedupe_key \in committed THEN [outcome |-> "duplicate", committed |-> committed]
    ELSE IF stored_ok
         THEN [outcome |-> "committed", committed |-> committed \union {write.dedupe_key}]
         ELSE [outcome |-> "failed", committed |-> committed]
=============================================================================
