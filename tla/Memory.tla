------------------------------- MODULE Memory -------------------------------
(***************************************************************************)
(* The memory of an instance: markdown notes on disk, the catalog of their *)
(* front matter in the central database, and the index of the search       *)
(* sidecar.  Three threads share them: the daemon's turns, which retrieve  *)
(* and save notes; the reindex it starts once per life on a thread of its  *)
(* own; and the web console's editor, which is another process.  People    *)
(* remove files by hand.                                                   *)
(***************************************************************************)
EXTENDS MemoryNotes

CONSTANTS Texts,                    \* the texts turns save and people write
          Sorted,                   \* every path a note can have, as the walk sorts them
          Shape,                    \* what a path is: see guard_target_for_write
          Tabs,                     \* browser tabs of the operator
          Owner, Limit, TopN,       \* the agent; caps on injected notes and on hits
          MaxWork                   \* bound on saves, edits, faults and removals

VARIABLES files,                    \* the files there are, by path
          catalog,                  \* the set of catalog rows, one per memory id
          corpus, index,            \* what the sidecar was given and has embedded
          serve,                    \* the daemon's turn thread
          walk,                     \* the daemon's reindex thread
          health,                   \* the agent's row of agent_memory_health
          tab, request,             \* drafts of the tabs, the console's request in progress
          \* history
          saved, authored,          \* ids saved by turns, ids written by people
          touched,                  \* paths changed since the reindex began
          work                      \* counter of the bound

memoryVars == <<files, catalog, corpus, index, serve, walk, health, tab, request, saved,
                   authored, touched, work>>

Paths == Range(Sorted)
Empty == [yaml |-> {}, body |-> Absent]   \* a file created and not yet written
NoRequest == [op |-> "none"]
Down == [step |-> "down"]
Idle == [step |-> "idle"]
NoWalk == [step |-> "none"]

\* f with v at k, whether or not there was something.
Put(f, k, v) == [x \in DOMAIN f \union {k} |-> IF x = k THEN v ELSE f[x]]

IdOf(raw) == normalize(raw, Owner).front_matter.memory_id
NotePath(text) == <<"notes", text>>

\* The walk meets every note a turn can write.  build_body ends every text in a
\* newline, so that none of them is the empty text of a truncated file.
ASSUME MemoryAssumption ==
    /\ Sorted \in Seq(Paths)
    /\ \A text \in Texts : text # Absent /\ NotePath(text) \in Paths

-----------------------------------------------------------------------------
(* The catalog *)

CatalogEntry(path, fm) ==
    [memory_id |-> fm.memory_id, path |-> path, scope |-> fm.scope,
     source_type |-> fm.source_type, source_ref |-> fm.source_ref,
     source_user_id |-> fm.source_user_id, reuse_policy |-> fm.reuse_policy]

(* Mutant: one row per path. *)
MutantByPath(rows, path, fm) ==
    {r \in rows : r.path # path /\ r.memory_id # fm.memory_id} \union {CatalogEntry(path, fm)}

(* Mutant: a row that is there is left as it is. *)
MutantKeepRow(rows, path, fm) ==
    IF \E r \in rows : r.memory_id = fm.memory_id THEN rows
    ELSE rows \union {CatalogEntry(path, fm)}

upsert_entry(rows, path, fm) ==
    {r \in rows : r.memory_id # fm.memory_id} \union {CatalogEntry(path, fm)}

\* Newest first; rows of one second have an order of their own.
entries_for_agent(rows) == SetToSeqs(rows)

-----------------------------------------------------------------------------
(* Turns of the daemon *)

\* The host decides everything but the text.  The chat and the sender it stamps
\* are not told apart here: no turn filters on them.
HostFrontMatter(text) ==
    [memory_id |-> generate_memory_id(Owner, text), owner |-> Owner,
     scope |-> "all_chats", source_type |-> "user_said", source_ref |-> NoSource,
     source_user_id |-> Absent, confidence |-> "high", reuse_policy |-> "same_scope",
     retention |-> "normal"]

Write(p, raw) ==
    /\ files' = Put(files, p, raw)
    /\ touched' = touched \union {p}

\* A save of the console that has compared versions and not yet replaced the file.
Overtake(p) ==
    request' = IF request.op = "save" /\ request.path = p
               THEN [request EXCEPT !.overtaken = TRUE] ELSE request

\* write_memory opens the file and empties it, then writes it, then catalogues it.
SaveMemory(text) ==
    /\ serve.step = "idle" /\ work < MaxWork
    /\ authorize_owner(Owner, HostFrontMatter(text).owner)
    /\ resolve(orchestrator_root, [absolute |-> FALSE, segs |-> NotePath(text)]) # Absent
    /\ work' = work + 1
    /\ Write(NotePath(text), Empty) /\ Overtake(NotePath(text))
    /\ serve' = [step |-> "truncated", text |-> text]
    /\ UNCHANGED <<catalog, corpus, index, walk, health, tab, saved, authored>>

WriteNote ==
    /\ serve.step = "truncated"
    /\ Write(NotePath(serve.text),
             to_markdown([front_matter |-> HostFrontMatter(serve.text), body |-> serve.text]))
    /\ Overtake(NotePath(serve.text))
    /\ serve' = [serve EXCEPT !.step = "written"]
    /\ UNCHANGED <<catalog, corpus, index, walk, health, tab, saved, authored, work>>

CatalogueNote ==
    /\ serve.step = "written"
    /\ catalog' = upsert_entry(catalog, NotePath(serve.text), HostFrontMatter(serve.text))
    /\ saved' = saved \union {generate_memory_id(Owner, serve.text)}
    /\ serve' = Idle
    /\ UNCHANGED <<files, corpus, index, walk, health, tab, request, authored, touched, work>>

\* The disk or the database refuses: the turn goes on and nothing is undone.
SaveFails ==
    /\ serve.step \in {"truncated", "written"} /\ work < MaxWork
    /\ work' = work + 1
    /\ serve' = Idle
    /\ UNCHANGED <<files, catalog, corpus, index, walk, health, tab, request, saved, authored, touched>>

read_body(p) ==
    IF p \notin DOMAIN files \/ parse(files[p]) = {} THEN Absent
    ELSE (CHOOSE d \in parse(files[p]) : TRUE).body

hydrate_snippets(envelopes) ==
    [i \in DOMAIN envelopes |-> with_snippet(envelopes[i], read_body(envelopes[i].path))]

\* qmd_memory_block reads the candidates, then asks the sidecar.
Search ==
    /\ serve.step = "idle"
    /\ serve' = [step |-> "search", candidates |-> catalog]
    /\ UNCHANGED <<files, catalog, corpus, index, walk, health, tab, request, saved, authored,
                   touched, work>>

\* The sidecar ranks what it has embedded, up to TopN.
SidecarHits ==
    {[i \in 1 .. Smaller(TopN, Len(ranked)) |->
        <<corpus_stem_for_memory_id(ranked[i].memory_id), ranked[i].body>>] : ranked \in SetToSeqs(index)}

\* A search that worked is the last word, even when it finds nothing.
SearchEnds ==
    /\ serve.step = "search"
    /\ \E hits \in SidecarHits :
          LET answer == parse_qmd_response([kind |-> "hits", hits |-> hits])
          IN serve' = [step |-> "prompt",
                       block |-> inject_from_search(serve.candidates, answer.hits, DefaultContext, Limit)]
    /\ UNCHANGED <<files, catalog, corpus, index, walk, health, tab, request, saved, authored,
                   touched, work>>

\* Any failure of the sidecar falls back to the catalog, read again.
SearchDegraded ==
    /\ serve.step = "search" /\ work < MaxWork
    /\ parse_qmd_response([kind |-> "malformed"]).degraded
    /\ work' = work + 1
    /\ \E rows \in entries_for_agent(catalog) :
          serve' = [step |-> "prompt",
                    block |-> hydrate_snippets(select_for_injection(rows, DefaultContext, Limit))]
    /\ UNCHANGED <<files, catalog, corpus, index, walk, health, tab, request, saved, authored, touched>>

TurnRuns ==
    /\ serve.step = "prompt"
    /\ serve' = Idle
    /\ UNCHANGED <<files, catalog, corpus, index, walk, health, tab, request, saved, authored,
                   touched, work>>

-----------------------------------------------------------------------------
(* The reindex of a life of the daemon *)

\* Directories of the sidecar and the map of the taxonomy are not notes.
collect_markdown == {p \in Paths : p \in DOMAIN files /\ Shape[p].note}

\* The files are visited in the order of their paths.
FirstOf(todo) ==
    Sorted[CHOOSE i \in DOMAIN Sorted : Sorted[i] \in todo /\ \A j \in 1 .. i - 1 : Sorted[j] \notin todo]

\* The daemon lays down the taxonomy and starts both threads.
Boot ==
    /\ serve.step = "down"
    /\ serve' = Idle
    /\ walk' = [step |-> "start"]
    /\ UNCHANGED <<files, catalog, corpus, index, health, tab, request, saved, authored, touched, work>>

\* A note in the hands of a turn counts as touched.
StartWalk ==
    /\ walk.step = "start"
    /\ walk' = [step |-> "walking", todo |-> collect_markdown, docs |-> <<>>]
    /\ touched' = IF serve.step \in {"truncated", "written"} THEN {NotePath(serve.text)} ELSE {}
    /\ UNCHANGED <<files, catalog, corpus, index, serve, health, tab, request, saved, authored, work>>

\* A file that is gone by now ends the reindex.
ReadNote ==
    /\ walk.step = "walking" /\ walk.todo # {}
    /\ LET p == FirstOf(walk.todo) IN
         walk' = IF p \notin DOMAIN files THEN [step |-> "failed"]
                 ELSE [step |-> "read", todo |-> walk.todo \ {p}, docs |-> walk.docs,
                       path |-> p, doc |-> normalize(files[p], Owner)]
    /\ UNCHANGED <<files, catalog, corpus, index, serve, health, tab, request, saved, authored,
                   touched, work>>

CatalogueRead ==
    /\ walk.step = "read"
    /\ catalog' = upsert_entry(catalog, walk.path, walk.doc.front_matter)
    /\ walk' = [step |-> "walking", todo |-> walk.todo,
                docs |-> Append(walk.docs, [memory_id |-> walk.doc.front_matter.memory_id,
                                            body |-> walk.doc.body])]
    /\ UNCHANGED <<files, corpus, index, serve, health, tab, request, saved, authored, touched, work>>

\* Of two notes of one id the last in the order of the walk has the file.
CorpusOf(docs) ==
    {docs[i] : i \in {j \in DOMAIN docs :
                        \A k \in j + 1 .. Len(docs) : docs[k].memory_id # docs[j].memory_id}}

(* Mutant: files of the last corpus are left where they are. *)
MutantNoClear(stuck) == corpus

cleared(stuck) == stuck

\* What is in the way is written over.
written(docs) ==
    {d \in corpus : \A i \in DOMAIN docs : docs[i].memory_id # d.memory_id} \union CorpusOf(docs)

\* write_corpus first removes the files of the last one; that the removal of
\* some fails goes unnoticed.
ClearCorpus ==
    /\ walk.step = "walking" /\ walk.todo = {}
    /\ \E stuck \in {{}} \union (IF work < MaxWork THEN SUBSET corpus ELSE {}) :
         /\ corpus' = cleared(stuck)
         /\ walk' = [step |-> "cleared", docs |-> walk.docs, stuck |-> stuck]
         /\ work' = IF stuck = {} THEN work ELSE work + 1
    /\ UNCHANGED <<files, catalog, index, serve, health, tab, request, saved, authored, touched>>

WriteCorpus ==
    /\ walk.step = "cleared"
    /\ corpus' = written(walk.docs)
    /\ walk' = [step |-> "embed", stuck |-> walk.stuck]
    /\ UNCHANGED <<files, catalog, index, serve, health, tab, request, saved, authored, touched, work>>

\* The directory or a file cannot be written: what was written before stays, and
\* nothing is embedded.
WriteStops ==
    /\ walk.step = "cleared" /\ work < MaxWork
    /\ work' = work + 1
    /\ \E n \in 0 .. Len(walk.docs) : corpus' = written(SubSeq(walk.docs, 1, n))
    /\ health' = "degraded"
    /\ walk' = [step |-> "done", stuck |-> walk.stuck]
    /\ UNCHANGED <<files, catalog, index, serve, tab, request, saved, authored, touched>>

\* reindex of the backend, and its outcome in agent_memory_health.
Embed ==
    /\ walk.step = "embed"
    /\ index' = corpus
    /\ health' = parse_status_response([kind |-> "indexed", count |-> Cardinality(corpus)])
    /\ walk' = [step |-> "done", stuck |-> walk.stuck]
    /\ UNCHANGED <<files, catalog, corpus, serve, tab, request, saved, authored, touched, work>>

\* The sidecar is missing, fails, or is killed when its time is over; what it
\* had written by then stays.
EmbedFails ==
    /\ walk.step = "embed" /\ work < MaxWork
    /\ work' = work + 1
    /\ index' \in {index, corpus}
    /\ health' = "degraded"
    /\ walk' = [step |-> "done", stuck |-> walk.stuck]
    /\ UNCHANGED <<files, catalog, corpus, serve, tab, request, saved, authored, touched>>

\* The death of the daemon, at any step of both threads.
DaemonDies ==
    /\ serve.step # "down" /\ work < MaxWork
    /\ work' = work + 1
    /\ serve' = Down
    /\ walk' = NoWalk
    /\ UNCHANGED <<files, catalog, corpus, index, health, tab, request, saved, authored, touched>>

-----------------------------------------------------------------------------
(* The editor of the web console: a shape is [escapes, protected, extension, *)
(* parent, special, note].                                                   *)

check_protected(p) == ~Shape[p].protected
check_extension(p) == Shape[p].extension = "md"
confine_parent(p) == Shape[p].parent = "inside"
reject_symlink_or_special(p) == ~Shape[p].special

guard_target_for_read(p) == ~Shape[p].escapes /\ confine_parent(p) /\ reject_symlink_or_special(p)

guard_target_for_write(p) ==
    /\ ~Shape[p].escapes
    /\ check_protected(p) /\ check_extension(p)
    /\ confine_parent(p) /\ reject_symlink_or_special(p)

\* The token of a version is the hash of the content.
version_of(raw) == raw

Load(t, p) ==
    /\ guard_target_for_read(p)
    /\ request = NoRequest /\ p \in DOMAIN files
    /\ t \notin DOMAIN tab
    /\ tab' = Put(tab, t, [path |-> p, version |-> version_of(files[p])])
    /\ UNCHANGED <<files, catalog, corpus, index, serve, walk, health, request, saved, authored,
                   touched, work>>

\* What a person makes of a note: text without front matter, or the note as it
\* was and no longer to be injected.
Rewrites(raw) ==
    {[yaml |-> {}, body |-> text] : text \in Texts}
    \union {[yaml |-> {[fm EXCEPT !.scope = "no_rag", !.reuse_policy = "no_rag"]}, body |-> raw.body] :
              fm \in raw.yaml}

(* Mutant: the version is not compared. *)
MutantNoVersion(p, version) == p \in DOMAIN files

VersionMatches(p, version) == p \in DOMAIN files /\ version_of(files[p]) = version

\* After a conflict the form keeps its text and takes the version on disk, so that
\* the next save is a decision to overwrite; the other interface starts again.
Refused(t) ==
    LET p == tab[t].path IN
    {Restrict(tab, DOMAIN tab \ {t}),
     IF p \in DOMAIN files THEN [tab EXCEPT ![t].version = version_of(files[p])] ELSE tab}

\* save compares the versions and then replaces the file by a rename.
Save(t) ==
    /\ t \in DOMAIN tab /\ request = NoRequest /\ work < MaxWork
    /\ work' = work + 1
    /\ LET p == tab[t].path IN
         /\ guard_target_for_write(p)
         /\ IF VersionMatches(p, tab[t].version)
            THEN /\ \E raw \in Rewrites(tab[t].version) :
                       request' = [op |-> "save", tab |-> t, path |-> p, raw |-> raw, overtaken |-> FALSE]
                 /\ UNCHANGED tab
            ELSE /\ tab' \in Refused(t)
                 /\ UNCHANGED request
    /\ UNCHANGED <<files, catalog, corpus, index, serve, walk, health, saved, authored, touched>>

atomic_write ==
    /\ request.op = "save"
    /\ Write(request.path, request.raw)
    /\ authored' = authored \union {IdOf(request.raw)}
    /\ tab' = [tab EXCEPT ![request.tab].version = version_of(request.raw)]
    /\ request' = NoRequest
    /\ UNCHANGED <<catalog, corpus, index, serve, walk, health, saved, work>>

\* create makes the file exclusively, and writes it once it is there.
Create(p, text) ==
    /\ request = NoRequest /\ work < MaxWork
    /\ work' = work + 1
    /\ guard_target_for_write(p) /\ p \notin DOMAIN files
    /\ Write(p, Empty)
    /\ request' = [op |-> "create", path |-> p, raw |-> [yaml |-> {}, body |-> text]]
    /\ UNCHANGED <<catalog, corpus, index, serve, walk, health, tab, saved, authored>>

\* A file removed in between takes the text with it.
CreateWrites ==
    /\ request.op = "create"
    /\ IF request.path \notin DOMAIN files THEN UNCHANGED <<files, touched, authored>>
       ELSE /\ Write(request.path, request.raw)
            /\ authored' = authored \union {IdOf(request.raw)}
    /\ request' = NoRequest
    /\ UNCHANGED <<catalog, corpus, index, serve, walk, health, tab, saved, work>>

\* The console stops: a request in progress is left as it is, and the tabs
\* keep their drafts.
ConsoleStops ==
    /\ request # NoRequest /\ work < MaxWork
    /\ work' = work + 1
    /\ request' = NoRequest
    /\ UNCHANGED <<files, catalog, corpus, index, serve, walk, health, tab, saved, authored, touched>>

\* A person removes a file by hand.
RemoveFile(p) ==
    /\ p \in DOMAIN files /\ work < MaxWork
    /\ work' = work + 1
    /\ files' = Restrict(files, DOMAIN files \ {p})
    /\ touched' = touched \union {p}
    /\ Overtake(p)
    /\ UNCHANGED <<catalog, corpus, index, serve, walk, health, tab, saved, authored>>

-----------------------------------------------------------------------------

MemoryInit ==
    /\ files = <<>>
    /\ catalog = {} /\ corpus = {} /\ index = {}
    /\ serve = Down /\ walk = NoWalk /\ health = Absent
    /\ tab = <<>> /\ request = NoRequest
    /\ saved = {} /\ authored = {} /\ touched = {}
    /\ work = 0

Turns ==
    \/ \E text \in Texts : SaveMemory(text)
    \/ WriteNote \/ CatalogueNote \/ SaveFails
    \/ Search \/ SearchEnds \/ SearchDegraded \/ TurnRuns

Reindex ==
    \/ StartWalk \/ ReadNote \/ CatalogueRead
    \/ ClearCorpus \/ WriteCorpus \/ WriteStops \/ Embed \/ EmbedFails

Console ==
    \/ \E t \in Tabs : Save(t) \/ \E p \in Paths : Load(t, p)
    \/ \E p \in Paths, text \in Texts : Create(p, text)
    \/ atomic_write \/ CreateWrites \/ ConsoleStops

MemoryNext == Boot \/ DaemonDies \/ Turns \/ Reindex \/ Console \/ \E p \in Paths : RemoveFile(p)

-----------------------------------------------------------------------------
(* Properties *)

\* A memory that a turn saved stays in the catalog, eligible and at its path,
\* through reindexes that read its file half written, restarts and failed
\* saves of the same text, unless a person wrote a note of the same id.
\* (upsert_entry is keyed by the id of the note, normalize derives the id of a
\* file without front matter from its text.)
SavedStaysRetrievable ==
    \A id \in saved \ authored : \E r \in catalog :
        r.memory_id = id /\ r.path = NotePath(id[2]) /\ is_eligible(r, DefaultContext)

\* When a reindex is over, every note that nobody changed since it began is in
\* the catalog, and a row at its path and of its id says what the note says:
\* what a crash left without a row and what people edited is caught up with.
ReindexCatalogues ==
    walk.step = "done" =>
      \A p \in DOMAIN files \ touched :
        Shape[p].note =>
          LET fm == normalize(files[p], Owner).front_matter IN
          /\ \E r \in catalog : r.memory_id = fm.memory_id
          /\ \A r \in catalog :
               r.path = p /\ r.memory_id = fm.memory_id => r = CatalogEntry(p, fm)

\* After a healthy reindex the search knows no note whose file was gone before
\* it began (write_corpus clears the files of the last one), through reindexes
\* that stopped half way; but for what could not be removed from the corpus,
\* which the code ignores.
RemovedNotesForgotten ==
    walk.step = "done" /\ health = "healthy" =>
      \A d \in index \ walk.stuck : \E p \in Paths :
        p \in touched \/ (p \in DOMAIN files /\ IdOf(files[p]) = d.memory_id)

\* A save of the console replaces only the version its tab had read, unless a
\* turn or a person changed the file between the comparison and the rename.
NoSilentOverwrite ==
    [][\A t \in Tabs :
         atomic_write /\ request.tab = t /\ ~request.overtaken
           => version_of(files[request.path]) = tab[t].version]_memoryVars
=============================================================================
