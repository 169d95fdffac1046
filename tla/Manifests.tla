----------------------------- MODULE Manifests ------------------------------
(***************************************************************************)
(* The manifests of a release and the check every product runs against     *)
(* them: the module graph, the modules a product enables, the prompt       *)
(* fragments, the contracts and the pinned version; and what a prompt is   *)
(* rendered to.  The behaviour is that of the people who edit the files.   *)
(***************************************************************************)
EXTENDS Naturals, Sequences, SequencesExt, FiniteSets, CycleSearch, TLC

CONSTANTS ModuleIds, FragmentIds,   \* the ids that occur in the files
          Orders,                   \* the orders of fragments
          Products,                 \* product manifests: [enabled_modules, pinned]
          MaxEntries                \* bound on entries of both manifests

ASSUME ManifestAssumption == Orders \subseteq Nat

VARIABLES platform,                 \* modules: a sequence of [id, depends_on]
          fragments,                \* a sequence of [id, owner_module, order, depends_on]
          product,                  \* [enabled_modules, pinned]
          contracts                 \* contract files: module id -> the headers in it

manifestVars == <<platform, fragments, product, contracts>>

Ids(entries) == {entries[i].id : i \in DOMAIN entries}
Duplicates(entries) == \E i, j \in DOMAIN entries : i < j /\ entries[i].id = entries[j].id

\* Collected into a map the last entry of an id wins.
LastOf(entries, id) ==
    entries[CHOOSE i \in DOMAIN entries :
              entries[i].id = id /\ \A j \in DOMAIN entries : entries[j].id = id => j <= i]

\* Edges to ids that are not there are left out of the search for cycles.
KnownEdges(entries) ==
    [id \in Ids(entries) |-> SetToSeq(LastOf(entries, id).depends_on \intersect Ids(entries))]

Diagnose(condition, code) == IF condition THEN {code} ELSE {}

validate_module_graph(modules) ==
    Diagnose(Duplicates(modules), "duplicate_module_id")
    \union Diagnose(\E i \in DOMAIN modules : ~(modules[i].depends_on \subseteq Ids(modules)),
                    "missing_module_id")
    \union Diagnose(has_cycle(KnownEdges(modules)), "module_graph_cycle")

validate_enabled_modules(enabled, modules) ==
    Diagnose(~(enabled \subseteq Ids(modules)), "unknown_enabled_module")

(* Mutant: a fragment may have the order of what it depends on. *)
MutantSameOrder(frags, i, dep) == LastOf(frags, dep).order > frags[i].order

\* A fragment must render after everything it depends on.
InvalidOrdering(frags, i, dep) == LastOf(frags, dep).order >= frags[i].order

validate_prompt_fragments(frags, modules) ==
    Diagnose(Duplicates(frags), "duplicate_fragment_id")
    \union Diagnose(\E i \in DOMAIN frags : frags[i].owner_module \notin Ids(modules),
                    "unknown_fragment_owner_module")
    \union Diagnose(\E i \in DOMAIN frags : ~(frags[i].depends_on \subseteq Ids(frags)),
                    "unknown_fragment_dependency")
    \union Diagnose(\E i \in DOMAIN frags : \E dep \in frags[i].depends_on \intersect Ids(frags) :
                      InvalidOrdering(frags, i, dep),
                    "invalid_fragment_ordering")
    \union Diagnose(has_cycle(KnownEdges(frags)), "fragment_dependency_cycle")

\* Two sections stand for the required ones; other headers do not count.
RequiredSections == {"Public API", "Events"}
section_headers(headers) == headers \intersect RequiredSections
scan_contracts(files) == [id \in DOMAIN files |-> section_headers(files[id])]

check_contract_presence(ids, coverage) ==
    Diagnose(~(ids \subseteq DOMAIN coverage), "missing_contract_file")
    \union Diagnose(\E id \in ids \intersect DOMAIN coverage : ~(RequiredSections \subseteq coverage[id]),
                    "contract_missing_section")

check_version_compatibility(pinned) == Diagnose(pinned # "current", "incompatible_platform_version")

build_report ==
    validate_module_graph(platform)
    \union validate_enabled_modules(product.enabled_modules, platform)
    \union validate_prompt_fragments(fragments, platform)
    \union check_contract_presence(Ids(platform), scan_contracts(contracts))
    \union check_version_compatibility(product.pinned)

\* Manifests that do not load are an error of the check, not a report.
run_compatibility_check == build_report = {}

-----------------------------------------------------------------------------
(* Prompts *)

\* The first of every id, by order; the sort is stable.
FirstByOrder(frags) ==
    LET first == {i \in DOMAIN frags : \A j \in DOMAIN frags : frags[j].id = frags[i].id => i <= j}
        before(i, j) == frags[i].order < frags[j].order \/ (frags[i].order = frags[j].order /\ i <= j)
    IN [k \in 1 .. Cardinality(first) |->
          frags[CHOOSE i \in first : Cardinality({j \in first : before(j, i)}) = k]]

\* A body is named by the id of its fragment.
render_prompt(frags) == [k \in DOMAIN FirstByOrder(frags) |-> FirstByOrder(frags)[k].id]

ordered_unique_refs(frags) ==
    [k \in DOMAIN FirstByOrder(frags) |->
       [id |-> FirstByOrder(frags)[k].id, owner_module |-> FirstByOrder(frags)[k].owner_module]]

generate(frags) ==
    [rendered_prompt |-> render_prompt(frags), prompt_fragments |-> ordered_unique_refs(frags)]

-----------------------------------------------------------------------------
(* Edits *)

ManifestInit ==
    /\ platform = <<>> /\ fragments = <<>> /\ contracts = <<>>
    /\ product = [enabled_modules |-> {}, pinned |-> "current"]

Room == Len(platform) + Len(fragments) < MaxEntries

AddModule(id, deps) ==
    /\ Room
    /\ platform' = Append(platform, [id |-> id, depends_on |-> deps])
    /\ \/ UNCHANGED contracts
       \/ \E headers \in {RequiredSections, {"Events", "Notes"}} : contracts' = (id :> headers) @@ contracts
    /\ UNCHANGED <<fragments, product>>

AddFragment(id, owner, order, deps) ==
    /\ Room
    /\ fragments' = Append(fragments, [id |-> id, owner_module |-> owner, order |-> order,
                                       depends_on |-> deps])
    /\ UNCHANGED <<platform, product, contracts>>

ChangeProduct ==
    /\ product = [enabled_modules |-> {}, pinned |-> "current"]
    /\ product' \in Products
    /\ UNCHANGED <<platform, fragments, contracts>>

ManifestNext ==
    \/ \E id \in ModuleIds, deps \in SUBSET ModuleIds : AddModule(id, deps)
    \/ \E id \in FragmentIds, owner \in ModuleIds, order \in Orders, deps \in SUBSET FragmentIds :
          AddFragment(id, owner, order, deps)
    \/ ChangeProduct

-----------------------------------------------------------------------------
(* Properties *)

\* A release that passes the compatibility check can be put together: its
\* modules can be started one after another, each after all it depends on, the
\* product's modules are among them, and a prompt has every fragment once,
\* after everything it depends on (validate_module_graph searches for a cycle,
\* validate_prompt_fragments compares orders, render_prompt sorts by them).
PassedReleaseAssembles ==
    run_compatibility_check =>
      LET shown == generate(fragments).rendered_prompt
          place(id) == CHOOSE k \in DOMAIN shown : shown[k] = id
          modules == Ids(platform)
      IN /\ \E rank \in [modules -> 1 .. Cardinality(modules)] :
              \A i \in DOMAIN platform : \A dep \in platform[i].depends_on :
                 dep \in modules /\ rank[dep] < rank[platform[i].id]
         /\ product.enabled_modules \subseteq modules
         /\ Len(shown) = Len(fragments) /\ Range(shown) = Ids(fragments)
         /\ \A i \in DOMAIN fragments : \A dep \in fragments[i].depends_on :
              dep \in Ids(fragments) /\ place(dep) < place(fragments[i].id)
=============================================================================
