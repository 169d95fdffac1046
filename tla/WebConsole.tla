----------------------------- MODULE WebConsole -----------------------------
(***************************************************************************)
(* The web console: a process of its own that keeps the hash of one secret *)
(* in a file, shows the secret once, and answers one connection at a time. *)
(* A token is a number and stands for its hash too.  What the memory pages *)
(* do to the notes is in Memory.                                           *)
(***************************************************************************)
EXTENDS Naturals, Sequences, FiniteSets

CONSTANTS Requests,                 \* what clients send: see authenticate
          Routes,                   \* the route table: see dispatch
          Tables,                   \* the tables the central database has
          MaxTokens, MaxStops       \* bounds on secrets minted and on starts that end

VARIABLES token_file,               \* the stored hash
          minted,                   \* secrets generated so far
          console,                  \* the process
          answer,                   \* the last request and what became of it
          shown,                    \* history: secrets that were printed
          stops

webVars == <<token_file, minted, console, answer, shown, stops>>

NoToken == 0                        \* also an absent file, and a revoked store
Stopped == [step |-> "stopped"]
NoAnswer == [status |-> 0]

-----------------------------------------------------------------------------
(* The secret *)

create_token(n) == [store |-> n, token |-> n]
verify(store, presented) == store # NoToken /\ presented = store

\* ensure_token mints and saves before anything is shown.
EnsureToken ==
    /\ console.step = "stopped"
    /\ IF token_file # NoToken
       THEN /\ console' = [step |-> "opening", store |-> token_file, fresh |-> FALSE]
            /\ UNCHANGED <<token_file, minted>>
       ELSE /\ minted < MaxTokens
            /\ minted' = minted + 1
            /\ token_file' = create_token(minted').store
            /\ console' = [step |-> "opening", store |-> create_token(minted').store, fresh |-> TRUE]
    /\ UNCHANGED <<answer, shown, stops>>

\* The port is bound and the secret printed, if it is a new one.
Announce ==
    /\ console.step = "opening"
    /\ shown' = IF console.fresh THEN shown \union {console.store} ELSE shown
    /\ console' = [step |-> "serving", store |-> console.store]
    /\ UNCHANGED <<token_file, minted, answer, stops>>

\* The database does not open or the port is taken, before the secret was shown;
\* or the console is stopped.
Stop ==
    /\ console.step # "stopped" /\ stops < MaxStops
    /\ stops' = stops + 1
    /\ console' = Stopped
    /\ answer' = NoAnswer
    /\ UNCHANGED <<token_file, minted, shown>>

\* The operator deletes the file to mint a new secret; a console that runs
\* keeps the old one.
DeleteToken ==
    /\ token_file # NoToken /\ minted < MaxTokens
    /\ token_file' = NoToken
    /\ UNCHANGED <<minted, console, answer, shown, stops>>

-----------------------------------------------------------------------------
(* Requests: [method, path, bearer, cookie, query, origin, wire], where wire  *)
(* says how the bytes arrived and the credentials are tokens or NoToken.      *)

is_mutating(method) == method # "GET"

\* The two names of the loopback interface a browser uses.
AllowedOrigins == {"loopback", "localhost"}

bearer_origin_ok(req) == req.origin = "absent" \/ req.origin \in AllowedOrigins

(* Mutant: a cookie without an origin is taken for a tool's. *)
MutantCookieOrigin(req) == req.origin = "absent" \/ req.origin \in AllowedOrigins

cookie_origin_ok(req) == req.origin \in AllowedOrigins

unauthorized == [kind |-> "reject", status |-> 401]
forbidden_origin == [kind |-> "reject", status |-> 403]
Allow == [kind |-> "allow", status |-> 0]

\* A link with the token is answered by a redirect that sets the cookie.
Exchange == [kind |-> "exchange", status |-> 303]

Credential(ok, origin_ok, req) ==
    IF ~ok THEN unauthorized
    ELSE IF is_mutating(req.method) /\ ~origin_ok THEN forbidden_origin ELSE Allow

\* The first credential there is decides, also when a later one would do.
authenticate(store, req) ==
    CASE req.bearer # NoToken -> Credential(verify(store, req.bearer), bearer_origin_ok(req), req)
      [] req.bearer = NoToken /\ req.cookie # NoToken ->
           Credential(verify(store, req.cookie), cookie_origin_ok(req), req)
      [] req.bearer = NoToken /\ req.cookie = NoToken /\ req.query # NoToken ->
           IF verify(store, req.query) THEN Exchange ELSE unauthorized
      [] OTHER -> unauthorized

\* A pattern is a sequence of literals and parameters, which begin as <<":">>.
match_pattern(pattern, segments) ==
    /\ Len(pattern) = Len(segments)
    /\ \A i \in DOMAIN pattern : pattern[i] = ":" \/ pattern[i] = segments[i]

\* The first route of the method among those of the path.
dispatch(req) ==
    LET of_path == {i \in DOMAIN Routes : match_pattern(Routes[i].pattern, req.path)}
        of_method == {i \in of_path : Routes[i].method = req.method}
    IN IF of_method # {}
       THEN Routes[CHOOSE i \in of_method : \A j \in of_method : i <= j].handler
       ELSE IF of_path # {} THEN "method_not_allowed" ELSE "not_found"

\* The tables of the central database each page is made of.
Views == [overview |-> {"agent_groups", "sessions", "pending_approvals", "scheduled_items", "user_roles"},
          groups |-> {"agent_groups", "agent_destinations"},
          sessions |-> {"sessions"},
          runs |-> {"container_runs"},
          scheduled |-> {"scheduled_items"},
          users |-> {"users", "user_roles"},
          approvals |-> {"pending_approvals", "users"},
          capabilities |-> {"capability_metadata"},
          specialists |-> {"specialist_jobs"},
          readiness |-> {"user_roles"},
          queue |-> {}]

\* A query that fails leaves its page empty and the page is served.
or_default(page) == Views[page] \subseteq Tables

\* The errors of the editor, as the memory interface reports them.
error_response(e) ==
    CASE e \in {"path_escape", "outside_root", "symlink", "special_file", "extension", "protected"} -> 400
      [] e = "not_found" -> 404
      [] e \in {"already_exists", "version_conflict"} -> 409
      [] e = "too_large" -> 413
      [] OTHER -> 500

\* The handlers of the memory interface, by what they do to the notes.
MemoryStatuses ==
    [memory_read |-> {200, 400} \union {error_response(e) : e \in {"protected", "not_found", "io"}},
     memory_write |-> {201, 400, 413}
                        \union {error_response(e) : e \in {"already_exists", "version_conflict", "io"}}]

\* A run that is not there, or cannot be read, is not found.
run_detail == IF or_default("runs") THEN {200, 404} ELSE {404}

\* What a handler may answer; pages and JSON views answer alike.
Statuses(handler) ==
    CASE handler \in DOMAIN Views \ {"runs"} -> {200}
      [] handler = "runs" -> run_detail
      [] handler \in DOMAIN MemoryStatuses -> MemoryStatuses[handler]
      [] handler = "method_not_allowed" -> {405}
      [] OTHER -> {404}

\* read_request: the head and the body have bounds, and must be whole.
read_request(req) ==
    CASE req.wire = "too_large" -> 413
      [] req.wire = "malformed" -> 400
      [] OTHER -> 0

\* One connection: an answer to what does not parse, the gate, then the route.
handle_connection(req) ==
    /\ console.step = "serving"
    /\ LET decision == authenticate(console.store, req)
           ran == read_request(req) = 0 /\ decision.kind = "allow"
       IN \E status \in IF read_request(req) # 0 THEN {read_request(req)}
                        ELSE IF ran THEN Statuses(dispatch(req)) ELSE {decision.status} :
            answer' = [req |-> req, status |-> status]
    /\ UNCHANGED <<token_file, minted, console, shown, stops>>

WebInit ==
    /\ token_file = NoToken /\ minted = 0 /\ console = Stopped /\ answer = NoAnswer
    /\ shown = {} /\ stops = 0

WebNext ==
    \/ EnsureToken \/ Announce \/ Stop \/ DeleteToken
    \/ \E req \in Requests : handle_connection(req)

-----------------------------------------------------------------------------
(* Properties *)

\* A request that changes anything ran on a secret the console was started
\* with, and came from a page of the console or from a tool that sends its own
\* header: a page elsewhere, whose browser adds the cookie, changes nothing.
OnlyTrustedOriginsMutate ==
    answer.status \in {200, 201} /\ is_mutating(answer.req.method) =>
        \/ answer.req.origin \in AllowedOrigins
        \/ answer.req.origin = "absent" /\ answer.req.bearer = console.store
=============================================================================
