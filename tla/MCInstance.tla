----------------------------- MODULE MCInstance -----------------------------
(***************************************************************************)
(* What an instance keeps: its databases and setup (two builds over two    *)
(* modules, a and b, with one migration each in the baseline; build 1      *)
(* ships a domain migration that alters a's table, build 2 one more that   *)
(* creates its own and a second version of the outbound schema), its       *)
(* notes, and the gate of its console.  What the console does to notes is  *)
(* part of Memory, so the three never share a variable: a behaviour is of  *)
(* one of them and the others keep still.                                  *)
(***************************************************************************)
EXTENDS Instance, Memory, WebConsole, TLC

CONSTANTS x, t1, t2

VARIABLE part

TwoRanks == "a" :> 1 @@ "b" :> 2 @@ "inbound" :> 1 @@ "outbound" :> 1
TwoBaselines == [b \in {1, 2} |-> {<<"a", 1>>, <<"b", 1>>}]
TwoDomains == 1 :> {<<"a", 2>>} @@ 2 :> {<<"a", 2>>, <<"b", 2>>}
Altering == {<<"a", 2>>, <<"outbound", 2>>}
TwoSchemas == 1 :> ("inbound" :> 1 @@ "outbound" :> 1)
              @@ 2 :> ("inbound" :> 1 @@ "outbound" :> 2)

(* An operator and a daemon that is restarted beside it. *)
OperatorAndDaemon == 1 :> {"setup", "upgrade"} @@ 2 :> {"serve"}

(* Build 2 has edited b's baseline. *)
EditedBaseline == {<<2, <<"b", 1>>>>}

hand == <<"a-hand", "note">>
map == <<"catalog">>
MCSorted == <<hand, map, NotePath(x)>>
Plain == [escapes |-> FALSE, protected |-> FALSE, extension |-> "md", parent |-> "inside",
          special |-> FALSE, note |-> TRUE]
MCShape == [p \in Range(MCSorted) |-> IF p = map THEN [Plain EXCEPT !.protected = TRUE] ELSE Plain]

MCRoutes == <<[method |-> "GET", pattern |-> <<>>, handler |-> "overview"],
              [method |-> "GET", pattern |-> <<"api", "runs", ":">>, handler |-> "runs"],
              [method |-> "GET", pattern |-> <<"api", "memory", "file">>, handler |-> "memory_read"],
              [method |-> "PUT", pattern |-> <<"api", "memory", "file">>, handler |-> "memory_write"]>>

Credentials == 0 .. MaxTokens
MCRequests ==
    [method : {"GET", "PUT"}, path : {<<"api", "runs", "r">>, <<"api", "memory", "file">>},
     bearer : Credentials, cookie : Credentials, query : {0, 1},
     origin : {"absent", "loopback", "elsewhere"}, wire : {"whole"}]
    \union [method : {"GET"}, path : {<<"else">>}, bearer : Credentials, cookie : {0}, query : {0},
            origin : {"absent"}, wire : {"whole"}]
    \union [method : {"PUT"}, path : {<<>>}, bearer : {1}, cookie : {0}, query : {0},
            origin : {"absent"}, wire : {"whole", "too_large", "malformed"}]

MCTables == {"agent_groups", "user_roles", "container_runs"}

TabSymmetry == Permutations(Tabs)

-----------------------------------------------------------------------------
MCInit == part \in {"databases", "notes", "console"} /\ Init /\ MemoryInit /\ WebInit

MCNext ==
    \/ part = "databases" /\ Next /\ UNCHANGED <<part, memoryVars, webVars>>
    \/ part = "notes" /\ MemoryNext /\ UNCHANGED <<part, vars, webVars>>
    \/ part = "console" /\ WebNext /\ UNCHANGED <<part, vars, memoryVars>>
    \* The bounds end the last two; the first must never stop.
    \/ part # "databases" /\ UNCHANGED <<part, vars, memoryVars, webVars>>

MCSpec == MCInit /\ [][MCNext]_<<part, vars, memoryVars, webVars>>
=============================================================================
