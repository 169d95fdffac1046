---------------------------- MODULE CycleSearch -----------------------------
(***************************************************************************)
(* first_cycle_node, of which the platform has two copies: one over the    *)
(* module and fragment graphs of the manifests, one over the allow-list of *)
(* agent-to-agent routing.  Edges are given as a function from a node to   *)
(* its successors in the order they are looked at.                         *)
(***************************************************************************)
EXTENDS Naturals, Sequences, SequencesExt, FiniteSets

Mark == {"unseen", "visiting", "done"}

(* Mutant: a node that is still being visited counts as done. *)
MutantForgetVisiting(successors) ==
    LET search[fuel \in Nat] ==
            [todo \in Seq(DOMAIN successors) |-> [marks \in [DOMAIN successors -> Mark] |->
               IF todo = <<>> THEN [cycle |-> FALSE, marks |-> marks]
               ELSE IF fuel = 0 THEN [cycle |-> TRUE, marks |-> marks]
               ELSE IF marks[Head(todo)] # "unseen" THEN search[fuel - 1][Tail(todo)][marks]
               ELSE LET inner == search[fuel - 1][successors[Head(todo)]]
                                                 [[marks EXCEPT ![Head(todo)] = "visiting"]]
                    IN IF inner.cycle THEN inner
                       ELSE search[fuel - 1][Tail(todo)][[inner.marks EXCEPT ![Head(todo)] = "done"]]]]
    IN search

\* visit(successors)[fuel][todo][marks]: the nodes to do are looked at one
\* after another, and one without a mark is searched from, depth first; what
\* is left are the marks and whether a node was met that was still being
\* visited.  A step takes one of the fuel, which bounds how deep the search is
\* nested.
visit(successors) ==
    LET search[fuel \in Nat] ==
            [todo \in Seq(DOMAIN successors) |-> [marks \in [DOMAIN successors -> Mark] |->
               IF todo = <<>> THEN [cycle |-> FALSE, marks |-> marks]
               ELSE IF fuel = 0 \/ marks[Head(todo)] = "visiting" THEN [cycle |-> TRUE, marks |-> marks]
               ELSE IF marks[Head(todo)] = "done" THEN search[fuel - 1][Tail(todo)][marks]
               ELSE LET inner == search[fuel - 1][successors[Head(todo)]]
                                                 [[marks EXCEPT ![Head(todo)] = "visiting"]]
                    IN IF inner.cycle THEN inner
                       ELSE search[fuel - 1][Tail(todo)][[inner.marks EXCEPT ![Head(todo)] = "done"]]]]
    IN search

\* The search from every node that has no mark yet.  A node is marked before
\* its successors are looked at, so at most all N nodes are being visited at a
\* time, each with at most N successors: the fuel does not run out.
Fuel(successors) == (Cardinality(DOMAIN successors) + 1) * (Cardinality(DOMAIN successors) + 1)

has_cycle(successors) ==
    visit(successors)[Fuel(successors)][SetToSeq(DOMAIN successors)]
                                       [[n \in DOMAIN successors |-> "unseen"]].cycle
=============================================================================
