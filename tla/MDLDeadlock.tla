---------------------------- MODULE MDLDeadlock -----------------------------
(***************************************************************************)
(* The search of Deadlock_detection_visitor through the wait-for graph.    *)
(*                                                                         *)
(* blockers[c] is the set of contexts c waits for, active the contexts     *)
(* whose m_waiting_for is set and whose wait slot is EMPTY: the search     *)
(* stops at any other.  weight[c] is the deadlock weight of c's request.   *)
(*                                                                         *)
(* The code follows the edges in the order of the granted and waiting      *)
(* lists and reports the first loop.  Here the order is left open: the     *)
(* result is the set of the victims that some order of the lists yields,   *)
(* and it is empty exactly when the search finds nothing.                  *)
(***************************************************************************)
EXTENDS Naturals

\* opt_change_victim_to(): the victim changes when the new node is not heavier.
OptChangeVictimTo(weight, victim, node) ==
  IF weight[victim] >= weight[node] THEN node ELSE victim

\* Mutant: the edges are inspected, but the search never descends.
VisitSubgraph_Shallow(start, blockers, active, weight, maxDepth) ==
  [d \in 1 .. maxDepth |->
     [c \in DOMAIN blockers |->
        IF c \in active /\ start \in blockers[c] THEN {c} ELSE {}]]

\* MDL_lock::visit_subgraph() entered for node c as the d-th of the path.
\* enter_node() gives up at maxDepth; then all edges are inspected for the
\* start node; then the search descends; leave_node() reconsiders the victim.
VisitSubgraph(start, blockers, active, weight, maxDepth) ==
  LET visit[d \in 1 .. maxDepth] ==
        [c \in DOMAIN blockers |->
           IF c \notin active THEN {}
           ELSE IF d = maxDepth \/ start \in blockers[c] THEN {c}
           ELSE {OptChangeVictimTo(weight, v, c) :
                   v \in UNION {visit[d + 1][b] : b \in blockers[c]}}]
  IN visit

\* MDL_context::find_deadlock(), one search: the possible victims.
DeadlockVictims(start, blockers, active, weight, maxDepth) ==
  VisitSubgraph(start, blockers, active, weight, maxDepth)[1][start]
=============================================================================
