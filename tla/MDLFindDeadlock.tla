-------------------------- MODULE MDLFindDeadlock ---------------------------
(***************************************************************************)
(* MDL_context::find_deadlock() run to its end on a given wait-for graph,  *)
(* for every graph: the loop of searches of MDLDeadlock against reference  *)
(* definitions of what a deadlock is.  MDL runs the same search while the  *)
(* graph changes.                                                          *)
(***************************************************************************)
EXTENDS MDLDeadlock

CONSTANTS
  Nodes,     \* contexts
  Start,     \* the one that calls find_deadlock()
  MaxDepth   \* MAX_SEARCH_DEPTH

ASSUME StartAssumption == Start \in Nodes /\ MaxDepth \in Nat \ {0}

VARIABLES
  blockers,  \* Nodes -> the contexts each one waits for
  weight,    \* Nodes -> its deadlock weight
  active,    \* contexts that wait and have no answer yet
  done       \* find_deadlock() has returned

findVars == <<blockers, weight, active, done>>

\* Any graph in which the caller waits; nobody waits for itself.
FindInit ==
  /\ blockers \in {b \in [Nodes -> SUBSET Nodes] : \A n \in Nodes : n \notin b[n]}
  /\ weight \in [Nodes -> {0, 100}]
  /\ active \in {a \in SUBSET Nodes : Start \in a}
  /\ done = FALSE

Victims == DeadlockVictims(Start, blockers, active, weight, MaxDepth)

\* Mutant: the search is not repeated after another context was chosen.
FindDeadlock_Once ==
  /\ ~done
  /\ active' \in {active} \cup {active \ {v} : v \in Victims}
  /\ active' = active <=> Victims = {}
  /\ done' = TRUE
  /\ UNCHANGED <<blockers, weight>>

\* One round of the loop: the victim gets VICTIM in its slot; the loop ends
\* when nothing is found or the caller is the victim.
FindDeadlock ==
  /\ ~done
  /\ \/ Victims = {} /\ done' = TRUE /\ UNCHANGED active
     \/ \E v \in Victims : active' = active \ {v} /\ done' = (v = Start)
  /\ UNCHANGED <<blockers, weight>>

FindNext == FindDeadlock

FindSpec == FindInit /\ [][FindNext]_findVars

-----------------------------------------------------------------------------
(* Reference definitions *)

\* In a set like D everyone waits for another one of the set.
Deadlocked(D) == D # {} /\ \A n \in D : blockers[n] \cap D # {}

\* A search reports a victim exactly when the waits of the caller lead into a
\* set of contexts that wait for each other: enter_node(), inspect_edge() and
\* the recursion of visit_subgraph() miss no loop and invent none.
FoundIffDeadlocked ==
  Victims # {} <=> \E D \in SUBSET active : Start \in D /\ Deadlocked(D)

\* When find_deadlock() returns, the caller can go to sleep: it is a victim
\* itself, or its waits lead into no loop any more.
NoLoopLeft ==
  done => ~\E D \in SUBSET active : Start \in D /\ Deadlocked(D)
=============================================================================
