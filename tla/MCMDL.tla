-------------------------------- MODULE MCMDL -------------------------------
(* Instances of MDL for TLC. *)
EXTENDS MDLProperties

CONSTANTS c1, c2, c3, c4, t1, t2, g

ContextSymmetry == Permutations(Contexts)

Rank == [k \in Keys |-> CASE k = g -> 0 [] k = t1 -> 1 [] k = t2 -> 2]

Req(k, type, dur) == [key |-> k, type |-> type, dur |-> dur, nowait |-> FALSE]
Trans(k, types) == {Req(k, type, "transaction") : type \in types}
NoWaitReq(k, type) ==
  [key |-> k, type |-> type, dur |-> "transaction", nowait |-> TRUE]

\* A database and a table in it: readers of the table, ALTER TABLE, which locks
\* the schema with IX and upgrades its lock on the table to X, DROP DATABASE.
LockRequests == Trans(g, {"IX", "X"}) \cup Trans(t1, {"SR", "SNW"})

\* One table through statements, a transaction and HANDLERs.
ListRequests ==
  {Req(t1, "SR", d) : d \in Durations} \cup Trans(t1, {"X"})

\* Two locks of one statement, whatever its connection has locked before.
ListBatches == {{Req(t1, "SR", "statement")} \cup Trans(t1, {"X"})}

\* Readers of a table, with NO_WAIT, and DDL that locks its name.
NameRequests == {NoWaitReq(t1, "SR")} \cup Trans(t1, {"X"})

\* Weak requests do not starve: with a finite max_write_lock_count the strong
\* requests that others never stop making give way to those of c1, which stands
\* for every connection (nothing tells them apart).
WeakServed == WeakAnswered(c1)
=============================================================================
