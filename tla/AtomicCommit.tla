---------------------------- MODULE AtomicCommit ----------------------------
(***************************************************************************)
(* What two-phase commit between the storage engine and the binary log     *)
(* promises the clients and the slaves of a server, whatever crashes:      *)
(*                                                                         *)
(*  - a transaction is decided once and the decision never changes;        *)
(*  - the engine shows the effects of committed transactions only;         *)
(*  - a client hears "ok" only of a committed transaction whose effects    *)
(*    are in the engine and stay there, and "error" only of an aborted     *)
(*    one.                                                                 *)
(*                                                                         *)
(* A crash decides every transaction that was under way and may take the   *)
(* effects of committed transactions out of the engine until recovery puts *)
(* them back, never of one the client was told of.                         *)
(***************************************************************************)
CONSTANT Trx   \* the transactions

VARIABLES
  decision,   \* Trx -> "undecided", "committed" or "aborted"
  applied,    \* the transactions whose effects the engine shows
  told        \* Trx -> what the client heard: "nothing", "ok" or "error"

vars == <<decision, applied, told>>

Init ==
  /\ decision = [t \in Trx |-> "undecided"]
  /\ applied = {}
  /\ told = [t \in Trx |-> "nothing"]

(* One transaction ends up in the log, or is rolled back.                  *)
Decide(t) ==
  /\ decision[t] = "undecided"
  /\ \E d \in {"committed", "aborted"} :
       decision' = [decision EXCEPT ![t] = d]
  /\ UNCHANGED <<applied, told>>

Apply(t) ==
  /\ decision[t] = "committed"
  /\ applied' = applied \cup {t}
  /\ UNCHANGED <<decision, told>>

Tell(t) ==
  /\ told[t] = "nothing"
  /\ \/ /\ decision[t] = "committed"
        /\ t \in applied
        /\ told' = [told EXCEPT ![t] = "ok"]
     \/ /\ decision[t] = "aborted"
        /\ told' = [told EXCEPT ![t] = "error"]
  /\ UNCHANGED <<decision, applied>>

Crash ==
  /\ decision' \in [Trx -> {"undecided", "committed", "aborted"}]
  /\ \A t \in Trx : decision[t] # "undecided" => decision'[t] = decision[t]
  /\ applied' \in SUBSET applied
  /\ \A t \in applied : told[t] = "ok" => t \in applied'
  /\ UNCHANGED told

Next ==
  \/ \E t \in Trx : Decide(t) \/ Apply(t) \/ Tell(t)
  \/ Crash

Spec == Init /\ [][Next]_vars
=============================================================================
