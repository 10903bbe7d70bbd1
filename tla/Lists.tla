-------------------------------- MODULE Lists -------------------------------
(***************************************************************************)
(* Lists of the server (I_P_List, the queues of THR_LOCK): the entries at  *)
(* some of the positions of a sequence, in its order.                      *)
(***************************************************************************)
EXTENDS Naturals, Sequences, FiniteSets

(* The n-th smallest of the numbers P.                                     *)
Nth(P, n) == CHOOSE i \in P : Cardinality({j \in P : j <= i}) = n

(* The entries of s at the positions P.                                    *)
Sublist(s, P) == [n \in 1 .. Cardinality(P) |-> s[Nth(P, n)]]
=============================================================================
