------------------------------ MODULE MCThrLock -----------------------------
(***************************************************************************)
(* The instances of ThrLock that TLC checks.  Table 1 is a MyISAM table    *)
(* (it has check_status()), table 2 an InnoDB one.                         *)
(***************************************************************************)
EXTENDS ThrLockProperties, TLC

CONSTANTS s1, s2, s3, d1

D(l, t) == [lock |-> l, type |-> t]

(* SELECT, LOCK TABLES READ and INSERT of the MyISAM table, an UPDATE of it  *)
(* that also reads it, an UPDATE LOW_PRIORITY of it that reads the InnoDB    *)
(* table, a LOCK TABLES WRITE of the InnoDB table with a high priority read  *)
(* of the other, and an INSERT into the InnoDB table.                        *)
MixedRequests ==
  {<<D(1, t)>> : t \in {"TL_READ", "TL_READ_NO_INSERT", "TL_WRITE_CONCURRENT_INSERT"}}
  \union {<<D(1, "TL_READ"), D(1, "TL_WRITE")>>,
          <<D(2, "TL_READ"), D(1, "TL_WRITE_LOW_PRIORITY")>>,
          <<D(1, "TL_READ_HIGH_PRIORITY"), D(2, "TL_WRITE")>>,
          <<D(2, "TL_WRITE_ALLOW_WRITE")>>}

Symmetry == Permutations({s1, s2, s3})
=============================================================================
