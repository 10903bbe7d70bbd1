------------------------------ MODULE MDLTypes ------------------------------
(***************************************************************************)
(* The lock types of sql/mdl.h and the compatibility matrices of           *)
(* sql/mdl.cc.  A bitmap_t of MDL_BIT()s is a set of types.                *)
(***************************************************************************)

\* enum_mdl_type: INTENTION_EXCLUSIVE, SHARED, SHARED_HIGH_PRIO, SHARED_READ,
\* SHARED_WRITE, SHARED_NO_WRITE, SHARED_NO_READ_WRITE, EXCLUSIVE.
MDLTypeSet == {"IX", "S", "SH", "SR", "SW", "SNW", "SNRW", "X"}

\* enum_mdl_duration
Durations == {"statement", "transaction", "explicit"}

\* MDL_wait::enum_wait_status
WaitStatuses == {"EMPTY", "GRANTED", "VICTIM", "TIMEOUT", "KILLED", "ABORTED"}

\* MDL_scoped_lock::m_granted_incompatible: locks of the GLOBAL, COMMIT and
\* SCHEMA namespaces.
ScopedGrantedIncompatible ==
  [t \in MDLTypeSet |->
     CASE t = "IX" -> {"X", "S"}
       [] t = "S"  -> {"X", "IX"}
       [] t = "X"  -> {"X", "S", "IX"}
       [] OTHER    -> {}]

\* MDL_scoped_lock::m_waiting_incompatible
ScopedWaitingIncompatible ==
  [t \in MDLTypeSet |->
     CASE t = "IX" -> {"X", "S"}
       [] t = "S"  -> {"X"}
       [] OTHER    -> {}]

\* Mutant: SNW does not exclude SNW.
ObjectGrantedIncompatible_TwoSNW ==
  [t \in MDLTypeSet |->
     CASE t \in {"S", "SH"} -> {"X"}
       [] t = "SR"   -> {"X", "SNRW"}
       [] t = "SW"   -> {"X", "SNRW", "SNW"}
       [] t = "SNW"  -> {"X", "SNRW", "SW"}
       [] t = "SNRW" -> {"X", "SNRW", "SNW", "SW", "SR"}
       [] t = "X"    -> {"X", "SNRW", "SNW", "SW", "SR", "SH", "S"}
       [] OTHER      -> {}]

\* MDL_object_lock::m_granted_incompatible: locks on tables and routines.
ObjectGrantedIncompatible ==
  [t \in MDLTypeSet |->
     CASE t \in {"S", "SH"} -> {"X"}
       [] t = "SR"   -> {"X", "SNRW"}
       [] t = "SW"   -> {"X", "SNRW", "SNW"}
       [] t = "SNW"  -> {"X", "SNRW", "SNW", "SW"}
       [] t = "SNRW" -> {"X", "SNRW", "SNW", "SW", "SR"}
       [] t = "X"    -> {"X", "SNRW", "SNW", "SW", "SR", "SH", "S"}
       [] OTHER      -> {}]

\* MDL_object_lock::m_waiting_incompatible
ObjectWaitingIncompatible ==
  [t \in MDLTypeSet |->
     CASE t = "S"  -> {"X"}
       [] t = "SR" -> {"X", "SNRW"}
       [] t = "SW" -> {"X", "SNRW", "SNW"}
       [] t \in {"SNW", "SNRW"} -> {"X"}
       [] OTHER    -> {}]

\* The matrices an MDL_lock uses, by the class MDL_lock::create() gives it.
GrantedIncompatible(scoped, type) ==
  IF scoped THEN ScopedGrantedIncompatible[type] ELSE ObjectGrantedIncompatible[type]

WaitingIncompatible(scoped, type) ==
  IF scoped THEN ScopedWaitingIncompatible[type] ELSE ObjectWaitingIncompatible[type]

\* hog_lock_types_bitmap()
HogTypes(scoped) == IF scoped THEN {} ELSE {"SNW", "SNRW", "X"}

\* MDL_ticket::has_stronger_or_equal_type(): a ticket of type "held" excludes
\* everything a ticket of type "wanted" would.
HasStrongerOrEqualType(scoped, held, wanted) ==
  GrantedIncompatible(scoped, wanted) \subseteq GrantedIncompatible(scoped, held)
=============================================================================
