--------------------------- MODULE MCVaRangeSafe ---------------------------
(***************************************************************************)
(* The instances of MCVaRange that meet the assumptions of the theorems.   *)
(***************************************************************************)
EXTENDS MCVaRange

ASSUME SafeInstance == Layout /\ NoWrap /\ NoHighOffset /\ NonEmpty
=============================================================================
