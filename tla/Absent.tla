------------------------------- MODULE Absent -------------------------------
(***************************************************************************)
(* What the parts of the office write where there is no row, no request or  *)
(* no value: SQL's NULL.                                                    *)
(***************************************************************************)
CONSTANT None
=============================================================================
