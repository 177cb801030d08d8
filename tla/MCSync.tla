------------------------------- MODULE MCSync -------------------------------
(***************************************************************************)
(* Two carts, one of them returned or voided, at a till whose counter runs *)
(* out at MaxDocNo.                                                        *)
(***************************************************************************)
EXTENDS Sync
=============================================================================
