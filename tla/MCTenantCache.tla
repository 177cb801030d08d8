---------------------------- MODULE MCTenantCache ----------------------------
(* Two readers and a writer; a token for everyone who may draw one. *)
EXTENDS TenantCache, TLC

CONSTANTS t1, t2, t3

\* Tokens are alike: only the behaviours that draw them in order are followed.
DrawnInOrder == (t2 \in drawn => t1 \in drawn) /\ (t3 \in drawn => t2 \in drawn)
=============================================================================
