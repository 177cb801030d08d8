------------------------------ MODULE MCAccess ------------------------------
(* A few requests beside a few operations of the platform. *)
EXTENDS Access, TLC

\* A third request, and the second in which a dead chain is dropped, only where the
\* platform does nothing: there a token that two others have presented comes again.
ThirdAlone == admin = 0 \/ (now < MaxTime /\ \E r \in Reqs : req[r] = Idle)

AccessSymmetry == Permutations(Reqs) \cup Permutations(Machines)
=============================================================================
