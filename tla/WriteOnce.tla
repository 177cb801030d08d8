------------------------------ MODULE WriteOnce ------------------------------
(***************************************************************************)
(* What the idempotency record promises to every money- and stock-moving   *)
(* endpoint: while a key has a record, its work is not done again; a       *)
(* success names work that was done for that very request; anything else   *)
(* is a refusal that did nothing.                                          *)
(***************************************************************************)
CONSTANTS Reqs, Keys, Nobody

VARIABLES key, print,   \* what each attempt carries, fixed
          record,       \* record[k]: whose work the live record of k stands for
          executed,     \* attempts whose work is done
          answer        \* what each attempt was told

avars == <<key, print, record, executed, answer>>

Unanswered == [kind |-> "none", body |-> Nobody]

Refusals == [kind : {"reused", "in_flight", "error"}, body : {Nobody}]

Init ==
    /\ record = [k \in Keys |-> Nobody]
    /\ executed = {}
    /\ answer = [r \in Reqs |-> Unanswered]

\* The work of r is done; r's client may or may not hear of it.
Execute(r) ==
    /\ r \notin executed
    /\ record[key[r]] = Nobody
    /\ record' = [record EXCEPT ![key[r]] = r]
    /\ executed' = executed \cup {r}
    /\ \E a \in {[kind |-> "ok", body |-> r], [kind |-> "error", body |-> Nobody], Unanswered} :
          answer' = [answer EXCEPT ![r] = a]
    /\ UNCHANGED <<key, print>>

\* r is told the outcome of the work already done for the same request.
Replay(r) ==
    /\ answer[r] = Unanswered
    /\ \E s \in executed :
          /\ key[s] = key[r] /\ print[s] = print[r]
          /\ answer' = [answer EXCEPT ![r] = [kind |-> "ok", body |-> s]]
    /\ UNCHANGED <<key, print, record, executed>>

Refuse(r) ==
    /\ answer[r] = Unanswered
    /\ \E a \in Refusals : answer' = [answer EXCEPT ![r] = a]
    /\ UNCHANGED <<key, print, record, executed>>

\* The record of k ends its life.
Expire(k) ==
    /\ record[k] # Nobody
    /\ record' = [record EXCEPT ![k] = Nobody]
    /\ UNCHANGED <<key, print, executed, answer>>

Next ==
    \/ \E r \in Reqs : Execute(r) \/ Replay(r) \/ Refuse(r)
    \/ \E k \in Keys : Expire(k)

Spec == Init /\ [][Next]_avars
=============================================================================
