------------------------------ MODULE SyncPush ------------------------------
(***************************************************************************)
(* The server's side: POST /sales under its key (sales.controller.ts), and *)
(* POST /sync/push (sync.service.ts), one transaction per operation.  A    *)
(* claimed key is locked until its transaction ends, so a transaction is   *)
(* one step; what waited for it too long is one of the transient errors.   *)
(* What the books say otherwise (stock, credit, the drawer) may refuse any *)
(* document, and is modelled in Shop.                                      *)
(***************************************************************************)
EXTENDS Till

\* The document goes into the books.
Execute(op, row) ==
    /\ rows' = [rows EXCEPT ![op] = row]
    /\ effects' = [effects EXCEPT ![op] = @ + 1]

\* Only a till that still waits can hear the answer.
AnswerPost(b, no) ==
    replies' = IF attempt[Sale(b)] = "asked" THEN replies \cup {[bill |-> b, no |-> no]} ELSE replies

\* POST /sales: replay by key; a key of another fingerprint is a 409; replay by id
\* (existingSale), a voided bill excepted; else a number of the server's own.
PostSale(b) ==
    LET op == Sale(b)
        refused == AnswerPost(b, None) /\ UNCHANGED <<rows, keys, counters, effects>>
        replayed == AnswerPost(b, rows[op].no) /\ UNCHANGED <<rows, counters, effects>>
    IN
    /\ b \in posts
    /\ posts' = posts \ {b}
    /\ \/ keys[op] = "queued" /\ refused
       \/ keys[op] = "online" /\ replayed /\ UNCHANGED keys
       \/ /\ keys[op] = None /\ Stored(op)
          /\ IF b \in Voided /\ Stored(Void(b)) THEN refused
             ELSE replayed /\ keys' = [keys EXCEPT ![op] = "online"]
       \/ keys[op] = None /\ ~ Stored(op) /\ refused
       \/ /\ keys[op] = None /\ ~ Stored(op)
          /\ MayIssue(counters, "RC")
          /\ LET no == NextDocNo(counters, "RC") IN
             /\ Execute(op, [no |-> no, offline |-> FALSE, dated |-> "server"])
             /\ counters' = RecordClientDocNumber(counters, no)
             /\ AnswerPost(b, no)
          /\ keys' = [keys EXCEPT ![op] = "online"]
    /\ UNCHANGED <<till, push, review, unsynced, verdicts, owner>>

-----------------------------------------------------------------------------
\* replayProbeOf: the row an operation's id names, read from the body as it was sent;
\* one document's bodies agree in what is compared.
ReplayProbe(op) == rows[op]

\* checkClientIdReplay, sale.void_offline: the bill is voided already.
ReplayVoid(op) == op[1] = "void" /\ Stored(op)

\* Mutant: an id the server already holds is not looked up.
ClientIdReplayNever(op) == FALSE

\* checkClientIdReplay, and existingSale and its like behind it: the server has this
\* document.
ClientIdReplay(op) ==
    \/ ReplayVoid(op)
    \/ op[1] # "void" /\ ReplayProbe(op) # None

\* Mutant: the number on the customer's paper is not compared.
FlagRenumberedNever(op, paperNo) == {}

\* flagRenumbered: the paper's number is not the one the server holds.
FlagRenumbered(op, paperNo) ==
    IF paperNo # None /\ paperNo # rows[op].no THEN {<<"receipt_renumbered", op>>} ELSE {}

\* clampOpDate, insertDateFlag: a date past the tolerance is moved, and said so.
DateFlag(op) == IF op[1] # "void" /\ op[2] \in LateDated THEN {<<"date_flag", op>>} ELSE {}

ClampOpDate(op) == IF op[2] \in LateDated THEN "server" ELSE "till"

\* What executeOp refuses an operation for, besides the books.
NotFound(op) == op[1] # "sale" /\ ~ Stored(Sale(op[2]))
NeedsOnline(op) == op[1] = "void" /\ Stored(Sale(op[2])) /\ ~ rows[Sale(op[2])].offline
Standing(op) ==
    /\ op[1] = "return" /\ op[2] \in Voided => ~ Stored(Void(op[2]))
    /\ op[1] = "void" /\ op[2] \in Returned => ~ Stored(Return(op[2]))

\* RECEIPT_NO_CONFLICT, and its like for credit notes.
NumberTaken(no) == no # None /\ \E o \in Ops : Stored(o) /\ rows[o].no = no

\* mapOpError: an HTTP error under 500 is a verdict, anything else is no answer.
Rejected(e, code) ==
    /\ verdicts' = verdicts \cup {<<e.op, code>>}
    /\ UNCHANGED <<rows, keys, counters, review, effects>>

\* executeOp, sale.void_offline: the owner is told.
VoidFlag(op) == IF op[1] = "void" THEN {<<"void_offline", op>>} ELSE {}

\* executeOp: what the operation writes, its number recorded with it.
ExecuteOp(e) ==
    /\ Execute(e.op, [no |-> e.no, offline |-> TRUE, dated |-> ClampOpDate(e.op)])
    /\ counters' = IF e.no = None THEN counters ELSE RecordClientDocNumber(counters, e.no)
    /\ review' = review \cup DateFlag(e.op) \cup VoidFlag(e.op)

\* processSingleOpIn: the replay by key, by the same document under another
\* fingerprint, by id, and else the execution; the key is completed with it.
Applied(e) ==
    \/ /\ keys[e.op] = "queued"
       /\ UNCHANGED <<rows, keys, counters, review, effects>>
    \/ /\ keys[e.op] # "queued" /\ ClientIdReplay(e.op)
       /\ review' = review \cup FlagRenumbered(e.op, e.no)
       /\ keys' = IF keys[e.op] = None THEN [keys EXCEPT ![e.op] = "queued"] ELSE keys
       /\ UNCHANGED <<rows, counters, effects>>
    \/ /\ keys[e.op] = None /\ ~ ClientIdReplay(e.op)
       /\ ~ NotFound(e.op) /\ ~ NeedsOnline(e.op) /\ Standing(e.op)
       /\ e.no # None => ValidDocNumber(SeriesOf(e.op), e.no)
       /\ ~ NumberTaken(e.no)
       /\ ExecuteOp(e)
       /\ keys' = [keys EXCEPT ![e.op] = "queued"]

\* parseOpPayload, only once neither replay answered: a body it refuses is a verdict.
ParseRefused(e) == Rejected(e, "REFUSED")

Refused(e) ==
    /\ keys[e.op] = None /\ ~ ClientIdReplay(e.op)
    /\ \/ NotFound(e.op) /\ Rejected(e, "SALE_NOT_FOUND")
       \/ NeedsOnline(e.op) /\ Rejected(e, "VOID_NEEDS_ONLINE")
       \/ ~ NotFound(e.op) /\ NumberTaken(e.no) /\ Rejected(e, "RECEIPT_NO_CONFLICT")
       \/ ParseRefused(e)
       \/ ~ NotFound(e.op) /\ Rejected(e, "REFUSED")

\* Mutant: an operation after a retry is still processed.
StopAtRetryNever(results) == FALSE

\* processPush: stopAtRetry.
StopAtRetry(results) == \E i \in DOMAIN results : results[i] = "retry"

\* Mutant: an error that is no verdict counts as done.
TransientResultApplied == "applied"

\* mapOpError: a 5xx, a key in flight, a deadlock, a commit past its ceiling.
TransientResult == "retry"

\* parseSyncPush: the envelope.  A batch it refused whole would never get a verdict.
ParseSyncPush(q) == Len(q.ops) \in 1..BatchSize /\ q.remaining \in Nat

\* processPush: the next operation of the batch.
ProcessOp(p) ==
    LET k == Len(push[p].results) + 1
        e == push[p].ops[k]
        Says(result) ==
            push' = [push EXCEPT ![p] =
                [push[p] EXCEPT !.results = Append(push[p].results, result),
                                !.nos = Append(push[p].nos,
                                               IF result = "applied" /\ rows'[e.op] # None
                                               THEN rows'[e.op].no ELSE None)]]
    IN
    /\ push[p] # None
    /\ push[p].stage = "running" /\ k <= Len(push[p].ops) /\ ParseSyncPush(push[p])
    /\ \/ /\ StopAtRetry(push[p].results)
          /\ UNCHANGED <<rows, keys, counters, review, effects, verdicts, owner>>
          /\ Says("retry")
       \/ /\ ~ StopAtRetry(push[p].results)
          /\ \/ /\ Mishap
                /\ UNCHANGED <<rows, keys, counters, review, effects, verdicts>>
                /\ Says(TransientResult)
             \/ Applied(e) /\ UNCHANGED <<verdicts, owner>> /\ Says("applied")
             \/ Refused(e) /\ UNCHANGED owner /\ Says("rejected")
    /\ UNCHANGED <<till, posts, replies, unsynced>>

\* processPush: the till's count is filed (a failure to is only logged).
EndPush(p) ==
    /\ push[p] # None
    /\ push[p].stage = "running" /\ Len(push[p].results) = Len(push[p].ops)
    /\ push' = [push EXCEPT ![p] = IF waiting = p THEN [push[p] EXCEPT !.stage = "answered"] ELSE Over]
    /\ unsynced' = push[p].remaining
    /\ UNCHANGED <<till, posts, replies, rows, keys, counters, review, effects, verdicts, owner>>

\* A key's day is over, or the worker swept it.
KeyExpires(op) ==
    /\ keys[op] # None
    /\ keys' = [keys EXCEPT ![op] = None]
    /\ UNCHANGED <<till, wire, rows, counters, review, unsynced, effects, verdicts>>
    /\ Mishap
=============================================================================
