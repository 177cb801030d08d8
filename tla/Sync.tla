-------------------------------- MODULE Sync --------------------------------
(***************************************************************************)
(* A till that goes on selling while its line is bad, and the server that  *)
(* takes in what it queued.                                                *)
(***************************************************************************)
EXTENDS SyncPush

Init ==
    /\ mode = "online" /\ outbox = <<>> /\ counter = NoCounters /\ due = FALSE /\ waiting = None
    /\ paper = [op \in Ops |-> None] /\ attempt = [op \in Ops |-> "none"]
    /\ posts = {} /\ replies = {} /\ push = [p \in Pushes |-> None]
    /\ rows = [op \in Ops |-> None] /\ keys = [op \in Ops |-> None] /\ counters = NoCounters
    /\ review = {} /\ unsynced = 0 /\ effects = [op \in Ops |-> 0] /\ verdicts = {}
    /\ dropped = {} /\ resends = 0 /\ mishaps = 0

Counter ==
    \/ \E b \in Bills : SaveSale(b) \/ SaleUnanswered(b)
    \/ \E r \in replies : SaleAnswered(r)
    \/ \E b \in Voided : VoidOffline(b)
    \/ \E b \in Returned : ReturnOffline(b)
    \/ Seed

Loop == HealthGood \/ PushIdle \/ \E p \in Pushes : SendPush(p) \/ TakeReply(p)

Serve ==
    \/ \E b \in Bills : PostSale(b)
    \/ \E p \in Pushes : ProcessOp(p) \/ EndPush(p)

Next ==
    \/ Counter \/ Loop \/ Serve
    \/ HealthBad \/ PushByHand \/ Restart
    \/ \E p \in Pushes : PushFails(p)
    \/ \E i \in DOMAIN outbox : Resend(i) \/ Discard(i)
    \/ \E op \in Ops : KeyExpires(op)

Spec == Init /\ [][Next]_vars

-----------------------------------------------------------------------------
(* Properties *)

\* Every document changes the books once, whatever was lost, sent again or resent:
\* the claim of the key, the replay by id and the till's one id per cart together.
OnceEach == \A op \in Ops : effects[op] <= 1

\* A row leaves the outbox only when the server has its document, or the owner
\* discarded it: nothing the till printed is lost between them.
NothingLost ==
    \A op \in Ops : attempt[op] = "queued" /\ ~ Queued(op) => Stored(op) \/ op \in dropped

\* A credit note or a void is refused for want of its bill only when that bill was
\* itself refused or discarded: a retry stops what comes after it, and a stuck bill
\* holds back its own.
InOrder ==
    \A op \in Ops : <<op, "SALE_NOT_FOUND">> \in verdicts =>
        \/ Sale(op[2]) \in dropped
        \/ \E v \in verdicts : v[1] = Sale(op[2])

\* The server's documents of one series carry different numbers, and its counter is
\* never behind a number it holds, whoever issued it, nor past the last of the month: a
\* number of its own is always a new one.
NumbersDiffer ==
    /\ \A a, b \in Ops : a # b /\ Stored(a) /\ Stored(b) /\ rows[a].no # None => rows[a].no # rows[b].no
    /\ \A c \in Series : counters[c] <= MaxDocNo
    /\ \A op \in Ops : Stored(op) /\ rows[op].no # None =>
          rows[op].no.seq <= counters[rows[op].no.series]

\* A customer's paper that does not carry the server's number is known to the owner
\* by the time the till has been told, and so is a document stored under another date
\* than its paper has.
PaperKnown ==
    /\ \A op \in Ops : Stored(op) /\ rows[op].offline /\ rows[op].dated = "server" /\ op[1] # "void" =>
        <<"date_flag", op>> \in review
    /\ \A op \in Ops :
        /\ paper[op] # None /\ Stored(op) /\ rows[op].no # paper[op]
        /\ attempt[op] = "queued" /\ ~ Queued(op) /\ op \notin dropped
        => <<"receipt_renumbered", op>> \in review
=============================================================================
