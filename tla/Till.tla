-------------------------------- MODULE Till --------------------------------
(***************************************************************************)
(* The till's side (frontend/lib/data): ApiSalesRepository.saveSale,       *)
(* voidOffline and the offline credit note, DocNumberService, and          *)
(* SyncService with its health probe, its push loop and the owner's resend *)
(* and discard.  Everything the till does to its own database is one local *)
(* transaction, so one step.                                               *)
(***************************************************************************)
EXTENDS SyncState

\* _isDegraded: anything queued, stuck and rejected included, sends a write to the outbox.
Offline == mode # "online" \/ outbox # <<>>

\* _saveOffline, voidOffline, _createOffline: the number, the local rows and the
\* outbox row together; push() follows unless the line is down (newMode).
Enqueue(op, no, newMode) ==
    /\ outbox' = Append(outbox, [op |-> op, no |-> no, status |-> "pending", attempts |-> 0])
    /\ paper' = [paper EXCEPT ![op] = no]
    /\ counter' = IF no = None THEN counter ELSE RecordClientDocNumber(counter, no)
    /\ attempt' = [attempt EXCEPT ![op] = "queued"]
    /\ due' = (due \/ newMode # "degraded")

\* issueOffline: the next number of the till's own counter, DOC_NUMBER_EXHAUSTED past the last.
EnqueueNumbered(op, newMode) ==
    /\ MayIssue(counter, SeriesOf(op))
    /\ Enqueue(op, NextDocNo(counter, SeriesOf(op)), newMode)

\* saveSale: first press, or another press for a cart whose attempt is parked.
SaveSale(b) ==
    /\ attempt[Sale(b)] \in {"none", "parked"}
    /\ \/ /\ Offline
          /\ EnqueueNumbered(Sale(b), mode)
          /\ UNCHANGED posts
       \/ /\ ~ Offline
          /\ posts' = posts \cup {b}
          /\ attempt' = [attempt EXCEPT ![Sale(b)] = "asked"]
          /\ UNCHANGED <<outbox, paper, counter, due>>
    /\ UNCHANGED <<mode, waiting, replies, push, server, owner>>

\* saveSale: the answer.  A number is the bill, patched into the till's tables and
\* its counter (commitServerIssued); a refusal closes the attempt.
SaleAnswered(r) ==
    LET op == Sale(r.bill) IN
    /\ attempt[op] = "asked"
    /\ replies' = replies \ {r}
    /\ \/ /\ r.no # None
          /\ attempt' = [attempt EXCEPT ![op] = "online"]
          /\ paper' = [paper EXCEPT ![op] = r.no]
          /\ counter' = RecordClientDocNumber(counter, r.no)
       \/ /\ r.no = None
          /\ attempt' = [attempt EXCEPT ![op] = "given up"]
          /\ UNCHANGED <<paper, counter>>
    /\ UNCHANGED <<mode, outbox, due, waiting, posts, push, server, owner>>

\* saveSale: no verdict.  A transport failure queues the same id and key; a 5xx or an
\* unreadable answer leaves the attempt parked.  The request may still be on its way.
SaleUnanswered(b) ==
    /\ attempt[Sale(b)] = "asked"
    /\ replies' = {r \in replies : r.bill # b}
    /\ \/ /\ mode' = "degraded"
          /\ EnqueueNumbered(Sale(b), "degraded")
       \/ /\ attempt' = [attempt EXCEPT ![Sale(b)] = "parked"]
          /\ UNCHANGED <<mode, outbox, paper, counter, due>>
    /\ UNCHANGED <<waiting, posts, push, server>>
    /\ Mishap

\* voidOffline: only a bill of this till sold offline, and not returned.
VoidOffline(b) ==
    /\ Offline
    /\ attempt[Sale(b)] = "queued" /\ attempt[Void(b)] = "none"
    /\ b \in Returned => attempt[Return(b)] = "none"
    /\ Enqueue(Void(b), None, mode)
    /\ UNCHANGED <<mode, waiting, wire, server, owner>>

\* ApiReturnsRepository: a credit note made offline, of a bill that still stands.
ReturnOffline(b) ==
    /\ Offline
    /\ attempt[Sale(b)] \in {"online", "queued"} /\ attempt[Return(b)] = "none"
    /\ b \in Voided => attempt[Void(b)] = "none"
    /\ EnqueueNumbered(Return(b), mode)
    /\ UNCHANGED <<mode, waiting, wire, server, owner>>

\* DocCounterSeeder: forDeviceIn's counters; MAX keeps the higher.
Seed ==
    /\ mode = "online"
    /\ counter' = [c \in DOMAIN counter |-> IF counters[c] > counter[c] THEN counters[c] ELSE counter[c]]
    /\ counter' # counter
    /\ UNCHANGED <<mode, outbox, paper, attempt, due, waiting, wire, server, owner>>

-----------------------------------------------------------------------------
\* checkHealth.  Slow once or failed three times: degraded.
HealthBad ==
    /\ mode # "degraded"
    /\ mode' = "degraded"
    /\ UNCHANGED <<outbox, counter, paper, attempt, due, waiting, wire, server>>
    /\ Mishap

\* _handleHealthSuccess: out of degraded, and only then, it pushes.
HealthGood ==
    /\ mode = "degraded"
    /\ mode' = "syncing"
    /\ due' = TRUE
    /\ UNCHANGED <<outbox, counter, paper, attempt, waiting, wire, server, owner>>

\* The aggregates of an operation's row: its own first, then the bill it is about.
OwnAggregate(op) == IF op[1] = "return" THEN op ELSE Sale(op[2])
Aggregates(op) == {OwnAggregate(op), Sale(op[2])}

\* findSendableOps: what is stuck or rejected holds back whatever names its own aggregate.
Blocked ==
    {OwnAggregate(outbox[i].op) : i \in {j \in DOMAIN outbox : outbox[j].status # "pending"}}

FindSendableOps ==
    Kept(outbox, {i \in DOMAIN outbox :
                    outbox[i].status = "pending" /\ Aggregates(outbox[i].op) \cap Blocked = {}})

\* Closing the drawer and the mechanics screen push too.
PushByHand ==
    /\ ~ due /\ FindSendableOps # <<>>
    /\ due' = TRUE
    /\ UNCHANGED <<mode, outbox, counter, paper, attempt, waiting, wire, server, owner>>

\* push: the next batch, and how many rows it leaves in the outbox.
SendPush(p) ==
    /\ due /\ waiting = None
    /\ push[p] = None /\ \A q \in Pushes : q < p => push[q] # None
    /\ FindSendableOps # <<>>
    /\ LET batch == SubSeq(FindSendableOps, 1, IF Len(FindSendableOps) < BatchSize
                                               THEN Len(FindSendableOps) ELSE BatchSize)
       IN  push' = [push EXCEPT ![p] = [stage |-> "running", ops |-> batch, results |-> <<>>,
                                        nos |-> <<>>, remaining |-> Len(outbox) - Len(batch)]]
    /\ waiting' = p
    /\ UNCHANGED <<mode, outbox, counter, paper, attempt, due, posts, replies, server, owner>>

\* push: nothing to send.
PushIdle ==
    /\ due /\ waiting = None
    /\ FindSendableOps = <<>>
    /\ due' = FALSE
    /\ mode' = IF mode = "syncing" THEN "online" ELSE mode
    /\ UNCHANGED <<outbox, counter, paper, attempt, waiting, wire, server, owner>>

\* One more answer that was no verdict: after the last the row is stuck.
Failed(e) ==
    [e EXCEPT !.attempts = e.attempts + 1,
              !.status = IF e.attempts + 1 >= StuckAt THEN "stuck" ELSE "pending"]

\* _handleHeadFailure: the line broke, or a 5xx, or a 429: the batch's first row pays.
PushFails(p) ==
    /\ waiting = p
    /\ mode' = "degraded"
    /\ outbox' = [i \in DOMAIN outbox |->
                    IF outbox[i].op = push[p].ops[1].op THEN Failed(outbox[i]) ELSE outbox[i]]
    /\ due' = FALSE
    /\ waiting' = None
    /\ push' = [push EXCEPT ![p] = IF push[p].stage = "answered" THEN Over ELSE push[p]]
    /\ UNCHANGED <<counter, paper, attempt, posts, replies, server>>
    /\ Mishap

\* push: the results in order up to the first retry; an applied row goes, and the
\* till's row takes the server's number (_patchDocNo).
TakeReply(p) ==
    LET r == push[p].results
        At(op) == CHOOSE i \in DOMAIN push[p].ops : push[p].ops[i].op = op
        Said(e, what) ==
            \E i \in DOMAIN r : push[p].ops[i].op = e.op /\ r[i] = what
        FirstRetry(e) ==
            Said(e, "retry") /\ \A i \in DOMAIN r : i < At(e.op) => r[i] # "retry"
        After(e) == IF Said(e, "rejected") THEN [e EXCEPT !.status = "rejected", !.attempts = 0]
                    ELSE IF FirstRetry(e) THEN Failed(e)
                    ELSE e
        kept == Kept(outbox, {i \in DOMAIN outbox : ~ Said(outbox[i], "applied")})
        patched == {i \in DOMAIN r : r[i] = "applied" /\ push[p].nos[i] # None}
    IN
    /\ waiting = p /\ push[p].stage = "answered"
    /\ outbox' = [i \in DOMAIN kept |-> After(kept[i])]
    /\ counter' = [c \in Series |->
                    Max({counter[c]} \cup {push[p].nos[i].seq : i \in {j \in patched : push[p].nos[j].series = c}})]
    /\ due' = \A i \in DOMAIN r : r[i] # "retry"
    /\ waiting' = None
    /\ push' = [push EXCEPT ![p] = Over]
    /\ UNCHANGED <<mode, paper, attempt, posts, replies, server, owner>>

\* The page is closed and opened again: the outbox and the counters stay, what was
\* only in memory goes.
Restart ==
    /\ mode' = "online"
    /\ due' = FALSE
    /\ waiting' = None
    /\ attempt' = [op \in Ops |-> IF attempt[op] \in {"asked", "parked"} THEN "given up"
                                  ELSE attempt[op]]
    /\ replies' = {}
    /\ push' = [p \in Pushes |->
                  IF p = waiting /\ push[p].stage = "answered" THEN Over ELSE push[p]]
    /\ UNCHANGED <<outbox, counter, paper, posts, server>>
    /\ Mishap

-----------------------------------------------------------------------------
Status(i, s) == outbox[i].status \in s

\* resend: the same key, the same number.
Resend(i) ==
    /\ Status(i, {"stuck", "rejected"})
    /\ resends < MaxResends
    /\ resends' = resends + 1
    /\ outbox' = [outbox EXCEPT ![i] = [outbox[i] EXCEPT !.status = "pending", !.attempts = 0]]
    /\ due' = (due \/ mode # "degraded")
    /\ UNCHANGED <<mode, counter, paper, attempt, waiting, wire, server, dropped, mishaps>>

\* discardOp: whether the server holds the document, whoever sent it.
ServerHasRow(op) == Stored(op)

\* discard: refused for a bill with a credit note; a bill
\* still queued takes its queued void along.  What the server does not have is undone.
Discard(i) ==
    LET op == outbox[i].op
        b == op[2]
        gone == {op} \cup {v \in {Void(b)} : op[1] = "sale" /\ ~ ServerHasRow(op) /\ Queued(v)}
    IN
    /\ Status(i, {"stuck", "rejected"})
    /\ resends < MaxResends
    /\ op[1] = "sale" =>
          /\ b \in Returned => attempt[Return(b)] # "queued"
          /\ b \in Voided /\ attempt[Void(b)] = "queued" => Queued(Void(b))
    /\ resends' = resends + 1
    /\ outbox' = Kept(outbox, {k \in DOMAIN outbox : outbox[k].op \notin gone})
    /\ attempt' = [o \in Ops |-> IF o \notin gone \/ ServerHasRow(o) THEN attempt[o]
                                 ELSE IF o[1] = "void" THEN "none" ELSE "given up"]
    /\ dropped' = dropped \cup gone
    /\ UNCHANGED <<mode, counter, paper, due, waiting, wire, server, mishaps>>
=============================================================================
