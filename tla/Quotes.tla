------------------------------- MODULE Quotes -------------------------------
(***************************************************************************)
(* Quotes and the bills sold from them (server/src/quotes,                 *)
(* server/src/sales/quote-sale.service.ts).  A request is one transaction: *)
(* it takes the quote's row FOR UPDATE, decides, and writes the bill and   *)
(* the mark in one commit.  A request may fail or lose its reply at any    *)
(* point, and its retry carries the bill's id but not necessarily the same *)
(* Idempotency-Key, so the keys are left out.                              *)
(***************************************************************************)
EXTENDS Naturals, FiniteSets, Absent

CONSTANTS
    Quotes,             \* quote ids, each given out once
    QuoteBills,         \* bill ids; a cart's id names one quote (api_sales_repository.dart:259)
    QuoteOf,            \* the quote each bill is sold from
    Converts,           \* the bills sold through POST /quotes/:id/convert
    QuoteRequests,      \* slots for requests under way
    LastDay,            \* the days that pass
    ValidDays, KeepDays,
    MaxQuoteRequests   \* how many requests are made

Findings == {"missing", "converted", "replay", "expired", "sale_id_taken", "fresh"}
BillRow == [voided : BOOLEAN, offline : BOOLEAN, found : Findings]

ASSUME QuotesAssumption ==
    /\ QuoteOf \in [QuoteBills -> Quotes] /\ Converts \subseteq QuoteBills
    /\ {LastDay, ValidDays, KeepDays, MaxQuoteRequests} \subseteq Nat
    /\ None \notin Quotes \cup QuoteBills \cup BillRow

VARIABLES
    quote,          \* id -> its row, or None
    issued,         \* the ids given out
    bill,           \* id -> its row, or None
    quoteReq,       \* slot -> the request in it, or None
    quoteReview,    \* quote_conflict review items: <<bill, reason>>
    today,
    sold,           \* history: quote -> the bills that marked it converted
    refused,        \* history: <<bill, code, the bill's row when it was answered>>
    asked           \* how many requests were made

quoteVars == <<quote, issued, bill, quoteReq, quoteReview, today, sold, refused, asked>>

QuotesInit ==
    /\ quote = [q \in Quotes |-> None] /\ issued = {}
    /\ bill = [b \in QuoteBills |-> None]
    /\ quoteReq = [r \in QuoteRequests |-> None]
    /\ quoteReview = {} /\ today = 0
    /\ sold = [q \in Quotes |-> {}] /\ refused = {} /\ asked = 0

-----------------------------------------------------------------------------
(* Rows *)

\* A quote is locked by the one request that read it FOR UPDATE.
Unlocked(q) ==
    \A r \in QuoteRequests :
        quoteReq[r] # None => ~ (quoteReq[r].step = "locked" /\ quoteReq[r].found # "missing"
                                 /\ QuoteOf[quoteReq[r].bill] = q)


\* Another sale's FOR UPDATE waits for it.
\* Mutant: the row is read FOR SHARE.
NeverWaits(q) == FALSE
Waits(q) == ~ Unlocked(q)

Converted(q) == quote[q].status = "converted"
Expired(q, at) == quote[q].until < at
OpenRow(loose) ==
    [status |-> "open", loose |-> loose, header |-> "saved", until |-> today + ValidDays,
     at |-> None, sold |-> None]

-----------------------------------------------------------------------------
(* The office *)

\* POST /quotes: lines may name a part that is not in the catalogue.
CreateQuote(q, loose) ==
    /\ q \notin issued /\ issued' = issued \cup {q}
    /\ quote' = [quote EXCEPT ![q] = OpenRow(loose)]
    /\ UNCHANGED <<bill, quoteReq, quoteReview, today, sold, refused, asked>>

\* POST /quotes/:id/duplicate: a plain read, so a row being converted is copied too.
DuplicateQuote(q, copy) ==
    /\ quote[q] # None /\ copy \notin issued /\ issued' = issued \cup {copy}
    /\ quote' = [quote EXCEPT ![copy] = [OpenRow(quote[q].loose) EXCEPT !.header = quote[q].header]]
    /\ UNCHANGED <<bill, quoteReq, quoteReview, today, sold, refused, asked>>

\* PATCH /quotes/:id: header text, and only of a quote no bill was sold from.
UpdateQuote(q) ==
    /\ quote[q] # None /\ Unlocked(q) /\ ~ Converted(q) /\ quote[q].header = "saved"
    /\ quote' = [quote EXCEPT ![q] = [@ EXCEPT !.header = "edited"]]
    /\ UNCHANGED <<issued, bill, quoteReq, quoteReview, today, sold, refused, asked>>

\* DELETE /quotes/:id waits for a sale that holds the row, then checks again.
DeleteQuote(q) ==
    /\ quote[q] # None /\ Unlocked(q) /\ ~ Converted(q)
    /\ quote' = [quote EXCEPT ![q] = None]
    /\ UNCHANGED <<issued, bill, quoteReq, quoteReview, today, sold, refused, asked>>

\* The purge job: old converted quotes, and quotes long expired.
Old(q) ==
    /\ quote[q] # None
    /\ IF Converted(q) THEN quote[q].at + KeepDays < today ELSE quote[q].until + KeepDays < today
PurgeQuotes ==
    LET gone == {q \in Quotes : Old(q)} IN
    /\ gone # {} /\ \A q \in gone : Unlocked(q)
    /\ quote' = [q \in Quotes |-> IF q \in gone THEN None ELSE quote[q]]
    /\ UNCHANGED <<issued, bill, quoteReq, quoteReview, today, sold, refused, asked>>

\* A void puts the stock back and never reads quotes.
VoidBill(b) ==
    /\ bill[b] # None /\ ~ bill[b].voided
    /\ bill' = [bill EXCEPT ![b] = [@ EXCEPT !.voided = TRUE]]
    /\ UNCHANGED <<quote, issued, quoteReq, quoteReview, today, sold, refused, asked>>

NextDay ==
    /\ today < LastDay /\ today' = today + 1
    /\ UNCHANGED <<quote, issued, bill, quoteReq, quoteReview, sold, refused, asked>>

-----------------------------------------------------------------------------
(* Selling against a quote *)

Routes(b) == IF b \in Converts THEN {"convert"} ELSE {"sell", "push"}

\* A till asks, or asks again: its cart came from a quote it has seen.  A pushed bill
\* carries the day it was sold.
Ask(r, b, route, day) ==
    /\ quoteReq[r] = None /\ asked < MaxQuoteRequests /\ asked' = asked + 1
    /\ QuoteOf[b] \in issued /\ route \in Routes(b)
    /\ day \in (IF route = "push" THEN 0 .. today ELSE {None})
    /\ quoteReq' = [quoteReq EXCEPT ![r] = [bill |-> b, route |-> route, day |-> day,
                                            step |-> "asked", found |-> None]]
    /\ UNCHANGED <<quote, issued, bill, quoteReview, today, sold, refused>>

\* existingSale: the bill of this id, which is replayed unless it was voided.
ExistingSale(b, route) ==
    CASE bill[b] = None -> "none"
      [] bill[b] # None /\ bill[b].voided /\ route # "push" -> "SALE_VOIDED"
      [] OTHER -> "replayed"

\* lockAndClassify, the row held: converted first, so a quote converted on its last day
\* still replays the next morning; then expiry, at the day of the sale; then the bill's id.
\* Mutant: expiry is looked at first.
ClassifyExpiryFirst(q, b, day) ==
    LET at == IF day = None THEN today ELSE day IN
    CASE quote[q] = None -> "missing"
      [] quote[q] # None /\ Expired(q, at) -> "expired"
      [] quote[q] # None /\ ~ Expired(q, at) /\ Converted(q) ->
            IF quote[q].sold = b THEN "replay" ELSE "converted"
      [] OTHER -> IF bill[b] # None THEN "sale_id_taken" ELSE "fresh"
LockAndClassify(q, b, day) ==
    LET at == IF day = None THEN today ELSE day IN
    CASE quote[q] = None -> "missing"
      [] quote[q] # None /\ Converted(q) -> IF quote[q].sold = b THEN "replay" ELSE "converted"
      [] quote[q] # None /\ ~ Converted(q) /\ Expired(q, at) -> "expired"
      [] OTHER -> IF bill[b] # None THEN "sale_id_taken" ELSE "fresh"

\* lockForSale: what the online routes refuse.  A quote that is gone is refused by
\* convert, and by POST /sales when there is no bill to replay.
LockForSale(b, route, found) ==
    CASE found = "converted" -> "QUOTE_ALREADY_CONVERTED"
      [] found = "expired" -> "QUOTE_EXPIRED"
      [] found = "sale_id_taken" -> "SALE_ID_REUSED"
      [] found = "missing" /\ (route = "convert" \/ ExistingSale(b, route) = "none") -> "QUOTE_NOT_FOUND"
      [] found = "missing" /\ route # "convert" /\ ExistingSale(b, route) # "none" ->
            ExistingSale(b, route)
      [] OTHER -> "none"

Refuse(r, code) ==
    LET b == quoteReq[r].bill IN
    /\ refused' = refused \cup {<<b, code, bill[b]>>}
    /\ quoteReq' = [quoteReq EXCEPT ![r] = None]
Answer(r) == refused' = refused /\ quoteReq' = [quoteReq EXCEPT ![r] = None]

\* A stored bill's push is replayed before anything is locked.
ReplayPush(r) ==
    /\ quoteReq[r] # None /\ quoteReq[r].step = "asked" /\ quoteReq[r].route = "push"
    /\ ExistingSale(quoteReq[r].bill, "push") # "none" /\ Answer(r)
    /\ UNCHANGED <<quote, issued, bill, quoteReview, today, sold, asked>>

LockQuote(r) ==
    /\ quoteReq[r] # None /\ quoteReq[r].step = "asked"
    /\ LET b == quoteReq[r].bill
           q == QuoteOf[b]
           found == LockAndClassify(q, b, quoteReq[r].day)
           code == IF quoteReq[r].route = "push" THEN "none" ELSE LockForSale(b, quoteReq[r].route, found) IN
       /\ ~ Waits(q)
       /\ IF code = "none" THEN
             /\ quoteReq' = [quoteReq EXCEPT ![r] = [@ EXCEPT !.step = "locked", !.found = found]]
             /\ UNCHANGED refused
          ELSE IF code = "replayed" THEN Answer(r) ELSE Refuse(r, code)
    /\ UNCHANGED <<quote, issued, bill, quoteReview, today, sold, asked>>

MarkConverted(q, b) ==
    /\ quote' = [quote EXCEPT ![q] = [@ EXCEPT !.status = "converted", !.at = today, !.sold = b]]
    /\ sold' = [sold EXCEPT ![q] = @ \cup {b}]

\* settleOfflineQuote: the money was taken, so what the quote says is the owner's to see.
Reason(found) ==
    CASE found = "converted" -> "already_converted"
      [] found = "expired" -> "expired"
      [] found = "missing" -> "not_found"
      [] OTHER -> "none"
SettleOfflineQuote(b, found) ==
    quoteReview' = IF Reason(found) = "none" THEN quoteReview ELSE quoteReview \cup {<<b, Reason(found)>>}

\* A quote's line that names no product is refused by convert, first time and replay alike.
LooseLine(r) ==
    quoteReq[r].route = "convert" /\ quote[QuoteOf[quoteReq[r].bill]].loose

\* sales.create and the mark, one commit.
SellFromQuote(r) ==
    /\ quoteReq[r] # None /\ quoteReq[r].step = "locked"
    /\ LET b == quoteReq[r].bill
           found == quoteReq[r].found
           exists == ExistingSale(b, quoteReq[r].route) IN
       /\ exists # "SALE_VOIDED" /\ Answer(r)
       /\ bill' = IF exists = "replayed" THEN bill
                  ELSE [bill EXCEPT ![b] = [voided |-> FALSE, offline |-> quoteReq[r].route = "push",
                                            found |-> found]]
       /\ IF found = "fresh" THEN MarkConverted(QuoteOf[b], b) ELSE UNCHANGED <<quote, sold>>
    /\ UNCHANGED <<issued, today, asked>>

\* POST /sales with a quoteId: the cart's own lines.
SellIn(r) ==
    /\ SellFromQuote(r) /\ quoteReq[r].route = "sell"
    /\ UNCHANGED quoteReview

\* POST /quotes/:id/convert: the quote's lines.
ConvertIn(r) ==
    /\ SellFromQuote(r) /\ quoteReq[r].route = "convert" /\ ~ LooseLine(r)
    /\ UNCHANGED quoteReview

\* /sync/push: the same, and what the quote says is settled.
PushSale(r) ==
    /\ SellFromQuote(r) /\ quoteReq[r].route = "push"
    /\ SettleOfflineQuote(quoteReq[r].bill, quoteReq[r].found)

\* The sale path refuses: no stock, no open drawer, over the limit, a voided bill.  All of
\* it is rolled back.
SaleRefused(r) ==
    /\ quoteReq[r] # None /\ quoteReq[r].step = "locked"
    /\ LET b == quoteReq[r].bill
           exists == ExistingSale(b, quoteReq[r].route) IN
       \/ LooseLine(r) /\ Refuse(r, "INSUFFICIENT_STOCK")
       \/ ~ LooseLine(r) /\ exists = "SALE_VOIDED" /\ Refuse(r, exists)
       \/ ~ LooseLine(r) /\ exists = "none" /\ Refuse(r, "SALE_REFUSED")
    /\ UNCHANGED <<quote, issued, bill, quoteReview, today, sold, asked>>

\* The server or the connection dies before the commit.
RequestDies(r) ==
    /\ quoteReq[r] # None /\ quoteReq' = [quoteReq EXCEPT ![r] = None]
    /\ UNCHANGED <<quote, issued, bill, quoteReview, today, sold, refused, asked>>

-----------------------------------------------------------------------------
QuotesNext ==
    \/ \E q \in Quotes, loose \in BOOLEAN : CreateQuote(q, loose)
    \/ \E q, copy \in Quotes : DuplicateQuote(q, copy)
    \/ \E q \in Quotes : UpdateQuote(q) \/ DeleteQuote(q)
    \/ PurgeQuotes \/ NextDay
    \/ \E b \in QuoteBills : VoidBill(b)
    \/ \E r \in QuoteRequests, b \in QuoteBills, day \in (0 .. LastDay) \cup {None} :
          \E route \in Routes(b) : Ask(r, b, route, day)
    \/ \E r \in QuoteRequests :
          \/ ReplayPush(r) \/ LockQuote(r) \/ SellIn(r) \/ ConvertIn(r) \/ PushSale(r)
          \/ SaleRefused(r) \/ RequestDies(r)

-----------------------------------------------------------------------------
(* Properties *)

\* Two bills never come from one quote, and a quote marked converted names a bill that
\* was committed with the mark: requests for one quote wait for each other's row lock.  A
\* bill already rung up offline stands all the same, and then it is before the owner.
OneBillPerQuote ==
    \A q \in Quotes :
        /\ Cardinality(sold[q]) <= 1
        /\ quote[q] # None =>
              /\ Converted(q) <=> sold[q] # {}
              /\ Converted(q) => sold[q] = {quote[q].sold} /\ bill[quote[q].sold] # None
    /\ \A b \in QuoteBills : bill[b] # None /\ bill[b].offline =>
          b \in sold[QuoteOf[b]] \/ \E x \in quoteReview : x[1] = b

\* A bill that stands and was sold from its quote is never answered with a refusal,
\* whenever its retry comes: after the quote expired, was purged, or beside the push of
\* the same bill.  A refusal makes the counter ring it up a second time.
NeverRungTwice ==
    \A x \in refused : x[1] \notin Converts /\ x[3] # None => x[3].voided \/ x[3].found # "fresh"
=============================================================================
