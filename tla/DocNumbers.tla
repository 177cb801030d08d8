----------------------------- MODULE DocNumbers -----------------------------
(***************************************************************************)
(* The numbers one machine prints on receipts and credit notes             *)
(* (doc-number.service.ts): a series and a running number.  The machine's  *)
(* number and the month are left out: each machine and each month has      *)
(* counters of its own, and this is one of them.                           *)
(***************************************************************************)
EXTENDS Naturals

CONSTANT MaxDocNo    \* MAX_DOC_NO, and the CHECK on doc_counters.last_no

ASSUME DocAssumption == MaxDocNo \in Nat

\* DOC_PREFIX: the two series a till prints.
Series == {"RC", "CN"}

DocNo == [series : Series, seq : 1..MaxDocNo]

\* doc_counters: the last number of each series, 0 for no row.
Counters == [Series -> 0..MaxDocNo]

NoCounters == [c \in Series |-> 0]

\* formatDocNumber; what parseDocNo and DOC_NUMBER_REGEX take apart again.
FormatDocNumber(series, seq) == [series |-> series, seq |-> seq]

\* validateDocNumber: prefix and range; the month is the till's to say (C2).
ValidDocNumber(series, no) == no \in [series : {series}, seq : 1..MaxDocNo]

\* Mutant: the counter takes the number that came last.
RecordClientDocNumberLast(counters, no) ==
    [counters EXCEPT ![no.series] = no.seq]

\* recordClientDocNumber's GREATEST, and the till's own commitDocNo and seed.
RecordClientDocNumber(counters, no) ==
    [counters EXCEPT ![no.series] = IF no.seq > @ THEN no.seq ELSE @]

\* Mutant: the last number of a month is no limit.
MayIssueAlways(counters, series) == TRUE

\* The CHECK on last_no: the document after the last of a month is refused.
MayIssue(counters, series) == counters[series] < MaxDocNo

\* issue, and the till's generateNextDocNo: one more than the last.
NextDocNo(counters, series) ==
    FormatDocNumber(series, counters[series] + 1)
=============================================================================
