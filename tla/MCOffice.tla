------------------------------ MODULE MCOffice ------------------------------
(***************************************************************************)
(* A small shop for each part of the office.                                *)
(***************************************************************************)
EXTENDS Office, TLC

CONSTANTS b1, b2, q1, w1, w2, x1, x2, y1, y2, a1, a2, a3

\* Every cart comes from the one quote that the till has seen.
MCQuoteOf == [b \in QuoteBills |-> q1]

\* One attempt of each bucket and slice: a second is past it.
MCLimit == [b \in Buckets |-> 1]

\* The slots, and the ids that nothing else names.
Symmetric == Permutations({w1, w2}) \cup Permutations({x1, x2})
=============================================================================
