----------------------------- MODULE MCRowLocks -----------------------------
(***************************************************************************)
(* A shop with two tills, one mechanic and two products, an old credit bill *)
(* of both, and fourteen requests of which any three meet.                  *)
(***************************************************************************)
EXTENDS RowLocks, TLC

CONSTANTS d1, d2, m1, po1, old, credit, cash, other, void, back1, back2, pay, owed,
          open, close, out, retire, receive, fix

MCJobs == {old, credit, cash, other, void, back1, back2, pay, owed, open, close, out, retire,
           receive, fix}

At(d, op, m, ps, of, how) ==
    [op |-> op, device |-> d, mechanic |-> m, parts |-> ps, of |-> of, how |-> how]
Request(op, m, ps, of, how) == At(d1, op, m, ps, of, how)
OfDrawer(op) == Request(op, None, {}, None, "cash")

MCBody ==
    (old :> Request("sale", m1, {1, 2}, None, "credit"))
 @@ (credit :> Request("sale", m1, {1, 2}, None, "credit"))
 @@ (cash :> Request("sale", m1, {2}, None, "cash"))
 @@ (other :> At(d2, "sale", m1, {1, 2}, None, "credit"))
 @@ (void :> Request("void", None, {}, old, "cash"))
 @@ (back1 :> Request("return", None, {1, 2}, old, "transfer"))
 @@ (back2 :> Request("return", None, {2}, old, "cash"))
 @@ (pay :> Request("payment", m1, {}, None, "cash"))
 @@ (owed :> At(d2, "payment", m1, {}, None, "cash"))
 @@ (open :> OfDrawer("open")) @@ (close :> OfDrawer("close"))
 @@ (out :> OfDrawer("entry")) @@ (retire :> OfDrawer("retire"))
 @@ (receive :> Request("receive", None, {1, 2}, po1, "cash"))
 @@ (fix :> Request("adjust", None, {1}, None, "cash"))

MCOpeningStock == 1 :> 2 @@ 2 :> 2
MCOpeningTab == m1 :> 1
=============================================================================
