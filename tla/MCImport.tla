------------------------------ MODULE MCImport ------------------------------
(***************************************************************************)
(* Two jobs for a shop with one device.  Either the shop sells, deletes    *)
(* and exports while one small file is imported, or it stands still and a  *)
(* worker writes any of many files.                                        *)
(***************************************************************************)
EXTENDS Import, TLC

CONSTANT Old            \* an id of the old app

Product(id, part) == [id |-> id, part |-> part, category |-> "c", live |-> TRUE, stock |-> 1]
Bill(id, no, mechanic, named, account) ==
    [id |-> id, no |-> no, customer |-> None, mechanic |-> mechanic, product |-> "p1",
     named |-> named, account |-> account]
Note(id, no, sale) == [id |-> id, no |-> no, sale |-> sale, mechanic |-> None]

Person(id, code) == [id |-> id, code |-> code, live |-> TRUE]
Movement(id, product, named, ref) ==
    [id |-> id, product |-> product, named |-> named, ref |-> ref]
Account(id, live, default) == [id |-> id, live |-> live, default |-> default]

Data(products, sales, returns, movements, payments, people) ==
    [NoRows EXCEPT !["products"] = products, !["sales"] = sales, !["returns"] = returns,
                   !["movements"] = movements, !["credit_payments"] = payments,
                   !["mechanics"] = people]

\* The shop: nothing in it, a catalogue and a QR account, or a bill the owner reviews as well.
Shelf == {Product("p1", "x")}
Stocked ==
    [Data(Shelf, {}, {}, {}, {}, {}) EXCEPT !["payment_accounts"] = {Account("a0", TRUE, TRUE)}]
Trading ==
    [Stocked EXCEPT !["sales"] = {Bill("s1", <<1, 1>>, None, TRUE, "a0")},
                    !["owner_review_items"] = {[id |-> "o1"]}]
MCShops == {NoRows, Stocked, Trading}

\* A small file, and its bill's number is ahead of the shop's.
SmallData ==
    [Data({Product("p2", "x")}, {Bill("s2", <<1, 2>>, None, TRUE, None)}, {}, {}, {}, {})
        EXCEPT !["payment_accounts"] = {Account("a1", TRUE, TRUE)}]
Small == [data |-> SmallData, flaws |-> {}]

\* Files as they come: clashing part numbers and document numbers, references to what the
\* file lacks, ids of the old app.
ManyFiles ==
    {[data |-> Data(products, sales, returns, movements, payments, people), flaws |-> flaws] :
        products \in SUBSET {Product("p1", "x"), Product("p1", "y"), Product("p2", "x"), Product(Old, "y")},
        sales \in SUBSET {Bill("s1", <<1, 1>>, "m1", TRUE, None), Bill("s2", <<1, 1>>, None, TRUE, "a1"),
                          Bill("s2", <<2, 1>>, "m1", FALSE, None)},
        returns \in {{}, {Note("c1", <<1, 1>>, "s1")}},
        movements \in {{}, {Movement("v1", "p1", TRUE, None)},
                       {Movement("v1", "p3", FALSE, None)}},
        payments \in {{}, {[id |-> "y1", no |-> <<1, 1>>, mechanic |-> "m1"]}},
        people \in {{}, {Person("m1", "k")}},
        flaws \in {{}}}

Around ==
    {[data |-> [NoRows EXCEPT !["payment_accounts"] = accounts, !["suppliers"] = suppliers,
                              !["shifts"] = shifts, !["products"] = Shelf], flaws |-> flaws] :
        accounts \in SUBSET {Account("a1", TRUE, TRUE), Account("a1", FALSE, FALSE),
                             Account("a2", TRUE, TRUE), Account("a3", TRUE, FALSE)},
        suppliers \in SUBSET {[id |-> "u1", product |-> "p1"], [id |-> "u2", product |-> "p3"],
                              [id |-> "u3", product |-> None]},
        shifts \in SUBSET {[id |-> "h1", active |-> TRUE], [id |-> "h2", active |-> FALSE]},
        flaws \in {{}} \cup {{x} : x \in Flaws}}

\* What the pre-flight does not compare: codes, a tombstone's own among them, and the
\* document each movement is for.
Unseen ==
    {[data |-> Data(Shelf, {Bill("s1", <<1, 1>>, mechanic, TRUE, None)}, {}, movements, {}, people),
      flaws |-> {}] :
        mechanic \in {None, "m3"},
        movements \in SUBSET {Movement("v1", "p1", TRUE, "d1"), Movement("v2", "p1", TRUE, "d1"),
                              Movement("v3", "p1", TRUE, None), Movement("v4", "p1", TRUE, None)},
        people \in SUBSET {Person("m1", "k"), Person("m2", "k"), Person("m2", "m3")}}

MCFiles == {Small} \cup ManyFiles \cup Around \cup Unseen

\* Either much happens, or many files are tried.
MCInit == Init /\ (file = Small \/ shop = NoRows)
MCNext == Next /\ (file # Small => ops' = 0 /\ mishaps' = 0)
MCSpec == MCInit /\ [][MCNext]_vars

MCSlowSpec == MCInit /\ [][SlowNext /\ (file # Small => ops' = 0 /\ mishaps' = 0)]_vars

\* Nothing tells one job's id from another's.
Alike == Permutations(Jobs)
=============================================================================
