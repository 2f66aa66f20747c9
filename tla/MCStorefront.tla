---------------------------- MODULE MCStorefront ----------------------------
(* One customer with two tabs: one tab that is busy, or two that overlap.  *)
EXTENDS Storefront

CONSTANTS t1, t2, u1, p1

MCUserOf == [t \in {t1, t2} |-> u1]
MCPrice == [p \in {p1} |-> 2500]
MCDeluxePrice == [p \in {p1} |-> 2000]
MCStock == [p \in {p1} |-> 2]
MCLimit == [p \in {p1} |-> 2]
MCWallet == [u \in {u1} |-> 5000]
MCBasket == [p \in {p1} |-> 1]
MCOrders == <<[user |-> "other", total |-> 1000, its |-> MCBasket, pay |-> "card", bonus |-> 0, delivered |-> FALSE]>>
Tab(page, n) == [page |-> page, clicks |-> n]
MCScenarios == {(t1 :> Tab("basket", 5) @@ t2 :> Tab("closed", 0)),
                (t1 :> Tab("payShop", 4) @@ t2 :> Tab("closed", 0)),
                (t1 :> Tab("summary", 2) @@ t2 :> Tab("summary", 1)),
                (t1 :> Tab("summary", 1) @@ t2 :> Tab("accounting", 2)),
                (t1 :> Tab("payShop", 2) @@ t2 :> Tab("summary", 1))}
=============================================================================
