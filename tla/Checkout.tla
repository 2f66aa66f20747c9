------------------------------ MODULE Checkout ------------------------------
(***************************************************************************)
(* The checkout of the Juice Shop server (test-container/rootfs/           *)
(* juice-shop): basket items, coupons, wallets, deluxe membership and      *)
(* orders.  A request handler is an async function; between two awaits of  *)
(* one handler the steps of every other handler may run.  A request is     *)
(* therefore a record with a program counter, and one action is what a     *)
(* handler does between two awaits.                                        *)
(*                                                                         *)
(* Money is counted in cents.  A product with quantity 0 in a basket has   *)
(* no BasketItem row.  A user has one basket, whose id is the user.        *)
(***************************************************************************)
EXTENDS Integers, Sequences, FiniteSets, Functions, TLC

CONSTANTS
    Users, Tabs,          \* customers, and the browser tabs that send requests
    UserOf,               \* the user who is logged in in a tab
    Products,
    Price, DeluxePrice,   \* per product, in cents, as the data creator sets them
    Stock0,               \* Quantities.quantity at start
    LimitPerUser,         \* Quantities.limitPerUser, 0 for null
    Wallet0,              \* Wallets.balance at start
    DeliveryPrice,        \* for a customer; delivery is free of charge for deluxe members
    CouponDiscount,       \* percent, of a coupon that carries this month
    CampaignDiscount,     \* percent, of a campaign code
    Orders0,              \* the orders the data creator stores
    Basket0,              \* BasketItems at start, the same in every basket
    MaxEvents             \* bound: database errors and acts of the environment in one behaviour

ASSUME CheckoutAssumption ==
    /\ IsFiniteSet(Tabs) /\ IsFiniteSet(Products)
    /\ UserOf \in [Tabs -> Users]
    /\ Price \in [Products -> Nat]
    /\ DeluxePrice \in [Products -> Nat]
    /\ Stock0 \in [Products -> Nat]
    /\ Basket0 \in [Products -> Nat]
    /\ LimitPerUser \in [Products -> Nat]
    /\ Wallet0 \in [Users -> Nat]
    /\ {DeliveryPrice, MaxEvents} \subseteq Nat
    /\ {CouponDiscount, CampaignDiscount} \subseteq 0..100
    /\ Orders0 \in Seq([user : Users \cup {"other"}, total : Int, its : [Products -> Nat],
                        pay : {"none", "wallet", "card"}, bonus : Nat, delivered : BOOLEAN])

VARIABLES
    price,      \* Products.price: product -> cents
    stock,      \* Quantities: product -> quantity (may become negative)
    items,      \* BasketItems: user -> product -> quantity
    coupon,     \* Baskets.coupon: user -> "none" or a coupon
    wallet,     \* Wallets: user -> balance
    role,       \* Users.role: user -> "customer" or "deluxe"
    cards,      \* Cards: user -> the saved card exists and is valid
    addresses,  \* Addresses: user -> a saved address exists
    orders,     \* the orders collection, in insertion order
    month,      \* the server's clock, as toMMMYY sees it
    rq,         \* tab -> the request it has in flight
    clears,     \* users whose basket.update({ coupon: null }) was started and not awaited
    events,     \* database errors and acts of the environment so far
    taken,      \* history: product -> pieces that placeOrder took out of the stock
    booked,     \* history: user -> top-ups minus memberships paid from the wallet
    lost,       \* history: user -> charges of requests that failed after the charge
    spent       \* history: user -> an order has used a coupon since the last one was applied

db   == <<price, stock, items, coupon, wallet, role, cards, addresses, orders>>
hist == <<taken, booked, lost, spent>>
svars == <<db, month, rq, clears, events, hist>>

NoItems == [p \in Products |-> 0]

(* The tables.                                                             *)
ProductTable == [Products -> Nat]
QuantityTable == [Products -> Int]
BasketTable == [Users -> {"none", "month1"}]
BasketItemTable == [Users -> [Products -> Nat]]
WalletTable == [Users -> Int]
CardTable == [Users -> BOOLEAN]
AddressTable == [Users -> BOOLEAN]

InitCheckout ==
    /\ price = Price
    /\ stock = Stock0
    /\ items = [u \in Users |-> Basket0]
    /\ coupon = [u \in Users |-> "none"]
    /\ wallet = Wallet0
    /\ role = [u \in Users |-> "customer"]
    /\ cards = [u \in Users |-> TRUE]
    /\ addresses = [u \in Users |-> TRUE]
    /\ orders = Orders0
    /\ month = 1
    /\ rq = [t \in Tabs |-> [op |-> "none", pc |-> "idle"]]
    /\ clears = {}
    /\ events = 0
    /\ taken = [p \in Products |-> 0]
    /\ booked = [u \in Users |-> 0]
    /\ lost = [u \in Users |-> 0]
    /\ spent = [u \in Users |-> FALSE]

-----------------------------------------------------------------------------
(* Prices, points and discounts.                                           *)

(* discountFromCoupon: a coupon is worth something in its own month only.  *)
discountFromCoupon(c, now) == IF c = "month1" /\ now = 1 THEN CouponDiscount ELSE 0

(* calculateApplicableDiscount: the basket's coupon first, then the        *)
(* campaign code the client sends, whose date is the day it was entered.   *)
calculateApplicableDiscount(c, now, campaign) ==
    LET d == discountFromCoupon(c, now)
    IN IF d > 0 THEN d ELSE IF campaign THEN CampaignDiscount ELSE 0

(* isDeluxe looks at the token of the request, not at the database.        *)
ItemPrice(pr, p, deluxe) == IF deluxe THEN DeluxePrice[p] ELSE pr[p]
ItemTotal(pr, its, deluxe) == SumFunction([p \in Products |-> ItemPrice(pr, p, deluxe) * its[p]])

(* Math.round(price / 10) points for each piece, one point being 1.00.     *)
Points(pr, its, deluxe) ==
    SumFunction([p \in Products |-> 100 * ((ItemPrice(pr, p, deluxe) + 500) \div 1000) * its[p]])

(* (totalPrice * (discount / 100)).toFixed(2)                              *)
DiscountAmount(total, discount) == (total * discount + 50) \div 100

(* getDeliveryMethod and placeOrder: nothing is charged when the request   *)
(* names no delivery method.                                               *)
deliveryAmount(method, deluxe) == IF method /\ ~deluxe THEN DeliveryPrice ELSE 0

-----------------------------------------------------------------------------
(* Requests.                                                               *)

(* appendUserId: the user a request acts for is the one of its token.      *)
U(t) == UserOf[t]

At(t, op, pc) == rq[t].op = op /\ rq[t].pc = pc
(* A tab sends one request at a time; more requests come from more tabs.   *)
(* The service it calls names the endpoint, and that the first step.       *)
Send(t, r) ==
    /\ rq[t].pc = "idle"
    /\ rq' = [rq EXCEPT ![t] = r]

(* The answers of the read-only endpoints.                                 *)
retrieveBasket(t) == items[U(t)]
getWalletBalance(t) == wallet[U(t)]
getPaymentMethods(t) == cards[U(t)]
getAddress(t) == addresses[U(t)]
orderHistory(t) == {i \in 1..Len(orders) : orders[i].user = U(t)}
allOrders == [i \in 1..Len(orders) |-> orders[i].delivered]
Goto(t, pc) == rq' = [rq EXCEPT ![t].pc = pc]
Answer(t, status) == rq' = [rq EXCEPT ![t].pc = "answered", ![t].status = status]

(* What happens rarely is bounded.                                         *)
Event == events < MaxEvents /\ events' = events + 1

(* A statement of the handler fails and its error is passed to next().     *)
DbError(t) ==
    /\ Event
    /\ Answer(t, "error")

-----------------------------------------------------------------------------
(* POST and PUT /api/BasketItems: quantityCheck reads the stock, a later    *)
(* step writes the row.                                                    *)

quantityCheck(p, q, deluxe) ==
    /\ LimitPerUser[p] = 0 \/ LimitPerUser[p] >= q \/ deluxe
    /\ stock[p] >= q

(* Basket and Product are related through BasketItems, one row per pair.   *)
Row(t) == items[U(t)][rq[t].p] > 0

quantityCheckBeforeBasketItemAddition(t) ==
    /\ At(t, "addItem", "check")
    /\ IF quantityCheck(rq[t].p, rq[t].q, rq[t].deluxe) THEN Goto(t, "save") ELSE Answer(t, "error")
    /\ UNCHANGED <<db, month, clears, events, hist>>

(* A second row for the same pair fails.  So does a request whose session  *)
(* upgradeToDeluxe has put: that session has no bid to compare with the    *)
(* basket's.                                                               *)
addBasketItem(t) ==
    /\ At(t, "addItem", "save")
    /\ \/ /\ ~Row(t) /\ ~rq[t].deluxe
          /\ items' = [items EXCEPT ![U(t)][rq[t].p] = rq[t].q]
          /\ Answer(t, "ok")
       \/ /\ Row(t) \/ rq[t].deluxe
          /\ Answer(t, "error")
          /\ UNCHANGED items
    /\ UNCHANGED <<price, stock, coupon, wallet, role, cards, addresses, orders, month, clears, events, hist>>

quantityCheckBeforeBasketItemUpdate(t) ==
    /\ At(t, "putItem", "find")
    /\ IF Row(t) THEN Goto(t, "check") ELSE Answer(t, "error")
    /\ UNCHANGED <<db, month, clears, events, hist>>

quantityCheckOfUpdate(t) ==
    /\ At(t, "putItem", "check")
    /\ IF quantityCheck(rq[t].p, rq[t].q, rq[t].deluxe) THEN Goto(t, "put") ELSE Answer(t, "error")
    /\ UNCHANGED <<db, month, clears, events, hist>>

(* Variant: the quantity sent is added to the row's.                       *)
putBasketItemAdding(t) ==
    /\ At(t, "putItem", "put")
    /\ Row(t)
    /\ items' = [items EXCEPT ![U(t)][rq[t].p] = @ + rq[t].q]
    /\ Answer(t, "ok")
    /\ UNCHANGED <<price, stock, coupon, wallet, role, cards, addresses, orders, month, clears, events, hist>>

(* The generated PUT endpoint: 404 when the row has gone.                  *)
putBasketItem(t) ==
    /\ At(t, "putItem", "put")
    /\ \/ /\ Row(t)
          /\ items' = [items EXCEPT ![U(t)][rq[t].p] = rq[t].q]
          /\ Answer(t, "ok")
       \/ /\ ~Row(t)
          /\ Answer(t, "error")
          /\ UNCHANGED items
    /\ UNCHANGED <<price, stock, coupon, wallet, role, cards, addresses, orders, month, clears, events, hist>>

(* The generated DELETE endpoint of BasketItems.                           *)
delBasketItem(t) ==
    /\ At(t, "delItem", "del")
    /\ items' = [items EXCEPT ![U(t)][rq[t].p] = 0]
    /\ Answer(t, IF Row(t) THEN "ok" ELSE "error")
    /\ UNCHANGED <<price, stock, coupon, wallet, role, cards, addresses, orders, month, clears, events, hist>>

-----------------------------------------------------------------------------
(* PUT /rest/basket/:id/coupon/:coupon                                     *)

applyCouponFind(t) ==
    /\ At(t, "coupon", "find")
    /\ rq' = [rq EXCEPT ![t].pc = "update", ![t].discount = discountFromCoupon(rq[t].c, month)]
    /\ UNCHANGED <<db, month, clears, events, hist>>

(* An invalid coupon takes the earlier one out of the basket.              *)
applyCouponUpdate(t) ==
    /\ At(t, "coupon", "update")
    /\ coupon' = [coupon EXCEPT ![U(t)] = IF rq[t].discount > 0 THEN rq[t].c ELSE "none"]
    /\ spent' = [spent EXCEPT ![U(t)] = FALSE]
    /\ Answer(t, IF rq[t].discount > 0 THEN "ok" ELSE "error")
    /\ UNCHANGED <<price, stock, items, wallet, role, cards, addresses, orders, month, clears, events, taken, booked, lost>>

-----------------------------------------------------------------------------
(* PUT /rest/wallet/balance                                                *)

addWalletBalanceCard(t) ==
    /\ At(t, "topup", "card")
    /\ IF rq[t].card /\ cards[U(t)] THEN Goto(t, "increment") ELSE Answer(t, "error")
    /\ UNCHANGED <<db, month, clears, events, hist>>

addWalletBalance(t) ==
    /\ At(t, "topup", "increment")
    /\ wallet' = [wallet EXCEPT ![U(t)] = @ + rq[t].amount]
    /\ booked' = [booked EXCEPT ![U(t)] = @ + rq[t].amount]
    /\ Answer(t, "ok")
    /\ UNCHANGED <<price, stock, items, coupon, role, cards, addresses, orders, month, clears, events, taken, lost, spent>>

-----------------------------------------------------------------------------
(* POST /rest/deluxe-membership                                            *)

MembershipCost == 4900

(* GET /rest/deluxe-membership, by the role in the token.                  *)
deluxeMembershipStatus(deluxe) == IF deluxe THEN 0 ELSE MembershipCost

upgradeFindUser(t) ==
    /\ At(t, "upgrade", "user")
    /\ \/ role[U(t)] # "customer" /\ Answer(t, "error")
       \/ role[U(t)] = "customer" /\ Goto(t, rq[t].mode)
    /\ UNCHANGED <<db, month, clears, events, hist>>

(* The balance the handler saw stays in the request, for the properties.   *)
upgradeFindWallet(t) ==
    /\ At(t, "upgrade", "wallet")
    /\ IF wallet[U(t)] < MembershipCost
       THEN Answer(t, "error")
       ELSE rq' = [rq EXCEPT ![t].pc = "decrement", ![t].seen = wallet[U(t)]]
    /\ UNCHANGED <<db, month, clears, events, hist>>

upgradeDecrement(t) ==
    /\ At(t, "upgrade", "decrement")
    /\ wallet' = [wallet EXCEPT ![U(t)] = @ - MembershipCost]
    /\ booked' = [booked EXCEPT ![U(t)] = @ - MembershipCost]
    /\ Goto(t, "role")
    /\ UNCHANGED <<price, stock, items, coupon, role, cards, addresses, orders, month, clears, events, taken, lost, spent>>

upgradeFindCard(t) ==
    /\ At(t, "upgrade", "card")
    /\ IF rq[t].card /\ cards[U(t)] THEN Goto(t, "role") ELSE Answer(t, "error")
    /\ UNCHANGED <<db, month, clears, events, hist>>

(* The answer carries a token with the new role.                           *)
upgradeRole(t) ==
    /\ At(t, "upgrade", "role")
    /\ role' = [role EXCEPT ![U(t)] = "deluxe"]
    /\ Answer(t, "ok")
    /\ UNCHANGED <<price, stock, items, coupon, wallet, cards, addresses, orders, month, clears, events, hist>>

-----------------------------------------------------------------------------
(* POST and DELETE of /api/Cards and /api/Addresss, one record of each.     *)

writeCard(t) ==
    /\ At(t, "card", "write")
    /\ cards' = [cards EXCEPT ![U(t)] = rq[t].keep]
    /\ Answer(t, IF rq[t].keep \/ cards[U(t)] THEN "ok" ELSE "error")
    /\ UNCHANGED <<price, stock, items, coupon, wallet, role, addresses, orders, month, clears, events, hist>>

writeAddress(t) ==
    /\ At(t, "address", "write")
    /\ addresses' = [addresses EXCEPT ![U(t)] = rq[t].keep]
    /\ Answer(t, IF rq[t].keep \/ addresses[U(t)] THEN "ok" ELSE "error")
    /\ UNCHANGED <<price, stock, items, coupon, wallet, role, cards, orders, month, clears, events, hist>>

-----------------------------------------------------------------------------
(* POST /rest/basket/:id/checkout                                          *)

(* The basket with its products, as findOne returns it.                    *)
placeOrderFind(t) ==
    /\ At(t, "checkout", "find")
    /\ rq' = [rq EXCEPT ![t].pc = "quantity",
                        ![t].its = items[U(t)],
                        ![t].prices = price,
                        ![t].c = coupon[U(t)],
                        ![t].todo = {p \in Products : items[U(t)][p] > 0}]
    /\ UNCHANGED <<db, month, clears, events, hist>>

(* One item: the quantity is read, and written back in a later step.       *)
placeOrderReadQuantity(t) ==
    /\ At(t, "checkout", "quantity")
    /\ \E p \in rq[t].todo :
          rq' = [rq EXCEPT ![t].pc = "take", ![t].p = p, ![t].q = stock[p]]
    /\ UNCHANGED <<db, month, clears, events, hist>>

(* Variant: the quantity of the row as it is by now is taken.              *)
placeOrderUpdateQuantityOfRow(t) ==
    /\ At(t, "checkout", "take")
    /\ LET p == rq[t].p IN
       /\ stock' = [stock EXCEPT ![p] = rq[t].q - items[U(t)][p]]
       /\ taken' = [taken EXCEPT ![p] = @ + rq[t].its[p]]
       /\ rq' = [rq EXCEPT ![t].pc = "quantity", ![t].todo = @ \ {p}]
    /\ UNCHANGED <<price, items, coupon, wallet, role, cards, addresses, orders, month, clears, events, booked, lost, spent>>

placeOrderUpdateQuantity(t) ==
    /\ At(t, "checkout", "take")
    /\ LET p == rq[t].p IN
       /\ stock' = [stock EXCEPT ![p] = rq[t].q - rq[t].its[p]]
       /\ taken' = [taken EXCEPT ![p] = @ + rq[t].its[p]]
       /\ rq' = [rq EXCEPT ![t].pc = "quantity", ![t].todo = @ \ {p}]
    /\ UNCHANGED <<price, items, coupon, wallet, role, cards, addresses, orders, month, clears, events, booked, lost, spent>>

(* A failing query ends the request; what was taken before stays taken.    *)
placeOrderQuantityError(t) ==
    /\ At(t, "checkout", "take")
    /\ DbError(t)
    /\ UNCHANGED <<db, month, clears, hist>>

(* Variant: the discount is taken off the delivery, too.                   *)
placeOrderTotalDiscounted(t) ==
    /\ At(t, "checkout", "quantity")
    /\ rq[t].todo = {}
    /\ LET gross == ItemTotal(rq[t].prices, rq[t].its, rq[t].deluxe) + deliveryAmount(rq[t].method, rq[t].deluxe)
           discount == calculateApplicableDiscount(rq[t].c, month, rq[t].campaign)
       IN rq' = [rq EXCEPT ![t].pc = IF rq[t].pay = "wallet" THEN "wallet" ELSE "bonus",
                           ![t].points = Points(rq[t].prices, rq[t].its, rq[t].deluxe),
                           ![t].total = gross - DiscountAmount(gross, discount)]
    /\ UNCHANGED <<db, month, clears, events, hist>>

(* The price, once the last item is taken and the delivery method looked   *)
(* up.                                                                     *)
placeOrderTotal(t) ==
    /\ At(t, "checkout", "quantity")
    /\ rq[t].todo = {}
    /\ LET gross == ItemTotal(rq[t].prices, rq[t].its, rq[t].deluxe)
           discount == calculateApplicableDiscount(rq[t].c, month, rq[t].campaign)
       IN rq' = [rq EXCEPT ![t].pc = IF rq[t].pay = "wallet" THEN "wallet" ELSE "bonus",
                           ![t].points = Points(rq[t].prices, rq[t].its, rq[t].deluxe),
                           ![t].total = gross - DiscountAmount(gross, discount)
                                          + deliveryAmount(rq[t].method, rq[t].deluxe)]
    /\ UNCHANGED <<db, month, clears, events, hist>>

(* Variant: the wallet exists, whatever is in it.                          *)
placeOrderFindWalletUnchecked(t) ==
    /\ At(t, "checkout", "wallet")
    /\ rq' = [rq EXCEPT ![t].pc = "charge", ![t].seen = wallet[U(t)]]
    /\ UNCHANGED <<db, month, clears, events, hist>>

(* Variant: the handler returns without calling next.                      *)
placeOrderFindWalletSilent(t) ==
    /\ At(t, "checkout", "wallet")
    /\ wallet[U(t)] >= rq[t].total
    /\ rq' = [rq EXCEPT ![t].pc = "charge", ![t].seen = wallet[U(t)]]
    /\ UNCHANGED <<db, month, clears, events, hist>>

(* Not enough money: the error leaves the stock as it is by now.           *)
placeOrderFindWallet(t) ==
    /\ At(t, "checkout", "wallet")
    /\ IF wallet[U(t)] >= rq[t].total
       THEN rq' = [rq EXCEPT ![t].pc = "charge", ![t].seen = wallet[U(t)]]
       ELSE Answer(t, "error")
    /\ UNCHANGED <<db, month, clears, events, hist>>

(* Variant: the balance the handler read is used to compute the new one.    *)
placeOrderDecrementFromRead(t) ==
    /\ At(t, "checkout", "charge")
    /\ wallet' = [wallet EXCEPT ![U(t)] = rq[t].seen - rq[t].total]
    /\ Goto(t, "bonus")
    /\ UNCHANGED <<price, stock, items, coupon, role, cards, addresses, orders, month, clears, events, hist>>

placeOrderDecrement(t) ==
    /\ At(t, "checkout", "charge")
    /\ wallet' = [wallet EXCEPT ![U(t)] = @ - rq[t].total]
    /\ Goto(t, "bonus")
    /\ UNCHANGED <<price, stock, items, coupon, role, cards, addresses, orders, month, clears, events, hist>>

placeOrderIncrement(t) ==
    /\ At(t, "checkout", "bonus")
    /\ wallet' = [wallet EXCEPT ![U(t)] = @ + rq[t].points]
    /\ Goto(t, "insert")
    /\ UNCHANGED <<price, stock, items, coupon, role, cards, addresses, orders, month, clears, events, hist>>

(* The bonus fails: the customer has paid for an order that is not placed. *)
placeOrderIncrementError(t) ==
    /\ At(t, "checkout", "bonus")
    /\ DbError(t)
    /\ lost' = [lost EXCEPT ![U(t)] = @ + IF rq[t].pay = "wallet" THEN rq[t].total ELSE 0]
    /\ UNCHANGED <<db, month, clears, taken, booked, spent>>

Order(t) == [user |-> U(t), total |-> rq[t].total, its |-> rq[t].its, pay |-> rq[t].pay,
             bonus |-> rq[t].points, delivered |-> FALSE]

(* Variant: the finish handler leaves the coupon alone.                    *)
placeOrderInsertKeepingCoupon(t) ==
    /\ At(t, "checkout", "insert")
    /\ orders' = Append(orders, Order(t))
    /\ spent' = [spent EXCEPT ![U(t)] = @ \/ rq[t].c # "none"]
    /\ Goto(t, "destroy")
    /\ UNCHANGED <<price, stock, items, coupon, wallet, role, cards, addresses, month, clears, events, taken, booked, lost>>

(* The order is stored and the PDF ended; the stream's finish event starts *)
(* the clearing of the coupon without waiting for it.  Sequelize writes    *)
(* nothing when the coupon it read was already null.                       *)
placeOrderInsert(t) ==
    /\ At(t, "checkout", "insert")
    /\ orders' = Append(orders, Order(t))
    /\ clears' = clears \cup (IF rq[t].c = "none" THEN {} ELSE {U(t)})
    /\ spent' = [spent EXCEPT ![U(t)] = @ \/ rq[t].c # "none"]
    /\ Goto(t, "destroy")
    /\ UNCHANGED <<price, stock, items, coupon, wallet, role, cards, addresses, month, events, taken, booked, lost>>

(* Every row of the basket goes, the ones added since the basket was read  *)
(* included.                                                               *)
placeOrderDestroy(t) ==
    /\ At(t, "checkout", "destroy")
    /\ items' = [items EXCEPT ![U(t)] = NoItems]
    /\ Answer(t, "ok")
    /\ UNCHANGED <<price, stock, coupon, wallet, role, cards, addresses, orders, month, clears, events, hist>>

clearCoupon(u) ==
    /\ u \in clears
    /\ clears' = clears \ {u}
    /\ coupon' = [coupon EXCEPT ![u] = "none"]
    /\ UNCHANGED <<price, stock, items, wallet, role, cards, addresses, orders, month, rq, events, hist>>

(* The accounting user's PUT /rest/order-history/:id/delivery-status: the  *)
(* new state is the opposite of what the client saw.                       *)
toggleDeliveryStatus(t) ==
    /\ At(t, "toggle", "update")
    /\ orders' = [orders EXCEPT ![rq[t].i].delivered = ~rq[t].saw]
    /\ Answer(t, "ok")
    /\ UNCHANGED <<price, stock, items, coupon, wallet, role, cards, addresses, month, clears, events, hist>>

(* The month ends; coupons of the old month are worth nothing any more.    *)
NextMonth ==
    /\ month = 1 /\ Event
    /\ month' = 2
    /\ UNCHANGED <<db, rq, clears, hist>>

-----------------------------------------------------------------------------
(* What the server does next for the request of a tab.                     *)
Serve(t) ==
    \/ quantityCheckBeforeBasketItemAddition(t)
    \/ addBasketItem(t)
    \/ quantityCheckBeforeBasketItemUpdate(t)
    \/ quantityCheckOfUpdate(t)
    \/ putBasketItem(t)
    \/ delBasketItem(t)
    \/ applyCouponFind(t)
    \/ applyCouponUpdate(t)
    \/ addWalletBalanceCard(t)
    \/ addWalletBalance(t)
    \/ upgradeFindUser(t)
    \/ upgradeFindWallet(t)
    \/ upgradeDecrement(t)
    \/ upgradeFindCard(t)
    \/ upgradeRole(t)
    \/ writeCard(t)
    \/ writeAddress(t)
    \/ placeOrderFind(t)
    \/ placeOrderReadQuantity(t)
    \/ placeOrderUpdateQuantity(t)
    \/ placeOrderQuantityError(t)
    \/ placeOrderTotal(t)
    \/ placeOrderFindWallet(t)
    \/ placeOrderDecrement(t)
    \/ placeOrderIncrement(t)
    \/ placeOrderIncrementError(t)
    \/ placeOrderInsert(t)
    \/ placeOrderDestroy(t)
    \/ toggleDeliveryStatus(t)

=============================================================================
