----------------------------- MODULE Storefront -----------------------------
(***************************************************************************)
(* The checkout pages of the Juice Shop client on top of the server of     *)
(* Checkout.  A tab keeps the state of a checkout in its sessionStorage    *)
(* and in the fields of the page it shows; the token is in localStorage,   *)
(* which the tabs of a user share.  A page that is left goes on handling   *)
(* the answers to its requests: nothing unsubscribes.                      *)
(***************************************************************************)
EXTENDS Checkout

CONSTANTS
    Scenarios,    \* bound: per tab, the page it starts with and how many things its user does
    MaxQty,       \* bound: pieces of a product in a basket
    TopUp,        \* the amount a wallet is charged with
    NewPrice      \* the price the accounting department may set

ASSUME StorefrontAssumption ==
    /\ Scenarios \subseteq [Tabs -> [page : {"basket", "payShop", "summary", "accounting", "closed"}, clicks : Nat]]
    /\ {MaxQty, TopUp, NewPrice} \subseteq Nat
    /\ \A p \in Products : Basket0[p] <= MaxQty

VARIABLES
    tok,      \* user -> the role in the token in localStorage
    pg,       \* tab -> the page it shows
    ss,       \* tab -> its sessionStorage
    view,     \* tab -> the fields of the page
    clicks,   \* tab -> how many things its user will still do
    doubt     \* history: user -> what a tab shows of the coupon may differ from the basket:
              \* two tabs are in use, a coupon was refused or replaced after a discount was
              \* shown or its answer came to another page, or the month has ended

cvars == <<tok, pg, ss, view, clicks, doubt>>
vars == <<svars, cvars>>

NaN == -1         \* parseFloat(null)
Unset == -1       \* a sessionStorage key that is not there

(* The endpoints behind the services, by the handler's first step.         *)
BasketService == [addItem |-> "check", putItem |-> "find", delItem |-> "del", coupon |-> "find", checkout |-> "find"]
WalletService == [topup |-> "card"]
PaymentService == [card |-> "write"]
AddressService == [address |-> "write"]
OrderHistoryService == [toggle |-> "update"]
UserService == [upgrade |-> "user"]

EmptySession == [itemTotal |-> Unset, address |-> FALSE, method |-> FALSE, pay |-> "none",
                 discount |-> 0, campaign |-> FALSE, walletTotal |-> Unset]

EmptyView == [total |-> 0, balance |-> 0, its |-> NoItems, shown |-> 0, listed |-> FALSE,
              delivered |-> <<>>]

-----------------------------------------------------------------------------
(* Pages.                                                                  *)

isDeluxe(t) == tok[U(t)] = "deluxe"

(* The part of the item total that the session promises to take off.       *)
promotionalDiscount(s, itemTotal) == DiscountAmount(itemTotal, s.discount)

(* PaymentComponent.initTotal.  Without a delivery method the request for  *)
(* its price fails and the total keeps its initial value.                  *)
initTotal(t, page, s) ==
    CASE page = "payWallet" -> s.walletTotal
      [] page = "payDeluxe" -> deluxeMembershipStatus(isDeluxe(t))
      [] OTHER -> IF ~s.method THEN 0
                  ELSE IF s.itemTotal = Unset THEN NaN
                  ELSE s.itemTotal + deliveryAmount(TRUE, isDeluxe(t)) - promotionalDiscount(s, s.itemTotal)

(* What the order summary adds up: the basket as PurchaseBasketComponent   *)
(* loads it, the delivery and the discount.                                *)
summaryTotal(t, s) ==
    LET it == ItemTotal(price, retrieveBasket(t), isDeluxe(t))
    IN it + deliveryAmount(s.method, isDeluxe(t)) - promotionalDiscount(s, it)

(* What the components load when a route shows them.                       *)
loadBasket(t) == [EmptyView EXCEPT !.its = retrieveBasket(t)]
loadAddresses(t) == [EmptyView EXCEPT !.listed = getAddress(t)]
loadDeliveryMethods(t) == [EmptyView EXCEPT !.shown = deliveryAmount(TRUE, isDeluxe(t))]
loadPayment(t, page, s) ==
    [EmptyView EXCEPT !.total = initTotal(t, page, s), !.balance = getWalletBalance(t), !.listed = getPaymentMethods(t)]
loadWallet(t) == [EmptyView EXCEPT !.balance = getWalletBalance(t)]
loadSummary(t, s) == [EmptyView EXCEPT !.its = retrieveBasket(t), !.shown = summaryTotal(t, s)]
loadOrders == [EmptyView EXCEPT !.delivered = allOrders]
loadOrderHistory(t) == [EmptyView EXCEPT !.delivered = [i \in orderHistory(t) |-> orders[i].delivered]]

Loaded(t, page, s) ==
    CASE page = "basket" -> loadBasket(t)
      [] page = "address" -> loadAddresses(t)
      [] page = "delivery" -> loadDeliveryMethods(t)
      [] page \in {"payShop", "payWallet", "payDeluxe"} -> loadPayment(t, page, s)
      [] page = "wallet" -> loadWallet(t)
      [] page = "summary" -> loadSummary(t, s)
      [] page = "accounting" -> loadOrders
      [] page = "history" -> loadOrderHistory(t)
      [] OTHER -> EmptyView

(* BasketComponent.getBonusPoints: the basket page stores the item total.  *)
Stored(t, page, s) ==
    IF page = "basket" THEN [s EXCEPT !.itemTotal = ItemTotal(price, retrieveBasket(t), isDeluxe(t))] ELSE s

(* A tab shows a page, with the given sessionStorage.                      *)
Show(t, page, s) ==
    /\ pg' = [pg EXCEPT ![t] = page]
    /\ ss' = [ss EXCEPT ![t] = Stored(t, page, s)]
    /\ view' = [view EXCEPT ![t] = Loaded(t, page, Stored(t, page, s))]

(* A tab may have come to its first page through the pages before it.      *)
StartSession(page) ==
    [EmptySession EXCEPT !.itemTotal = IF page \in {"basket", "payShop"} THEN ItemTotal(Price, Basket0, FALSE) ELSE Unset,
                         !.address = page \in {"payShop", "summary"},
                         !.method = page \in {"payShop", "summary"},
                         !.pay = IF page = "summary" THEN "wallet" ELSE "none"]

InUse(t) == pg[t] # "closed" \/ clicks[t] > 0

InitStorefront ==
    /\ InitCheckout
    /\ tok = [u \in Users |-> "customer"]
    /\ \E sc \in Scenarios :
         /\ pg = [t \in Tabs |-> sc[t].page]
         /\ clicks = [t \in Tabs |-> sc[t].clicks]
    /\ ss = [t \in Tabs |-> StartSession(pg[t])]
    /\ view = [t \in Tabs |-> Loaded(t, pg[t], ss[t])]
    /\ doubt = [u \in Users |-> \E t, s \in Tabs : t # s /\ U(t) = u /\ U(s) = u /\ InUse(t) /\ InUse(s)]

Click(t) == clicks[t] > 0 /\ clicks' = [clicks EXCEPT ![t] = @ - 1]

(* The navigation bar, the address bar, and the back buttons.              *)
Visit(t, page) ==
    /\ Click(t)
    /\ pg[t] # page
    /\ Show(t, page, ss[t])
    /\ UNCHANGED <<svars, tok, doubt>>

-----------------------------------------------------------------------------
(* Search results and basket.                                              *)

(* SearchResultComponent.addToBasket: the basket is read, then a row is    *)
(* added or its quantity raised.                                           *)
addToBasket(t, p) ==
    /\ pg[t] = "search" /\ Click(t)
    /\ LET q == items[U(t)][p] IN
       /\ q < MaxQty
       /\ IF q = 0
          THEN Send(t, [op |-> "addItem", pc |-> BasketService.addItem, status |-> "pending",
                        p |-> p, q |-> 1, deluxe |-> isDeluxe(t)])
          ELSE Send(t, [op |-> "putItem", pc |-> BasketService.putItem, status |-> "pending",
                        p |-> p, q |-> q + 1, deluxe |-> isDeluxe(t)])
    /\ UNCHANGED <<db, month, clears, events, hist, tok, pg, ss, view, doubt>>

(* PurchaseBasketComponent.inc and dec, on the row as it is read now.      *)
addToQuantity(t, p, value) ==
    /\ pg[t] = "basket" /\ view[t].its[p] > 0 /\ Click(t)
    /\ LET q == items[U(t)][p] + value IN
       /\ items[U(t)][p] > 0 /\ q <= MaxQty
       /\ Send(t, [op |-> "putItem", pc |-> BasketService.putItem, status |-> "pending",
                  p |-> p, q |-> IF q < 1 THEN 1 ELSE q, deluxe |-> isDeluxe(t)])
    /\ UNCHANGED <<db, month, clears, events, hist, tok, pg, ss, view, doubt>>

delete(t, p) ==
    /\ pg[t] = "basket" /\ view[t].its[p] > 0 /\ Click(t)
    /\ Send(t, [op |-> "delItem", pc |-> BasketService.delItem, status |-> "pending", p |-> p])
    /\ UNCHANGED <<db, month, clears, events, hist, tok, pg, ss, view, doubt>>

(* The button is disabled for a basket without products.                   *)
checkout(t) ==
    /\ pg[t] = "basket" /\ view[t].its # NoItems /\ Click(t)
    /\ Show(t, "address", ss[t])
    /\ UNCHANGED <<svars, tok, doubt>>

-----------------------------------------------------------------------------
(* Address, delivery and payment.                                          *)

chooseAddress(t) ==
    /\ pg[t] = "address" /\ view[t].listed /\ Click(t)
    /\ Show(t, "delivery", [ss[t] EXCEPT !.address = TRUE])
    /\ UNCHANGED <<svars, tok, doubt>>

chooseDeliveryMethod(t) ==
    /\ pg[t] = "delivery" /\ Click(t)
    /\ Show(t, "payShop", [ss[t] EXCEPT !.method = TRUE])
    /\ UNCHANGED <<svars, tok, doubt>>

(* PaymentComponent.applyCoupon with a code that is no campaign: the       *)
(* session's campaign is overwritten at once, the rest when the server has *)
(* answered.                                                               *)
applyCoupon(t, c) ==
    /\ pg[t] = "payShop" /\ Click(t)
    /\ Send(t, [op |-> "coupon", pc |-> BasketService.coupon, status |-> "pending", c |-> c, discount |-> 0])
    /\ ss' = [ss EXCEPT ![t].campaign = FALSE]
    /\ doubt' = [doubt EXCEPT ![U(t)] = @ \/ ss[t].campaign \/ U(t) \in clears]
    /\ UNCHANGED <<db, month, clears, events, hist, tok, pg, view>>

(* A campaign code is decided by the client, on its own date.              *)
applyCampaign(t, onTheDay) ==
    /\ pg[t] = "payShop" /\ Click(t)
    /\ Show(t, "payShop", [ss[t] EXCEPT !.campaign = onTheDay,
                                        !.discount = IF onTheDay THEN CampaignDiscount ELSE @])
    /\ doubt' = [doubt EXCEPT ![U(t)] = @ \/ coupon[U(t)] # "none" \/ rq[t].pc # "idle"
                                          \/ (~onTheDay /\ ss[t].campaign)]
    /\ UNCHANGED <<svars, tok>>

(* PaymentComponent.choosePayment removes itemTotal before it looks at     *)
(* anything.  The wallet button is disabled while the balance shown is too *)
(* small; comparisons with NaN are false.                                  *)
Affordable(t) == view[t].total = NaN \/ view[t].balance >= view[t].total

choosePaymentShop(t, mode) ==
    /\ pg[t] = "payShop" /\ Click(t)
    /\ mode = "wallet" => Affordable(t)
    /\ mode = "card" => view[t].listed
    /\ Show(t, "summary", [ss[t] EXCEPT !.itemTotal = Unset, !.pay = mode])
    /\ UNCHANGED <<svars, tok, doubt>>

choosePaymentWallet(t) ==
    /\ pg[t] = "payWallet" /\ view[t].listed /\ view[t].total # NaN /\ Click(t)
    /\ Send(t, [op |-> "topup", pc |-> WalletService.topup, status |-> "pending", amount |-> view[t].total, card |-> TRUE])
    /\ ss' = [ss EXCEPT ![t].itemTotal = Unset]
    /\ UNCHANGED <<db, month, clears, events, hist, tok, pg, view, doubt>>

choosePaymentDeluxe(t, mode) ==
    /\ pg[t] = "payDeluxe" /\ Click(t)
    /\ mode = "wallet" => Affordable(t)
    /\ mode = "card" => view[t].listed
    /\ Send(t, [op |-> "upgrade", pc |-> UserService.upgrade, status |-> "pending",
               mode |-> mode, card |-> mode = "card", seen |-> 0])
    /\ ss' = [ss EXCEPT ![t].itemTotal = Unset]
    /\ UNCHANGED <<db, month, clears, events, hist, tok, pg, view, doubt>>

(* WalletComponent.continue                                                *)
continue(t) ==
    /\ pg[t] = "wallet" /\ Click(t)
    /\ Show(t, "payWallet", [ss[t] EXCEPT !.walletTotal = TopUp])
    /\ UNCHANGED <<svars, tok, doubt>>

(* DeluxeUserComponent.upgradeToDeluxe, offered to customers only.         *)
upgradeToDeluxe(t) ==
    /\ pg[t] = "deluxe" /\ ~isDeluxe(t) /\ Click(t)
    /\ Show(t, "payDeluxe", ss[t])
    /\ UNCHANGED <<svars, tok, doubt>>

(* The page of saved addresses and cards.                                  *)
saveAddress(t) ==
    /\ pg[t] = "saved" /\ Click(t)
    /\ Send(t, [op |-> "address", pc |-> AddressService.address, status |-> "pending", keep |-> TRUE])
    /\ UNCHANGED <<db, month, clears, events, hist, tok, pg, ss, view, doubt>>

deleteAddress(t) ==
    /\ pg[t] = "saved" /\ Click(t)
    /\ Send(t, [op |-> "address", pc |-> AddressService.address, status |-> "pending", keep |-> FALSE])
    /\ UNCHANGED <<db, month, clears, events, hist, tok, pg, ss, view, doubt>>

saveCard(t) ==
    /\ pg[t] = "saved" /\ Click(t)
    /\ Send(t, [op |-> "card", pc |-> PaymentService.card, status |-> "pending", keep |-> TRUE])
    /\ UNCHANGED <<db, month, clears, events, hist, tok, pg, ss, view, doubt>>

deleteCard(t) ==
    /\ pg[t] = "saved" /\ Click(t)
    /\ Send(t, [op |-> "card", pc |-> PaymentService.card, status |-> "pending", keep |-> FALSE])
    /\ UNCHANGED <<db, month, clears, events, hist, tok, pg, ss, view, doubt>>

(* OrderSummaryComponent.placeOrder                                        *)
placeOrder(t) ==
    /\ pg[t] = "summary" /\ Click(t)
    /\ Send(t, [op |-> "checkout", pc |-> BasketService.checkout, status |-> "pending",
               deluxe |-> isDeluxe(t), campaign |-> ss[t].campaign,
               method |-> ss[t].method, address |-> ss[t].address, pay |-> ss[t].pay,
               its |-> NoItems, prices |-> price, points |-> 0, c |-> "none", todo |-> {}, p |-> "none", q |-> 0,
               total |-> 0, seen |-> 0, view |-> view[t], promised |-> ss[t].discount,
               settled |-> U(t) \notin clears])
    /\ UNCHANGED <<db, month, clears, events, hist, tok, pg, ss, view, doubt>>

-----------------------------------------------------------------------------
(* Answers.                                                                *)

Receive(t, op) == rq[t].op = op /\ rq[t].pc = "answered" /\ rq' = [rq EXCEPT ![t] = [op |-> "none", pc |-> "idle"]]

(* The page reloads the basket; a page that was left does not show it.     *)
onItemChanged(t) ==
    /\ Receive(t, rq[t].op) /\ rq[t].op \in {"addItem", "putItem", "delItem"}
    /\ IF rq[t].status = "ok" /\ pg[t] = "basket" THEN Show(t, "basket", ss[t]) ELSE UNCHANGED <<pg, ss, view>>
    /\ UNCHANGED <<db, month, clears, events, hist, tok, clicks, doubt>>

(* showConfirmation, or an error that leaves the discount in the session.  *)
onCoupon(t) ==
    /\ Receive(t, "coupon")
    /\ IF rq[t].status = "ok"
       THEN /\ ss' = [ss EXCEPT ![t].discount = rq[t].discount]
            /\ view' = [view EXCEPT ![t].total = IF pg[t] = "payShop" THEN initTotal(t, "payShop", ss'[t]) ELSE @]
       ELSE UNCHANGED <<ss, view>>
    /\ doubt' = [doubt EXCEPT ![U(t)] = @ \/ pg[t] # "payShop" \/ (rq[t].status # "ok" /\ ss[t].discount > 0)]
    /\ UNCHANGED <<db, month, clears, events, hist, tok, pg, clicks>>

onTopUp(t) ==
    /\ Receive(t, "topup")
    /\ IF rq[t].status = "ok"
       THEN Show(t, "wallet", [ss[t] EXCEPT !.walletTotal = Unset])
       ELSE UNCHANGED <<pg, ss, view>>
    /\ UNCHANGED <<db, month, clears, events, hist, tok, clicks, doubt>>

onUpgrade(t) ==
    /\ Receive(t, "upgrade")
    /\ IF rq[t].status = "ok"
       THEN tok' = [tok EXCEPT ![U(t)] = "deluxe"] /\ Show(t, "deluxe", ss[t])
       ELSE UNCHANGED <<tok, pg, ss, view>>
    /\ UNCHANGED <<db, month, clears, events, hist, clicks, doubt>>

(* Variant: the discount stays in the session.                             *)
onOrderKeepingDiscount(t) ==
    /\ Receive(t, "checkout")
    /\ IF rq[t].status = "ok"
       THEN Show(t, "completion", [EmptySession EXCEPT !.itemTotal = ss[t].itemTotal, !.walletTotal = ss[t].walletTotal,
                                                       !.discount = ss[t].discount])
       ELSE UNCHANGED <<pg, ss, view>>
    /\ doubt' = [doubt EXCEPT ![U(t)] = @ \/ ss[t].discount # rq[t].promised]
    /\ UNCHANGED <<db, month, clears, events, hist, tok, clicks>>

(* The keys of the checkout go, whatever the tab has put there meanwhile.  *)
onOrder(t) ==
    /\ Receive(t, "checkout")
    /\ IF rq[t].status = "ok"
       THEN Show(t, "completion", [EmptySession EXCEPT !.itemTotal = ss[t].itemTotal, !.walletTotal = ss[t].walletTotal])
       ELSE UNCHANGED <<pg, ss, view>>
    /\ doubt' = [doubt EXCEPT ![U(t)] = @ \/ ss[t].discount # rq[t].promised]
    /\ UNCHANGED <<db, month, clears, events, hist, tok, clicks>>

onRecord(t) ==
    /\ Receive(t, rq[t].op) /\ rq[t].op \in {"card", "address"}
    /\ UNCHANGED <<db, month, clears, events, hist, cvars>>

-----------------------------------------------------------------------------
(* The accounting department.                                              *)

(* AccountingComponent.modifyPrice: the generated PUT /api/Products/:id.   *)
modifyPrice(p) ==
    /\ price[p] # NewPrice /\ Event
    /\ price' = [price EXCEPT ![p] = NewPrice]
    /\ UNCHANGED <<stock, items, coupon, wallet, role, cards, addresses, orders, month, rq, clears, hist, cvars>>

(* changeDeliveryStatus sends what the list shows, which may be old.       *)
changeDeliveryStatus(t, i) ==
    /\ pg[t] = "accounting" /\ i \in DOMAIN view[t].delivered /\ Click(t)
    /\ Send(t, [op |-> "toggle", pc |-> OrderHistoryService.toggle, status |-> "pending", i |-> i, saw |-> view[t].delivered[i]])
    /\ UNCHANGED <<db, month, clears, events, hist, tok, pg, ss, view, doubt>>

(* loadOrders                                                              *)
onToggle(t) ==
    /\ Receive(t, "toggle")
    /\ IF pg[t] = "accounting" THEN Show(t, "accounting", ss[t]) ELSE UNCHANGED <<pg, ss, view>>
    /\ UNCHANGED <<db, month, clears, events, hist, tok, clicks, doubt>>

-----------------------------------------------------------------------------
Background ==
    \/ \E u \in Users : clearCoupon(u) /\ UNCHANGED cvars
    \/ NextMonth /\ doubt' = [u \in Users |-> TRUE] /\ UNCHANGED <<tok, pg, ss, view, clicks>>
    \/ \E p \in Products : modifyPrice(p)

Pages == {"search", "basket", "payShop", "wallet", "deluxe", "saved", "summary", "history"}

UserAct(t) ==
    \/ \E page \in Pages : Visit(t, page)
    \/ \E p \in Products : addToBasket(t, p) \/ delete(t, p) \/ \E d \in {-1, 1} : addToQuantity(t, p, d)
    \/ checkout(t)
    \/ chooseAddress(t)
    \/ chooseDeliveryMethod(t)
    \/ \E c \in {"month1", "bad"} : applyCoupon(t, c)
    \/ \E b \in BOOLEAN : applyCampaign(t, b)
    \/ \E m \in {"wallet", "card"} : choosePaymentShop(t, m) \/ choosePaymentDeluxe(t, m)
    \/ choosePaymentWallet(t)
    \/ continue(t)
    \/ upgradeToDeluxe(t)
    \/ saveAddress(t) \/ deleteAddress(t)
    \/ saveCard(t) \/ deleteCard(t)
    \/ placeOrder(t)
    \/ \E i \in 1..Len(orders) : changeDeliveryStatus(t, i)

OnAnswer(t) ==
    \/ onItemChanged(t)
    \/ onCoupon(t)
    \/ onTopUp(t)
    \/ onUpgrade(t)
    \/ onOrder(t)
    \/ onRecord(t)
    \/ onToggle(t)

Next ==
    \/ \E t \in Tabs : Serve(t) /\ UNCHANGED cvars
    \/ \E t \in Tabs : OnAnswer(t) \/ UserAct(t)
    \/ Background

(* Node runs every callback that is ready; what users do is up to them.    *)
Fairness ==
    /\ \A t \in Tabs : WF_vars(Serve(t) /\ UNCHANGED cvars) /\ WF_vars(OnAnswer(t))
    /\ \A u \in Users : WF_vars(clearCoupon(u) /\ UNCHANGED cvars)

Spec == InitStorefront /\ [][Next]_vars /\ Fairness

-----------------------------------------------------------------------------
(* The variables have the values the tables, the session and the requests  *)
(* allow.                                                                  *)
TypeOK ==
    /\ price \in ProductTable
    /\ stock \in QuantityTable
    /\ items \in BasketItemTable /\ \A u \in Users, p \in Products : items[u][p] <= MaxQty
    /\ coupon \in BasketTable
    /\ wallet \in WalletTable
    /\ role \in [Users -> {"customer", "deluxe"}]
    /\ tok \in [Users -> {"customer", "deluxe"}]
    /\ cards \in CardTable /\ addresses \in AddressTable
    /\ clears \subseteq Users
    /\ \A t \in Tabs :
         /\ rq[t].pc \in {"idle", "answered", "check", "save", "find", "put", "del", "update", "card",
                          "increment", "user", "wallet", "decrement", "role", "write", "quantity",
                          "take", "charge", "bonus", "insert", "destroy"}
         /\ ss[t].itemTotal >= Unset /\ ss[t].walletTotal >= Unset
         /\ view[t].total >= NaN

(* What a request has moved in the wallet before its order is stored.      *)
Pending(t) ==
    IF rq[t].op # "checkout" \/ rq[t].pc \notin {"bonus", "insert"} THEN 0
    ELSE (IF rq[t].pc = "insert" THEN rq[t].points ELSE 0)
         - (IF rq[t].pay = "wallet" THEN rq[t].total ELSE 0)

(* What an order has moved, and the orders a user has placed since the     *)
(* data creator stored its own.                                            *)
Booking(o) == o.bonus - (IF o.pay = "wallet" THEN o.total ELSE 0)
NewOrders(u) == {i \in (Len(Orders0) + 1)..Len(orders) : orders[i].user = u}

(* placeOrder, addWalletBalance and upgradeToDeluxe: however the requests  *)
(* interleave, a wallet is what it was, plus top-ups, minus memberships,   *)
(* plus the points and minus the totals of the orders that exist, those    *)
(* that are being placed, and those that failed after the charge.          *)
BooksBalance ==
    \A u \in Users :
        wallet[u] = Wallet0[u] + booked[u] - lost[u]
             + SumFunctionOnSet([i \in DOMAIN orders |-> Booking(orders[i])], NewOrders(u))
             + SumFunctionOnSet([t \in Tabs |-> Pending(t)], {t \in Tabs : U(t) = u})

(* placeOrder reads a quantity and writes it back later.  Overlapping      *)
(* orders lose updates, but only in one direction: the stock on record is  *)
(* never smaller than what the orders have left of it.                     *)
StockNotUnderstated == \A p \in Products : stock[p] >= Stock0[p] - taken[p]

Quiet(u) == u \notin clears /\ \A t \in Tabs : U(t) = u => rq[t].pc \in {"idle", "answered"}

(* The finish handler of placeOrder does not wait for the coupon to be     *)
(* cleared: once everything has come to rest, a coupon that an order has   *)
(* used and that nobody has applied again is out of the basket.            *)
SpentCouponGone == \A u \in Users : Quiet(u) /\ spent[u] => coupon[u] = "none"

(* placeOrder and upgradeToDeluxe check the balance and charge it later: a *)
(* charge overdraws a wallet only if the balance has changed in between.   *)
OverdraftNeedsRace ==
    [][\A u \in Users : wallet[u] >= 0 /\ wallet'[u] < 0 =>
          \E t \in Tabs : /\ U(t) = u /\ rq[t].pc \in {"charge", "decrement"} /\ rq'[t].pc # rq[t].pc
                          /\ rq[t].seen # wallet[u]]_vars

(* The discount a lone tab keeps in its session, with which it computes    *)
(* the totals it shows, is the one placeOrder would grant now, unless a    *)
(* coupon was refused or replaced after a discount was shown or the month  *)
(* has ended.                                                              *)
PromisedDiscount ==
    \A t \in Tabs :
        pg[t] # "closed" /\ ~doubt[U(t)] /\ rq[t].pc = "idle" /\ U(t) \notin clears =>
            ss[t].discount = calculateApplicableDiscount(coupon[U(t)], month, ss[t].campaign)

(* The total placeOrder computes is the one the order summary showed when  *)
(* the button was pressed, if the basket and the prices are still those    *)
(* and the coupon of an earlier order was not about to be cleared then.    *)
SummaryIsCharged ==
    \A t \in Tabs :
        /\ rq[t].op = "checkout" /\ rq[t].pc \in {"wallet", "charge", "bonus", "insert", "destroy"}
        /\ ~doubt[U(t)] /\ rq[t].settled /\ rq[t].its = rq[t].view.its /\ price = Price
        => rq[t].total = rq[t].view.shown

(* Every request is answered, and the tab sees the answer.                 *)
Answered == \A t \in Tabs : rq[t].pc # "idle" ~> rq[t].pc = "idle"

(* The ledgers of placeOrder, addWalletBalance and upgradeToDeluxe: the    *)
(* wallets agree with the orders, and the stock with what was taken.       *)
LedgersHold == TypeOK /\ BooksBalance /\ StockNotUnderstated

(* What a tab shows before an order (payment, order-summary) is what       *)
(* placeOrder grants and charges, and a coupon is not granted twice.       *)
TabsAgree == SpentCouponGone /\ PromisedDiscount /\ SummaryIsCharged

(* Requests: a charge overdraws only after a race between the check and    *)
(* the charge (order.ts:143, deluxe.ts:26), and all are answered.          *)
RequestsEnd == OverdraftNeedsRace /\ Answered
=============================================================================
