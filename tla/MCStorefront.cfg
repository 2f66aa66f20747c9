SPECIFICATION Spec
CONSTANTS
    t1 = t1
    t2 = t2
    u1 = u1
    p1 = p1
    Users = {u1}
    Tabs = {t1, t2}
    Products = {p1}
    UserOf <- MCUserOf
    Price <- MCPrice
    DeluxePrice <- MCDeluxePrice
    Stock0 <- MCStock
    LimitPerUser <- MCLimit
    Wallet0 <- MCWallet
    Orders0 <- MCOrders
    Basket0 <- MCBasket
    DeliveryPrice = 100
    CouponDiscount = 10
    CampaignDiscount = 50
    MaxEvents = 1
    Scenarios <- MCScenarios
    MaxQty = 2
    TopUp = 1000
    NewPrice = 3000
INVARIANTS
    LedgersHold
    

    
CHECK_DEADLOCK FALSE
