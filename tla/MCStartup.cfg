SPECIFICATION Spec
CONSTANTS
    StaticUsers <- MCStaticUsers
    Baskets <- MCBaskets
    BasketItems <- MCBasketItems
    Recycles <- MCRecycles
    FakeUsers = 1
    Scenarios <- MCScenarios
INVARIANTS
    
    StartIsSound
PROPERTIES
    ShopIsServed
CHECK_DEADLOCK FALSE
