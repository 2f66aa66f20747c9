SPECIFICATION Spec
CONSTANTS
    u1 = u1
    u2 = u2
    u3 = u3
    t1 = t1
    t2 = t2
    No = No
    Users = {u1, u2, u3}
    Registered = {u1, u2}
    Tabs = {t1, t2}
    Scenarios <- MCScenarios
INVARIANTS
    AccountsAgree
    
    

    
CHECK_DEADLOCK FALSE
