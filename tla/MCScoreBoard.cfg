SPECIFICATION Spec
CONSTANTS
    c1 = c1
    c2 = c2
    t1 = t1
    Challenges = {c1, c2}
    Coding = {c1}
    Checked = {c2}
    Tutorial = {c1}
    Tabs = {t1}
    MaxRestarts = 1
    Scenarios <- MCScenarios
INVARIANTS
    
    SettledAtRest

    
CHECK_DEADLOCK FALSE
