SPECIFICATION Spec
CONSTANTS
    i1 = i1
    i2 = i2
    Instructors = {i1, i2}
    Starts <- MCStarts
    MaxDetours = 2
INVARIANTS
    FollowerIsLed
    
PROPERTIES
    ScriptsAreFollowed
CHECK_DEADLOCK FALSE
