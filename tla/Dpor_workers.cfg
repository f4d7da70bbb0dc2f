SPECIFICATION Spec
CONSTANTS
    w1 = w1
    w2 = w2
    w3 = w3
    States <- AllStates
    Enabled <- AllEnabled
    Bad = {}
    Workers = {w1, w2, w3}
    Calls <- ThoroughCalls
INVARIANTS AllStatesFound
CHECK_DEADLOCK FALSE
