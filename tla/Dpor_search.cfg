SPECIFICATION Spec
CONSTANTS
    w1 = w1
    w2 = w2
    w3 = w3
    States <- AllStates
    Enabled <- AllEnabled
    Bad = {8, 9}
    Workers = {w1, w2, w3}
    Calls <- SearchCalls
INVARIANTS SearchClosed ViolationsReported
PROPERTIES SearchEnds
CHECK_DEADLOCK FALSE
