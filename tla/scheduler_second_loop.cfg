SPECIFICATION Spec
CONSTANTS
    Checks = {k1}
    Loops = {l1, l2, l3}
    NoLoop = none
    Handlers = {h1}
    MaxRetries = 0
    Cooled = {k1}
CHECK_DEADLOCK FALSE
INVARIANT OneLoopPerCheck
