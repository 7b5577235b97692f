CONSTANTS
    Sizes = {1, 2}
    MaxResizes = 1
SPECIFICATION ClientSpec
CHECK_DEADLOCK FALSE
INVARIANTS RefusalIsSeen
