CONSTANTS
    ThreadNums = {2}
    WordBits = 2
    MaxAttempts = 1
    MaxCalls = 2
SPECIFICATION Spec
INVARIANTS ReturnsWhenDone
