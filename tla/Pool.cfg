CONSTANTS
    ThreadNums = {1, 2}
    WordBits = 64
    MaxAttempts = 2
    MaxCalls = 4
SPECIFICATION FairSpec
INVARIANTS TypeOK ReturnsWhenDone WorkersAreIdle CalledOncePerExecution NobodyDoneEarly NoLostNotification PausedCanBeWoken
PROPERTIES CallsReturn
