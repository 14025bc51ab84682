SPECIFICATION FairSpec
CONSTANTS
    Req = {r1, r2, r3}
    Main = main
    Threshold = 2
    Cooldown = 2
    Timeout = 1
    MaxLogs = 2
    Cancellable = {r1}
INVARIANTS StoredOnce SentIsSettled OpenIsEarned LossIsCounted
PROPERTY FlushEnds
CHECK_DEADLOCK FALSE
