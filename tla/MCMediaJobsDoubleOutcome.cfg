SPECIFICATION Spec
CONSTANTS
    User = {u1}
    Message = {}
    Job = {j1, j2}
    Avatar = {j2}
    Worker = {w1, w2}
    Amount = {1}
    MaxAttempts = 2
    Opening = 2
    MaxSpend = 0
    MaxDeaths = 1
    MaxLost = 0
    MaxRefused = 0
    MaxFailed = 0
    Nil = Nil
    NoWallet = NoWallet
CHECK_DEADLOCK FALSE
INVARIANTS RefundedOnlyUndelivered
