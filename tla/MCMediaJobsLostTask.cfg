SPECIFICATION Spec
CONSTANTS
    User = {u1}
    Message = {}
    Job = {j1, j2}
    Avatar = {j2}
    Worker = {w1, w2}
    Amount = {1}
    MaxAttempts = 2
    Opening = 2
    MaxSpend = 0
    MaxDeaths = 0
    MaxLost = 1
    MaxRefused = 1
    MaxFailed = 0
    Nil = Nil
    NoWallet = NoWallet
CHECK_DEADLOCK FALSE
INVARIANTS NeverTakenForNothing
